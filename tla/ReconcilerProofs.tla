-------------------------- MODULE ReconcilerProofs --------------------------
(***************************************************************************)
(* Theorems about Reconciler for every repository, every set of runners and *)
(* scenes: commits keep their branch, and what was there before the guards  *)
(* of an action began is not destroyed by it; left alone, a sync that       *)
(* succeeds leaves an agent in every linked checkout, and runs that take    *)
(* turns open nothing twice.                                                *)
(***************************************************************************)
EXTENDS Reconciler, FiniteSetTheorems, SequenceTheorems, TLAPS

IsSeq(s) == s \in Seq(Range(s))

\* What runners remember is a record of these; only some of it matters here.
Fields     == {"snap", "i", "plan", "seen", "target", "phase", "trail", "opened",
               "tries", "failed", "unasked", "gaveUp"}
SnapFields == {"worktrees", "workspaces", "agents", "reports", "herdrAbsent", "release"}
ShapeInv ==
  /\ scene \in Scenes
  /\ DOMAIN run = Runner /\ DOMAIN pc = Runner
  /\ \A r \in Runner : DOMAIN run[r] = Fields /\ DOMAIN run[r].snap = SnapFields

\* A checkout has its branch, and so have commits that are nowhere else.
BranchInv ==
  /\ onDisk \cap Linked \subseteq branches
  /\ ahead \cap Linked \subseteq branches

WorktreeSet ==
  [path : Tree, branch : {BranchOf[t] : t \in Linked} \cup {NoBranch}, linked : BOOLEAN,
   bare : BOOLEAN, workspace : WS \cup {NoWS}, dirty : BOOLEAN, merged : BOOLEAN,
   gone : BOOLEAN, transcript : BOOLEAN, pr : PRStates]
SpaceSet ==
  [id : WS, path : Tree, linked : BOOLEAN, panes : {<<>>} \cup {PanesOf[w] : w \in WS}]

\* A workspace once seen on a path is there or closed, and not open again.
Stood(ws, path) == ws \in used /\ held[ws] \in {path, NoTree}

\* What a snapshot says of herdr was so.
Genuine(snap) ==
  /\ snap.worktrees \in Seq(WorktreeSet)
  /\ snap.workspaces \in Seq(SpaceSet)
  /\ \A i \in DOMAIN snap.workspaces :
       LET ws == snap.workspaces[i]
       IN  Stood(ws.id, ws.path) /\ ws.panes \in {<<>>, PanesOf[ws.id]}

\* An action names a pane of its workspace, or a workspace of its checkout.
Sound(a) ==
  /\ a.kind \in {"adopt", "staff", "prune", "keep", "ghost", "close-ghost"}
  /\ a.path \in Tree
  /\ a.kind = "staff" => a.workspace \in WS /\ a.pane \in Range(PanesOf[a.workspace])
  /\ a.kind = "prune" => a.workspace \in WS \cup {NoWS}
  /\ a.kind = "close-ghost" => Stood(a.workspace, a.path)
SoundPlan(plan) == IsSeq(plan) /\ \A i \in DOMAIN plan : Sound(plan[i])
PlanInv(r)      == Genuine(run[r].snap) /\ SoundPlan(run[r].plan)

\* A runner at work on an action has it before it.
StaffAt == {"staffAgents", "staffPanes", "staffStart", "staffWait"}
PruneAt == {"pruneDirty", "pruneHolder", "pruneAgents", "prunePanes", "pruneCaller",
            "pruneRemove", "pruneBranch"}
CloseAt == {"closeStat", "closeReport", "closeAgents", "closePanes", "closeWorkspace"}
Doing(r, kind) == run[r].plan # <<>> /\ Now(r).kind = kind
DoingInv(r) ==
  /\ pc[r] = "open"     => Doing(r, "adopt")
  /\ pc[r] \in StaffAt => Doing(r, "staff")
  /\ pc[r] \in PruneAt => Doing(r, "prune")
  /\ pc[r] \in CloseAt => Doing(r, "close-ghost")

\* What has held since the guards began holds, and what a guard has looked at is in
\* what the runner saw, or was found not to be so.
Gone(r, kind, x) == <<kind, x>> \notin since[r]
Sees(r) ==
  \A p \in Pane :
    /\ Gone(r, "agent", p) \/ p \in DOMAIN run[r].seen
    /\ Gone(r, "busy", p) \/ (p \in DOMAIN run[r].seen /\ run[r].seen[p] = "working")
Vacant(r, w) ==
  \A p \in Range(PanesOf[w]) :
    Gone(r, "busy", p) /\ (Now(r).releases \/ Gone(r, "agent", p))
LookedInto(r) ==
  /\ pc[r] \in {"staffPanes", "prunePanes", "closePanes"} => Sees(r)
  /\ pc[r] = "staffStart" => \A p \in Range(PanesOf[Now(r).workspace]) : Gone(r, "agent", p)
PruneInv(r) ==
  /\ pc[r] \in PruneAt \ {"pruneDirty", "pruneBranch"} =>
       Gone(r, "dirty", Now(r).path) /\ run[r].target \in WS \cup {NoWS}
  /\ pc[r] \in {"pruneAgents", "prunePanes"} => run[r].target # NoWS
  /\ pc[r] \in {"pruneCaller", "pruneRemove"} =>
       /\ run[r].target # NoWS => Vacant(r, run[r].target)
       /\ run[r].target = NoWS => \A p \in PanesOn(Now(r).path) : Gone(r, "busy", p)
CloseInv(r) ==
  /\ pc[r] \in CloseAt \ {"closeStat"} =>
       Gone(r, "checkout", Now(r).path) /\ Gone(r, "dirty", Now(r).path)
  /\ pc[r] \in {"closeAgents", "closePanes", "closeWorkspace"} => Gone(r, "unfinished", Now(r).pane)
  /\ pc[r] = "closeWorkspace" => Vacant(r, Now(r).workspace)
GuardInv(r) ==
  since[r] \subseteq Facts /\ LookedInto(r) /\ PruneInv(r) /\ CloseInv(r)

RunnerInv(r) == PlanInv(r) /\ DoingInv(r) /\ GuardInv(r)
WorldInv     == TypeOK /\ BranchInv
IInv         == WorldInv /\ ShapeInv /\ NothingLost /\ \A r \in Runner : RunnerInv(r)

-----------------------------------------------------------------------------
(* Sequences *)

\* The place an index has among those picked: the indices take all places, each its own.
Rank(where, i) == Cardinality({j \in where : j <= i})
Indices(where) == \E n \in Nat : where \subseteq 1..n

LEMMA Ranks ==
  ASSUME NEW where, Indices(where)
  PROVE  /\ Cardinality(where) \in Nat
         /\ \A i \in where : Rank(where, i) \in 1..Cardinality(where)
         /\ \A i, k \in where : Rank(where, i) = Rank(where, k) => i = k
         /\ \A m \in 1..Cardinality(where) : \E i \in where : Rank(where, i) = m
  <1> DEFINE rank(i) == Cardinality({j \in where : j <= i})
  <1>1. IsFiniteSet(where) /\ Cardinality(where) \in Nat /\ where \subseteq Nat
    <2>1. PICK n \in Nat : where \subseteq 1..n
      BY DEF Indices
    <2>2. IsFiniteSet(1..n)
      BY FS_Interval
    <2>3. IsFiniteSet(where)
      BY <2>1, <2>2, FS_Subset
    <2> QED BY <2>1, <2>3, FS_CardinalityType
  <1>2. ASSUME NEW i \in where PROVE rank(i) \in 1..Cardinality(where)
    <2>1. {j \in where : j <= i} \in SUBSET where /\ i \in {j \in where : j <= i}
      BY <1>1
    <2>2. IsFiniteSet({j \in where : j <= i}) /\ rank(i) <= Cardinality(where)
      BY <1>1, <2>1, FS_Subset
    <2>3. rank(i) \in Nat /\ rank(i) # 0
      BY <2>1, <2>2, FS_CardinalityType, FS_EmptySet
    <2> HIDE DEF rank
    <2> QED BY <1>1, <2>2, <2>3
  <1>3. ASSUME NEW i \in where, NEW k \in where, i < k PROVE rank(i) # rank(k)
    <2>0. i \in Nat /\ k \in Nat /\ \A j \in where : j \in Nat /\ (j <= i => j <= k)
      BY <1>1, <1>3
    <2>1. {j \in where : j <= i} \in SUBSET {j \in where : j <= k}
      BY <2>0
    <2>3. k \in {j \in where : j <= k} /\ k \notin {j \in where : j <= i}
      BY <1>3, <2>0
    <2>2. IsFiniteSet({j \in where : j <= k})
      BY <1>1, FS_Subset
    <2> QED BY <2>1, <2>2, <2>3, FS_Subset
  <1>4. ASSUME NEW i \in where, NEW k \in where, rank(i) = rank(k) PROVE i = k
    <2> HIDE DEF rank
    <2>1. i \in Nat /\ k \in Nat /\ (i < k => rank(i) # rank(k)) /\ (k < i => rank(k) # rank(i))
      BY <1>1, <1>3
    <2> QED BY <1>4, <2>1
  <1>5. ASSUME NEW m \in 1..Cardinality(where) PROVE \E i \in where : rank(i) = m
    <2> SUFFICES ASSUME \A i \in where : rank(i) # m PROVE FALSE
      OBVIOUS
    <2> DEFINE rest == (1..Cardinality(where)) \ {m}
               f    == [i \in where |-> rank(i)]
    <2>1. f \in [where -> rest]
      BY <1>2
    <2>2. IsFiniteSet(rest) /\ Cardinality(rest) < Cardinality(where)
      <3>1. IsFiniteSet(1..Cardinality(where)) /\ Cardinality(1..Cardinality(where)) = Cardinality(where)
        BY <1>1, FS_Interval
      <3>2. IsFiniteSet(rest) /\ Cardinality(rest) = Cardinality(1..Cardinality(where)) - 1
        BY <3>1, FS_RemoveElement
      <3> QED BY <1>1, <3>1, <3>2
    <2> HIDE DEF rest
    <2> HIDE DEF f
    <2>3. PICK x, y \in where : x # y /\ f[x] = f[y]
      BY <1>1, <2>1, <2>2, FS_PigeonHole
    <2>4. rank(x) = rank(y)
      BY <2>3 DEF f
    <2> QED BY <1>4, <2>3, <2>4
  <1> QED BY <1>1, <1>2, <1>4, <1>5 DEF Rank

\* In each place Picked has the element whose index takes that place.
LEMMA PickedIs ==
  ASSUME NEW seq, NEW where, Indices(where)
  PROVE  /\ DOMAIN Picked(seq, where) = 1..Cardinality(where)
         /\ \A m \in DOMAIN Picked(seq, where) :
              \E i \in where : Rank(where, i) = m /\ Picked(seq, where)[m] = seq[i]
  <1> DEFINE at(m) == CHOOSE i \in where : Rank(where, i) = m
             places == 1..Cardinality(where)
  <1>1. Picked(seq, where) = [m \in places |-> seq[at(m)]]
    BY DEF Picked, Rank
  <1>2. ASSUME NEW m \in places PROVE at(m) \in where /\ Rank(where, at(m)) = m
    BY Ranks
  <1> HIDE DEF at, places
  <1> QED BY <1>1, <1>2 DEF places

\* Every element picked is there, in the place of its index.
LEMMA PickedAll ==
  ASSUME NEW seq, NEW where, Indices(where), NEW i \in where
  PROVE  /\ Rank(where, i) \in DOMAIN Picked(seq, where)
         /\ Picked(seq, where)[Rank(where, i)] = seq[i]
  <1>1. Rank(where, i) \in 1..Cardinality(where)
    BY Ranks
  <1>2. PICK m : m \in DOMAIN Picked(seq, where) /\ m = Rank(where, i)
    BY <1>1, PickedIs
  <1>3. PICK k \in where : Rank(where, k) = m /\ Picked(seq, where)[m] = seq[k]
    BY <1>2, PickedIs
  <1>4. k = i
    BY <1>2, <1>3, Ranks
  <1> QED BY <1>2, <1>3, <1>4

\* What Picked returns is a sequence of elements of the one it picks from.
LEMMA PickedFrom ==
  ASSUME NEW S, NEW seq \in Seq(S), NEW where \in SUBSET DOMAIN seq
  PROVE  /\ Picked(seq, where) \in Seq(S)
         /\ \A n \in DOMAIN Picked(seq, where) : \E i \in where : Picked(seq, where)[n] = seq[i]
  <1>1. Indices(where)
    <2>1. DOMAIN seq = 1..Len(seq) /\ Len(seq) \in Nat
      OBVIOUS
    <2> QED BY <2>1 DEF Indices
  <1> DEFINE picked == Picked(seq, where)
  <1>2. /\ DOMAIN picked = 1..Cardinality(where) /\ Cardinality(where) \in Nat
        /\ \A m \in DOMAIN picked : \E i \in where : picked[m] = seq[i]
    BY <1>1, PickedIs, Ranks
  <1>3. \A n \in 1..Cardinality(where) : Picked(seq, where)[n] \in S
    BY <1>2
  <1>4. Picked(seq, where) \in [1..Cardinality(where) -> S]
    BY <1>3 DEF Picked
  <1>5. Picked(seq, where) \in Seq(S)
    BY <1>2, <1>4
  <1> QED BY <1>2, <1>5

\* What is left of a plan when its first action is answered.
LEMMA TailIs ==
  ASSUME NEW s, IsSeq(s), s # <<>>
  PROVE  /\ IsSeq(Tail(s))
         /\ \A i \in DOMAIN Tail(s) : Tail(s)[i] = s[i+1] /\ i + 1 \in DOMAIN s
         /\ 1 \in DOMAIN s /\ Head(s) = s[1]
  <1>1. Tail(s) \in Seq(Range(s)) /\ Len(s) \in Nat /\ Len(s) > 0 /\ DOMAIN s = 1..Len(s)
        /\ Len(Tail(s)) = Len(s) - 1
    BY DEF IsSeq
  <1>2. Tail(s) \in Seq(Range(Tail(s)))
    BY <1>1, SeqOfRange
  <1>3. \A i \in 1..Len(s) - 1 : Tail(s)[i] = s[i+1]
    BY <1>1
  <1> QED BY <1>1, <1>2, <1>3 DEF IsSeq

-----------------------------------------------------------------------------
(* Facts, and what a runner still has of them *)

FactsMean ==
  /\ \A t : <<"dirty", t>> \in Facts <=> t \in dirty
  /\ \A t : <<"checkout", t>> \in Facts <=> t \in onDisk
  /\ \A p : <<"agent", p>> \in Facts <=> p \in Pane /\ Hosted(p)
  /\ \A p : <<"busy", p>> \in Facts <=> p \in Pane /\ agent[p] = "working"
  /\ \A p : <<"unfinished", p>> \in Facts <=> p \in Pane /\ report[p] # "done"

LEMMA FactsAre == FactsMean /\ FactsMean'
  <1>1. FactsMean
    BY DEF FactsMean, Facts
  <1>2. FactsMean'
    BY DEF FactsMean, Facts
  <1> QED BY <1>1, <1>2

\* Facts a runner has had since its guards began are facts, and it gains none but by
\* beginning to guard.
LEMMA SinceIs ==
  ASSUME Watch, NEW r \in Runner, since[r] \subseteq Facts
  PROVE  /\ since'[r] \subseteq Facts'
         /\ pc'[r] = pc[r] \/ pc'[r] \notin GuardsBegin => since'[r] \subseteq since[r]
  <1>1. since'[r] = IF pc'[r] \in GuardsBegin /\ pc[r] # pc'[r] THEN Facts'
                    ELSE IF pc'[r] \in {"idle", "next", "done", "trees"} THEN {}
                    ELSE since[r] \cap Facts'
    BY DEF Watch
  <1> QED BY <1>1

-----------------------------------------------------------------------------
(* What a step does to the world *)

GitOK ==
  /\ onDisk \subseteq Tree /\ dirty \subseteq onDisk
  /\ ahead \subseteq Tree /\ branches \subseteq Linked
  /\ pr \in [Tree -> PRStates]
HerdrOK ==
  /\ held \in [WS -> Tree \cup {NoTree}]
  /\ \A w \in WS : held[w] # NoTree => w \in used
  /\ listed \subseteq used /\ used \subseteq WS
  /\ agent \in [Pane -> Agents]
  /\ \A w \in WS : held[w] = NoTree => \A p \in Range(PanesOf[w]) : agent[p] = "none"

\* No workspace id is handed out twice, and none changes its checkout.
HeldStep ==
  /\ used \subseteq used'
  /\ \A w \in WS : held'[w] = held[w] \/ held'[w] = NoTree \/ w \notin used

LEMMA TypeParts == TypeOK <=> GitOK /\ HerdrOK
    /\ report \in [Pane -> {"none", "progress", "done"}] /\ moves \in 0..MaxMoves
  BY DEF TypeOK, GitOK, HerdrOK

LEMMA TypePartsNext == TypeOK' <=> GitOK' /\ HerdrOK'
    /\ report' \in [Pane -> {"none", "progress", "done"}] /\ moves' \in 0..MaxMoves'
  BY DEF TypeOK, GitOK, HerdrOK

LEMMA HerdrStays ==
  ASSUME HerdrOK, UNCHANGED herdrVars PROVE HerdrOK' /\ HeldStep
  BY DEF HerdrOK, HeldStep, herdrVars, Agents

\* A pane of an open workspace hosts something else.
LEMMA AgentSet ==
  ASSUME HerdrOK, NEW w \in WS, held[w] # NoTree, NEW p \in Range(PanesOf[w]),
         NEW next \in Agents, agent' = [agent EXCEPT ![p] = next],
         UNCHANGED <<held, used, listed>>
  PROVE  HerdrOK' /\ HeldStep
  <1>1. agent' \in [Pane -> Agents]
    BY DEF HerdrOK
  <1>2. ASSUME NEW v \in WS, held[v] = NoTree, NEW q \in Range(PanesOf[v])
        PROVE  agent'[q] = "none"
    <2>1. q # p
      BY <1>2, WorldAssumption
    <2>2. q \in Pane
      BY DEF Pane
    <2> QED BY <1>2, <2>1, <2>2 DEF HerdrOK
  <1> QED BY <1>1, <1>2 DEF HerdrOK, HeldStep

\* herdr opens a workspace.
LEMMA SpaceOpened ==
  ASSUME HerdrOK, NEW w \in WS \ used, NEW t \in Tree, held' = [held EXCEPT ![w] = t],
         used' = used \cup {w}, listed' \in {listed, listed \cup {w}}, UNCHANGED agent
  PROVE  HerdrOK' /\ HeldStep
  BY WorldAssumption DEF HerdrOK, HeldStep, Agents

LEMMA SpacesClosed ==
  ASSUME HerdrOK, NEW spaces \in SUBSET WS, CloseSpaces(spaces)
  PROVE  HerdrOK' /\ HeldStep
  <1>1. held' \in [WS -> Tree \cup {NoTree}] /\ agent' \in [Pane -> Agents]
    BY DEF HerdrOK, CloseSpaces, Agents
  <1>2. \A w \in WS : held'[w] = IF w \in spaces THEN NoTree ELSE held[w]
    BY DEF CloseSpaces
  <1>3. \A w \in WS : held'[w] = NoTree => \A p \in Range(PanesOf[w]) : agent'[p] = "none"
    BY <1>2 DEF HerdrOK, CloseSpaces, Pane
  <1>4. (\A w \in WS : held'[w] # NoTree => w \in used') /\ listed' \subseteq used' /\ used' \subseteq WS
    BY <1>2 DEF HerdrOK, CloseSpaces
  <1> QED BY <1>1, <1>2, <1>3, <1>4 DEF HerdrOK, HeldStep, CloseSpaces

LEMMA NowIs ==
  ASSUME NEW r \in Runner, PlanInv(r), run[r].plan # <<>> PROVE Sound(Now(r))
  BY TailIs DEF PlanInv, SoundPlan, Now

LEMMA WorldSame ==
  ASSUME WorldInv, UNCHANGED <<scene, world>> PROVE WorldInv' /\ HeldStep
  BY DEF WorldInv, TypeOK, BranchInv, HeldStep, world, gitVars, herdrVars, Agents, MaxMoves

\* Reading a snapshot changes nothing but what the runner remembers.
LEMMA CollectReads ==
  ASSUME NEW r \in Runner, Collect(r) PROVE Reading
  BY DEF Collect, Begin, WorktreeList, WorkspaceList, AgentList, Resolve, ResolvedAll,
     PaneList, ListedPanes, ReadGhostReport, CollectFails, PlanIt

\* Five steps of the executor act; the others look.
LEMMA ExecuteReads ==
  ASSUME NEW r \in Runner, Execute(r)
  PROVE  \/ Reading
         \/ WorktreeOpen(r) \/ AgentStart(r) \/ RemoveCheckout(r) \/ DropBranch(r)
         \/ CloseWorkspace(r)
  BY DEF Execute, TakeAction, PassOver, ReadAgents, StaffPanes, AgentPaneBusy,
     AgentStartFails, AgentStarted, PruneDirty, PruneHolder, PrunePanes, PruneCaller,
     RemoveFails, CloseStat, CloseReport, ClosePanes, CloseFails

LEMMA ActsOnWorld ==
  ASSUME WorldInv, NEW r \in Runner, PlanInv(r), DoingInv(r), PruneInv(r),
         \/ WorktreeOpen(r) \/ AgentStart(r) \/ RemoveCheckout(r) \/ DropBranch(r)
         \/ CloseWorkspace(r)
  PROVE  WorldInv' /\ HeldStep
  <1> DEFINE reports == report \in [Pane -> {"none", "progress", "done"}] /\ moves \in 0..MaxMoves
  <1> USE DEF WorldInv
  <1>1. GitOK /\ HerdrOK /\ BranchInv /\ reports
    BY TypeParts
  <1>2. SUFFICES GitOK' /\ HerdrOK' /\ BranchInv' /\ reports' /\ HeldStep
    BY TypePartsNext
  <1>3. ASSUME run[r].plan # <<>> PROVE Sound(Now(r))
    BY <1>3, NowIs
  <1>4. CASE WorktreeOpen(r)
    <2>1. GitOK' /\ BranchInv' /\ reports'
      BY <1>1, <1>4 DEF WorktreeOpen, GitOK, BranchInv, gitVars, Watch, MaxMoves
    <2>2. Now(r).path \in Tree
      BY <1>3, <1>4 DEF WorktreeOpen, DoingInv, Doing, Sound
    <2>3. CASE UNCHANGED herdrVars
      BY <1>1, <2>1, <2>3, HerdrStays
    <2>4. CASE ~UNCHANGED herdrVars
      <3>1. UNCHANGED agent
        BY <1>4, <2>4 DEF WorktreeOpen, herdrVars
      <3>2. PICK w \in WS \ used :
              /\ held' = [held EXCEPT ![w] = Now(r).path] /\ used' = used \cup {w}
              /\ listed' = IF Lags THEN listed ELSE listed \cup {w}
        BY <1>4, <2>4 DEF WorktreeOpen, herdrVars
      <3>3. HerdrOK' /\ HeldStep
        BY <1>1, <2>2, <3>1, <3>2, SpaceOpened
      <3> QED BY <2>1, <3>3
    <2> QED BY <2>3, <2>4
  <1>5. CASE AgentStart(r)
    <2>1. GitOK' /\ BranchInv' /\ reports'
      BY <1>1, <1>5 DEF AgentStart, GitOK, BranchInv, gitVars, Watch, MaxMoves
    <2>2. Now(r).workspace \in WS /\ Now(r).pane \in Range(PanesOf[Now(r).workspace])
      BY <1>3, <1>5 DEF AgentStart, DoingInv, Doing, Sound, StaffAt
    <2>3. HerdrOK' /\ HeldStep
      BY <1>1, <1>5, <2>2, AgentSet DEF AgentStart, Agents
    <2> QED BY <2>1, <2>3
  <1>6. CASE RemoveCheckout(r)
    <2> DEFINE spaces == {run[r].target} \ {NoWS}
    <2>1. GitOK' /\ BranchInv' /\ reports'
      BY <1>1, <1>6 DEF RemoveCheckout, GitOK, BranchInv, Watch, MaxMoves
    <2>2. spaces \in SUBSET WS
      BY <1>6 DEF RemoveCheckout, PruneInv, PruneAt
    <2>3. CloseSpaces(spaces)
      BY <1>6 DEF RemoveCheckout
    <2> HIDE DEF spaces
    <2>4. HerdrOK' /\ HeldStep
      BY <1>1, <2>2, <2>3, SpacesClosed
    <2> QED BY <2>1, <2>4
  <1>7. CASE DropBranch(r)
    <2>1. reports' /\ HerdrOK' /\ HeldStep
      BY <1>1, <1>7, HerdrStays DEF DropBranch, herdrVars, Watch, MaxMoves
    <2>2. GitOK' /\ BranchInv'
      BY <1>1, <1>7 DEF DropBranch, GitOK, BranchInv
    <2> QED BY <2>1, <2>2
  <1>8. CASE CloseWorkspace(r)
    <2>1. GitOK' /\ BranchInv' /\ reports'
      BY <1>1, <1>8 DEF CloseWorkspace, GitOK, BranchInv, gitVars, Watch, MaxMoves
    <2>2. Now(r).workspace \in WS
      BY <1>1, <1>3, <1>8 DEF CloseWorkspace, DoingInv, Doing, Sound, Stood, CloseAt, HerdrOK
    <2>3. HerdrOK' /\ HeldStep
      BY <1>1, <1>8, <2>2, SpacesClosed DEF CloseWorkspace
    <2> QED BY <2>1, <2>3
  <1> QED BY <1>4, <1>5, <1>6, <1>7, <1>8

\* People, agents and herdr leave the world in order, and the runners as they are.
LEMMA OthersAct ==
  ASSUME WorldInv, scene \in Scenes, Environment
  PROVE  WorldInv' /\ HeldStep /\ Elsewhere
  <1> DEFINE reports == report \in [Pane -> {"none", "progress", "done"}]
             counted == moves \in 0..MaxMoves
  <1> USE DEF WorldInv
  <1>1. GitOK /\ HerdrOK /\ BranchInv /\ reports /\ counted
    BY TypeParts
  <1>2. SUFFICES GitOK' /\ HerdrOK' /\ BranchInv' /\ reports' /\ counted' /\ HeldStep /\ Elsewhere
    BY TypePartsNext
  <1>3. ASSUME Move \/ UNCHANGED moves, UNCHANGED scene PROVE counted'
    BY <1>1, <1>3, SceneAssumption DEF Move, MaxMoves
  <1>4. ASSUME NEW t \in Tree, Edit(t) \/ Commit(t) \/ PRMerges(t) \/ Checkout(t)
        PROVE  GitOK' /\ HerdrOK' /\ BranchInv' /\ reports' /\ counted' /\ HeldStep /\ Elsewhere
    <2>1. counted' /\ reports' /\ Elsewhere
      BY <1>1, <1>3, <1>4 DEF Edit, Commit, PRMerges, Checkout, Elsewhere, Watch
    <2>2. HerdrOK' /\ HeldStep
      BY <1>1, <1>4, HerdrStays DEF Edit, Commit, PRMerges, Checkout
    <2>3. CASE Edit(t)
      BY <1>1, <2>1, <2>2, <2>3 DEF Edit, GitOK, BranchInv
    <2>4. CASE Commit(t)
      BY <1>1, <2>1, <2>2, <2>4 DEF Commit, GitOK, BranchInv
    <2>5. CASE PRMerges(t)
      <3>1. GitOK'
        BY <1>1, <2>5 DEF PRMerges, GitOK, PRStates
      <3> QED BY <1>1, <2>1, <2>2, <2>5, <3>1 DEF PRMerges, BranchInv
    <2>6. CASE Checkout(t)
      BY <1>1, <2>1, <2>2, <2>6 DEF Checkout, GitOK, BranchInv
    <2> QED BY <1>4, <2>3, <2>4, <2>5, <2>6
  <1>5. ASSUME NEW t \in Tree, UserOpens(t)
        PROVE  GitOK' /\ HerdrOK' /\ BranchInv' /\ reports' /\ counted' /\ HeldStep /\ Elsewhere
    <2>1. counted' /\ reports' /\ Elsewhere /\ GitOK' /\ BranchInv'
      BY <1>1, <1>3, <1>5 DEF UserOpens, Elsewhere, Watch, gitVars, GitOK, BranchInv
    <2>2. PICK w \in WS \ used :
            /\ held' = [held EXCEPT ![w] = t] /\ used' = used \cup {w}
            /\ listed' = IF Lags THEN listed ELSE listed \cup {w}
      BY <1>5 DEF UserOpens
    <2>3. HerdrOK' /\ HeldStep
      BY <1>1, <1>5, <2>2, SpaceOpened DEF UserOpens
    <2> QED BY <2>1, <2>3
  <1>6. ASSUME NEW p \in Pane, AgentMoves(p) \/ WorkerReports(p) \/ Launched(p)
        PROVE  GitOK' /\ HerdrOK' /\ BranchInv' /\ reports' /\ counted' /\ HeldStep /\ Elsewhere
    <2>1. counted' /\ reports' /\ Elsewhere /\ GitOK' /\ BranchInv'
      BY <1>1, <1>3, <1>6
         DEF AgentMoves, WorkerReports, Launched, Elsewhere, Watch, gitVars, GitOK, BranchInv
    <2>2. CASE WorkerReports(p)
      BY <1>1, <2>1, <2>2, HerdrStays DEF WorkerReports
    <2>3. ASSUME AgentMoves(p) \/ Launched(p)
          PROVE  \E w \in WS : p \in Range(PanesOf[w]) /\ held[w] # NoTree
      BY <1>1, <2>3 DEF AgentMoves, Launched, HerdrOK, Pane
    <2>4. ASSUME AgentMoves(p) \/ Launched(p)
          PROVE  /\ \E next \in Agents : agent' = [agent EXCEPT ![p] = next]
                 /\ UNCHANGED <<held, used, listed>>
      BY <2>4 DEF AgentMoves, Launched, Agents
    <2>5. CASE AgentMoves(p) \/ Launched(p)
      BY <1>1, <2>1, <2>3, <2>4, <2>5, AgentSet
    <2> QED BY <1>6, <2>2, <2>5
  <1>7. ASSUME NEW w \in WS, UserCloses(w)
        PROVE  GitOK' /\ HerdrOK' /\ BranchInv' /\ reports' /\ counted' /\ HeldStep /\ Elsewhere
    <2>1. counted' /\ reports' /\ Elsewhere /\ GitOK' /\ BranchInv'
      BY <1>1, <1>3, <1>7 DEF UserCloses, Elsewhere, Watch, gitVars, GitOK, BranchInv
    <2> QED BY <1>1, <1>7, <2>1, SpacesClosed DEF UserCloses
  <1>8. ASSUME ListCatchesUp
        PROVE  GitOK' /\ HerdrOK' /\ BranchInv' /\ reports' /\ counted' /\ HeldStep /\ Elsewhere
    <2>1. counted' /\ reports' /\ Elsewhere /\ GitOK' /\ BranchInv'
      BY <1>1, <1>3, <1>8 DEF ListCatchesUp, Elsewhere, Watch, gitVars, GitOK, BranchInv
    <2>2. HerdrOK' /\ HeldStep
      BY <1>1, <1>8 DEF ListCatchesUp, HerdrOK, HeldStep, Agents
    <2> QED BY <2>1, <2>2
  <1> QED BY <1>4, <1>5, <1>6, <1>7, <1>8 DEF Environment

LEMMA WorldStep ==
  ASSUME WorldInv, ShapeInv, \A r \in Runner : RunnerInv(r), [Next]_vars
  PROVE  WorldInv' /\ HeldStep
  <1>1. CASE UNCHANGED vars
    BY <1>1, WorldSame DEF vars
  <1>2. ASSUME NEW r \in Runner, Collect(r) \/ Execute(r) PROVE WorldInv' /\ HeldStep
    <2>1. CASE Reading
      BY <2>1, WorldSame DEF Reading, Watch
    <2>2. CASE ~Reading
      BY <1>2, <2>2, CollectReads, ExecuteReads, ActsOnWorld DEF RunnerInv, GuardInv
    <2> QED BY <2>1, <2>2
  <1>3. CASE Environment
    BY <1>3, OthersAct DEF ShapeInv
  <1> QED BY <1>1, <1>2, <1>3 DEF Next

-----------------------------------------------------------------------------
(* What a step leaves of what a runner knows *)

LEMMA StoodStays ==
  ASSUME HerdrOK, HeldStep, NEW w, NEW t, Stood(w, t) PROVE Stood(w, t)'
  BY DEF HerdrOK, HeldStep, Stood

LEMMA GenuineStays ==
  ASSUME HerdrOK, HeldStep, NEW snap, Genuine(snap) PROVE Genuine(snap)'
  BY StoodStays DEF Genuine

LEMMA SoundStays ==
  ASSUME HerdrOK, HeldStep, NEW a, Sound(a) PROVE Sound(a)'
  BY StoodStays DEF Sound

LEMMA NothingGenuine == Genuine(EmptyState) /\ DOMAIN EmptyState = SnapFields
  <1>1. <<>> \in Seq(WorktreeSet) /\ <<>> \in Seq(SpaceSet) /\ DOMAIN <<>> = {}
    OBVIOUS
  <1> QED BY <1>1 DEF Genuine, EmptyState, SnapFields

\* A runner that keeps its plan, or answers its first action, keeps what it knows of it.
LEMMA PlanStays ==
  ASSUME HerdrOK, HeldStep, NEW r \in Runner, PlanInv(r), Genuine(run'[r].snap),
         \/ run'[r].plan = run[r].plan
         \/ run[r].plan # <<>> /\ run'[r].plan = Tail(run[r].plan)
  PROVE  PlanInv(r)'
  <1>1. ASSUME NEW snap, snap = run'[r].snap PROVE Genuine(run[r].snap)'
    <2>1. Genuine(snap)'
      BY <1>1, GenuineStays
    <2> QED BY <1>1, <2>1 DEF Genuine, Stood
  <1>2. IsSeq(run'[r].plan) /\ \A i \in DOMAIN run'[r].plan : Sound(run'[r].plan[i])
    <2>1. CASE run'[r].plan = run[r].plan
      BY <2>1 DEF PlanInv, SoundPlan
    <2>2. CASE run[r].plan # <<>> /\ run'[r].plan = Tail(run[r].plan)
      BY <2>2, TailIs DEF PlanInv, SoundPlan
    <2> QED BY <2>1, <2>2
  <1>3. ASSUME NEW i \in DOMAIN run'[r].plan, NEW a, a = run'[r].plan[i]
        PROVE  Sound(run[r].plan[i])'
    <2>1. Sound(a)'
      BY <1>2, <1>3, SoundStays
    <2> QED BY <1>3, <2>1 DEF Sound, Stood
  <1>4. \A i \in DOMAIN run'[r].plan : Sound(run[r].plan[i])'
    BY <1>3
  <1> QED BY <1>1, <1>2, <1>4 DEF PlanInv, SoundPlan, IsSeq

\* Where a runner has no action in hand.
AtLarge == {"idle", "trees", "spaces", "agents", "facts", "panes", "reports", "next", "done"}

LEMMA NothingInHand ==
  ASSUME Watch, NEW r \in Runner, since[r] \subseteq Facts, pc'[r] \in AtLarge
  PROVE  DoingInv(r)' /\ GuardInv(r)'
  <1>1. since'[r] \subseteq Facts'
    BY SinceIs
  <1>2. DoingInv(r)'
    BY DEF DoingInv, AtLarge, StaffAt, PruneAt, CloseAt
  <1>3. LookedInto(r)' /\ PruneInv(r)' /\ CloseInv(r)'
    BY DEF LookedInto, PruneInv, CloseInv, AtLarge, PruneAt, CloseAt
  <1> QED BY <1>1, <1>2, <1>3 DEF GuardInv

\* An agent that has been busy in a checkout's panes ever since was in them already.
LEMMA NobodyComes ==
  ASSUME HerdrOK, HeldStep, NEW r \in Runner, NEW t \in Tree, since[r] \subseteq Facts,
         \A p \in PanesOn(t) : Gone(r, "busy", p), since'[r] \subseteq since[r]
  PROVE  \A p \in PanesOn(t)' : Gone(r, "busy", p)'
  <1> SUFFICES ASSUME NEW w \in WS, held'[w] = t, NEW p \in Range(PanesOf[w])
               PROVE  Gone(r, "busy", p)'
    BY DEF PanesOn, OnTree
  <1>1. CASE held[w] = t
    BY <1>1 DEF PanesOn, OnTree, Gone
  <1>2. CASE held[w] # t
    <2>1. held[w] = NoTree
      BY <1>2, WorldAssumption DEF HeldStep, HerdrOK
    <2>2. agent[p] = "none"
      BY <2>1 DEF HerdrOK
    <2> QED BY <2>2, FactsAre DEF FactsMean, Gone
  <1> QED BY <1>1, <1>2

\* Everything goes on being so for a runner that does not move.
LEMMA StaysPut ==
  ASSUME HerdrOK, HeldStep, Watch, NEW r \in Runner, RunnerInv(r),
         run'[r] = run[r], pc'[r] = pc[r]
  PROVE  RunnerInv(r)'
  <1> USE DEF RunnerInv, GuardInv
  <1>1. since'[r] \subseteq Facts' /\ since'[r] \subseteq since[r]
    BY SinceIs
  <1>2. PlanInv(r)'
    BY PlanStays DEF PlanInv
  <1>3. DoingInv(r)'
    BY DEF DoingInv, Doing, Now
  <1>4. LookedInto(r)'
    BY <1>1 DEF LookedInto, Sees, Gone, Now
  <1>5. CloseInv(r)'
    BY <1>1 DEF CloseInv, Vacant, Gone, Now
  <1>6. PruneInv(r)'
    <2>1. pc[r] \in PruneAt => Now(r).path \in Tree
      BY NowIs DEF DoingInv, Doing, Sound
    <2>2. ASSUME pc[r] \in {"pruneCaller", "pruneRemove"}, run[r].target = NoWS
          PROVE  \A p \in PanesOn(Now(r).path)' : Gone(r, "busy", p)'
      <3> SUFFICES ASSUME NEW t \in Tree, t = Now(r).path
                   PROVE  \A p \in PanesOn(Now(r).path)' : Gone(r, "busy", p)'
        BY <2>1, <2>2 DEF PruneAt
      <3>1. \A p \in PanesOn(t) : Gone(r, "busy", p)
        BY <2>2 DEF PruneInv
      <3>2. \A p \in PanesOn(t)' : Gone(r, "busy", p)'
        BY <1>1, <3>1, NobodyComes
      <3>3. Now(r)'.path = t
        BY DEF Now
      <3> QED BY <3>2, <3>3 DEF PanesOn, OnTree
    <2>3. Now(r)' = Now(r)
      BY DEF Now
    <2> QED BY <1>1, <2>2, <2>3 DEF PruneInv, Vacant, Gone, Now
  <1> QED BY <1>1, <1>2, <1>3, <1>4, <1>5, <1>6

-----------------------------------------------------------------------------
(* Collect *)

\* A step of runner r is nobody else's.
Alone(r) == ShapeInv' /\ \A q \in Runner \ {r} : run'[q] = run[q] /\ pc'[q] = pc[q]

\* What a snapshot still being read keeps.
Reads(r) ==
  Alone(r) /\ pc'[r] \in AtLarge /\ run'[r].plan = run[r].plan /\ Genuine(run'[r].snap)

LEMMA ListsWorktrees ==
  ASSUME WorldInv, ShapeInv, NEW r \in Runner, PlanInv(r), WorktreeList(r) PROVE Reads(r)
  <1> DEFINE found == Picked(Trees, {i \in DOMAIN Trees : Trees[i] \in onDisk})
  <1>1. PICK open \in [onDisk -> WS \cup {NoWS}] :
          run' = [run EXCEPT ![r].snap.worktrees =
                    [i \in DOMAIN found |-> Worktree(found[i], open[found[i]])]]
    BY DEF WorktreeList
  <1>2. /\ found \in Seq(Tree)
        /\ \A n \in DOMAIN found : \E i \in DOMAIN Trees : found[n] = Trees[i] /\ Trees[i] \in onDisk
    <2> DEFINE where == {i \in DOMAIN Trees : Trees[i] \in onDisk}
    <2>1. Trees \in Seq(Tree) /\ where \in SUBSET DOMAIN Trees
      BY WorldAssumption
    <2>2. \A i \in where : Trees[i] \in onDisk
      OBVIOUS
    <2> HIDE DEF where
    <2>3. /\ Picked(Trees, where) \in Seq(Tree)
          /\ \A n \in DOMAIN Picked(Trees, where) : \E i \in where : Picked(Trees, where)[n] = Trees[i]
      BY <2>1, PickedFrom
    <2> QED BY <2>1, <2>2, <2>3 DEF where
  <1> HIDE DEF found
  <1> DEFINE trees == [i \in DOMAIN found |-> Worktree(found[i], open[found[i]])]
  <1>3. \A i \in DOMAIN found : Worktree(found[i], open[found[i]]) \in WorktreeSet
    BY <1>2 DEF Worktree, WorktreeSet, PRStates
  <1>4. trees \in Seq(WorktreeSet)
    <2>1. DOMAIN found = 1..Len(found) /\ Len(found) \in Nat
      BY <1>2
    <2>2. trees \in [1..Len(found) -> WorktreeSet]
      BY <1>3, <2>1
    <2> QED BY <2>1, <2>2
  <1>5. run' = [run EXCEPT ![r].snap.worktrees = trees]
    BY <1>1
  <1> HIDE DEF trees
  <1>6. Alone(r) /\ run'[r].plan = run[r].plan
    BY <1>5 DEF WorktreeList, Goto, Reading, Watch, Alone, ShapeInv, Fields, SnapFields
  <1>7. /\ run'[r].snap.worktrees = trees
        /\ run'[r].snap.workspaces = run[r].snap.workspaces
    BY <1>5 DEF ShapeInv, Fields, SnapFields
  <1>8. Genuine(run'[r].snap)
    BY <1>4, <1>7 DEF Genuine, PlanInv
  <1>9. pc'[r] \in AtLarge
    BY DEF WorktreeList, Goto, ShapeInv, AtLarge
  <1> QED BY <1>6, <1>8, <1>9 DEF Reads

LEMMA ListsWorkspaces ==
  ASSUME WorldInv, ShapeInv, NEW r \in Runner, PlanInv(r), WorkspaceList(r) PROVE Reads(r)
  <1> DEFINE where == {i \in DOMAIN Spaces : held[Spaces[i]] # NoTree}
             found == Picked(Spaces, where)
             spaces == [i \in DOMAIN found |->
                          [id |-> found[i], path |-> held[found[i]],
                           linked |-> held[found[i]] \in Linked, panes |-> <<>>]]
  <1>1. run' = [run EXCEPT ![r].snap.workspaces = spaces]
    BY DEF WorkspaceList
  <1>2. found \in Seq(WS) /\ \A n \in DOMAIN found : found[n] \in WS /\ held[found[n]] # NoTree
    <2>1. Spaces \in Seq(WS) /\ where \in SUBSET DOMAIN Spaces
      BY WorldAssumption
    <2>2. \A i \in where : held[Spaces[i]] # NoTree
      OBVIOUS
    <2> HIDE DEF where
    <2>3. /\ Picked(Spaces, where) \in Seq(WS)
          /\ \A n \in DOMAIN Picked(Spaces, where) : \E i \in where : Picked(Spaces, where)[n] = Spaces[i]
      BY <2>1, PickedFrom
    <2> QED BY <2>1, <2>2, <2>3
  <1> HIDE DEF found
  <1>3. \A i \in DOMAIN found : spaces[i] \in SpaceSet
    BY <1>2 DEF SpaceSet, WorldInv, TypeOK
  <1>4. spaces \in Seq(SpaceSet)
    <2>1. DOMAIN found = 1..Len(found) /\ Len(found) \in Nat
      BY <1>2
    <2>2. spaces \in [1..Len(found) -> SpaceSet]
      BY <1>3, <2>1
    <2> QED BY <2>1, <2>2
  <1>5. \A i \in DOMAIN spaces : Stood(spaces[i].id, spaces[i].path) /\ spaces[i].panes = <<>>
    BY <1>2 DEF WorldInv, TypeOK, Stood
  <1> HIDE DEF spaces
  <1>6. Alone(r) /\ run'[r].plan = run[r].plan
    BY <1>1 DEF WorkspaceList, Goto, Reading, Watch, Alone, ShapeInv, Fields, SnapFields
  <1>7. /\ run'[r].snap.worktrees = run[r].snap.worktrees
        /\ run'[r].snap.workspaces = spaces
    BY <1>1 DEF ShapeInv, Fields, SnapFields
  <1>8. Genuine(run'[r].snap)
    BY <1>4, <1>5, <1>7 DEF Genuine, PlanInv
  <1>9. pc'[r] \in AtLarge
    BY DEF WorkspaceList, Goto, ShapeInv, AtLarge
  <1> QED BY <1>6, <1>8, <1>9 DEF Reads

LEMMA FactsFilled ==
  ASSUME NEW w \in WorktreeSet, NEW d \in BOOLEAN, NEW m \in BOOLEAN, NEW g \in BOOLEAN,
         NEW s \in PRStates
  PROVE  [w EXCEPT !.dirty = d, !.merged = m, !.gone = g, !.pr = s] \in WorktreeSet
  BY DEF WorktreeSet

LEMMA ReadsFacts ==
  ASSUME WorldInv, ShapeInv, NEW r \in Runner, PlanInv(r), Resolve(r) PROVE Reads(r)
  <1> DEFINE i == run[r].i
             trees == run[r].snap.worktrees
             w == trees[i]
             read == [w EXCEPT !.dirty = w.path \in dirty \/ w.path \notin onDisk,
                               !.merged = w.path \in InBase /\ w.path \notin ahead,
                               !.gone = w.path \in InBase,
                               !.pr = IF Kind[r] = "apply" THEN pr[w.path] ELSE ""]
             now == IF ~w.linked THEN w ELSE read
  <1>1. /\ i \in DOMAIN trees
        /\ run' = [run EXCEPT ![r].i = i + 1, ![r].snap.worktrees[i] = now]
    BY DEF Resolve
  <1>2. trees \in Seq(WorktreeSet) /\ w \in WorktreeSet
    <2>1. trees \in Seq(WorktreeSet)
      BY DEF PlanInv, Genuine
    <2> HIDE DEF trees
    <2> QED BY <1>1, <2>1
  <1>3. now \in WorktreeSet
    <2>1. (IF Kind[r] = "apply" THEN pr[w.path] ELSE "") \in PRStates
      BY <1>2 DEF WorktreeSet, WorldInv, TypeOK, PRStates
    <2>2. CASE w.linked
      <3>1. now = [w EXCEPT !.dirty = w.path \in dirty \/ w.path \notin onDisk,
                            !.merged = w.path \in InBase /\ w.path \notin ahead,
                            !.gone = w.path \in InBase,
                            !.pr = IF Kind[r] = "apply" THEN pr[w.path] ELSE ""]
        BY <2>2
      <3>2. /\ (w.path \in dirty \/ w.path \notin onDisk) \in BOOLEAN
            /\ (w.path \in InBase /\ w.path \notin ahead) \in BOOLEAN
            /\ (w.path \in InBase) \in BOOLEAN
        OBVIOUS
      <3> HIDE DEF now
      <3> HIDE DEF w
      <3> QED BY <1>2, <2>1, <3>1, <3>2, FactsFilled
    <2> QED BY <1>2, <2>2
  <1> HIDE DEF now
  <1>4. UNCHANGED <<pc, scene>> /\ pc'[r] \in AtLarge
    BY DEF Resolve, Reading, Watch, AtLarge
  <1>5. [trees EXCEPT ![i] = now] \in Seq(WorktreeSet)
    BY <1>1, <1>2, <1>3
  <1>6. /\ run'[r].snap.worktrees = [trees EXCEPT ![i] = now]
        /\ run'[r].snap.workspaces = run[r].snap.workspaces
    BY <1>1 DEF ShapeInv, Fields, SnapFields
  <1>7. Alone(r) /\ run'[r].plan = run[r].plan
    BY <1>1, <1>4 DEF Alone, ShapeInv, Fields, SnapFields
  <1>8. Genuine(run'[r].snap)
    BY <1>5, <1>6 DEF Genuine, PlanInv
  <1> QED BY <1>4, <1>7, <1>8 DEF Reads

LEMMA ListsPanes ==
  ASSUME WorldInv, ShapeInv, NEW r \in Runner, PlanInv(r), PaneList(r) PROVE Reads(r)
  <1> DEFINE i == run[r].i
             spaces == run[r].snap.workspaces
             w == spaces[i].id
  <1>1. i \in DOMAIN spaces /\ spaces \in Seq(SpaceSet) /\ w \in WS
    <2>1. i \in DOMAIN spaces /\ spaces \in Seq(SpaceSet)
      BY DEF PaneList, PlanInv, Genuine
    <2>2. spaces[i] \in SpaceSet
      BY <2>1
    <2> QED BY <2>1, <2>2 DEF SpaceSet
  <1>2. UNCHANGED <<pc, scene>> /\ pc'[r] \in AtLarge
    BY DEF PaneList, Reading, Watch, AtLarge
  <1>3. CASE held[w] = NoTree
    <2> DEFINE left == Picked(spaces, DOMAIN spaces \ {i})
    <2>1. run' = [run EXCEPT ![r].snap.workspaces = left]
      BY <1>3 DEF PaneList
    <2>2. left \in Seq(SpaceSet) /\ \A n \in DOMAIN left : \E k \in DOMAIN spaces : left[n] = spaces[k]
      <3> DEFINE where == DOMAIN spaces \ {i}
      <3>1. where \in SUBSET DOMAIN spaces
        OBVIOUS
      <3> HIDE DEF where
      <3> HIDE DEF spaces
      <3>2. /\ Picked(spaces, where) \in Seq(SpaceSet)
            /\ \A n \in DOMAIN Picked(spaces, where) :
                 \E k \in where : Picked(spaces, where)[n] = spaces[k]
        BY <1>1, <3>1, PickedFrom
      <3> QED BY <3>1, <3>2 DEF where
    <2> HIDE DEF left
    <2>3. /\ run'[r].snap.worktrees = run[r].snap.worktrees
          /\ run'[r].snap.workspaces = left
      BY <2>1 DEF ShapeInv, Fields, SnapFields
    <2>4. Alone(r) /\ run'[r].plan = run[r].plan
      BY <1>2, <2>1 DEF Alone, ShapeInv, Fields, SnapFields
    <2>5. Genuine(run'[r].snap)
      BY <2>2, <2>3 DEF Genuine, PlanInv
    <2> QED BY <1>2, <2>4, <2>5 DEF Reads
  <1>4. CASE held[w] # NoTree
    <2>1. run' = [run EXCEPT ![r].snap.workspaces[i].panes = PanesOf[w], ![r].i = i + 1]
      BY <1>4 DEF PaneList
    <2> DEFINE known == [spaces[i] EXCEPT !.panes = PanesOf[w]]
    <2>2. known \in SpaceSet /\ known.id = w /\ known.path = spaces[i].path /\ known.panes = PanesOf[w]
      <3>1. spaces[i] \in SpaceSet /\ PanesOf[w] \in {PanesOf[v] : v \in WS}
        BY <1>1
      <3> HIDE DEF i
      <3> HIDE DEF spaces
      <3> QED BY <3>1 DEF SpaceSet
    <2>3. /\ run'[r].snap.worktrees = run[r].snap.worktrees
          /\ run'[r].snap.workspaces = [spaces EXCEPT ![i] = known]
      BY <2>1 DEF ShapeInv, Fields, SnapFields
    <2>4. Alone(r) /\ run'[r].plan = run[r].plan
      BY <1>2, <2>1 DEF Alone, ShapeInv, Fields, SnapFields
    <2> HIDE DEF known
    <2>5. [spaces EXCEPT ![i] = known] \in Seq(SpaceSet)
      BY <1>1, <2>2
    <2>6. ASSUME NEW k \in DOMAIN spaces, NEW s, s = [spaces EXCEPT ![i] = known][k]
          PROVE  Stood(s.id, s.path) /\ s.panes \in {<<>>, PanesOf[s.id]}
      BY <1>1, <2>2, <2>6 DEF PlanInv, Genuine
    <2>7. Genuine(run'[r].snap)
      BY <2>3, <2>5, <2>6 DEF Genuine, PlanInv
    <2> QED BY <1>2, <2>4, <2>7 DEF Reads
  <1> QED BY <1>3, <1>4

LEMMA CollectStep ==
  ASSUME WorldInv, ShapeInv, NEW r \in Runner, PlanInv(r), Collect(r), ~PlanIt(r)
  PROVE  Reads(r)
  <1>1. ASSUME Alone(r), run'[r].plan = run[r].plan, pc'[r] \in AtLarge,
               run'[r].snap.worktrees = run[r].snap.worktrees,
               run'[r].snap.workspaces = run[r].snap.workspaces
        PROVE  Reads(r)
    BY <1>1 DEF Reads, Genuine, PlanInv
  <1>2. CASE Begin(r)
    BY <1>1, <1>2 DEF Begin, Goto, Reading, Watch, Alone, ShapeInv, AtLarge
  <1>3. CASE AgentList(r)
    <2>1. /\ Alone(r) /\ run'[r].plan = run[r].plan
          /\ run'[r].snap.worktrees = run[r].snap.worktrees
          /\ run'[r].snap.workspaces = run[r].snap.workspaces
      BY <1>3 DEF AgentList, Goto, Reading, Watch, Alone, ShapeInv, Fields, SnapFields
    <2> QED BY <1>1, <1>3, <2>1 DEF AgentList, Goto, ShapeInv, AtLarge
  <1>4. CASE ResolvedAll(r) \/ ListedPanes(r)
    <2>1. run' = [run EXCEPT ![r].i = 1]
      BY <1>4 DEF ResolvedAll, ListedPanes
    <2>2. /\ Alone(r) /\ run'[r].plan = run[r].plan
          /\ run'[r].snap.worktrees = run[r].snap.worktrees
          /\ run'[r].snap.workspaces = run[r].snap.workspaces
      BY <1>4, <2>1
         DEF ResolvedAll, ListedPanes, Goto, Reading, Watch, Alone, ShapeInv, Fields, SnapFields
    <2> QED BY <1>1, <1>4, <2>2 DEF ResolvedAll, ListedPanes, Goto, ShapeInv, AtLarge
  <1>5. CASE ReadGhostReport(r)
    <2>1. PICK p \in GhostPanes(r) \ DOMAIN run[r].snap.reports : \E answer :
            run' = [run EXCEPT ![r].snap.reports =
                     [q \in DOMAIN @ \cup {p} |-> IF q = p THEN answer ELSE @[q]]]
      BY <1>5 DEF ReadGhostReport
    <2>4. PICK answer :
            run' = [run EXCEPT ![r].snap.reports =
                     [q \in DOMAIN @ \cup {p} |-> IF q = p THEN answer ELSE @[q]]]
      BY <2>1
    <2> DEFINE reports == [q \in DOMAIN run[r].snap.reports \cup {p} |->
                             IF q = p THEN answer ELSE run[r].snap.reports[q]]
    <2>2. run' = [run EXCEPT ![r].snap.reports = reports]
      BY <2>4
    <2> HIDE DEF reports
    <2>3. /\ Alone(r) /\ run'[r].plan = run[r].plan
          /\ run'[r].snap.worktrees = run[r].snap.worktrees
          /\ run'[r].snap.workspaces = run[r].snap.workspaces
      BY <1>5, <2>2 DEF ReadGhostReport, Reading, Watch, Alone, ShapeInv, Fields, SnapFields
    <2> QED BY <1>1, <1>5, <2>3 DEF ReadGhostReport, ShapeInv, AtLarge
  <1>6. ASSUME CollectFails(r) PROVE Reads(r)
    <2>1. Alone(r) /\ run'[r].plan = run[r].plan
      BY <1>6, NothingGenuine
         DEF CollectFails, Goto, Reading, Watch, Alone, ShapeInv, Fields
    <2>2. Genuine(run'[r].snap)
      BY <1>6, NothingGenuine DEF CollectFails, ShapeInv, Fields
    <2>3. pc'[r] \in AtLarge
      BY <1>6 DEF CollectFails, Goto, ShapeInv, AtLarge
    <2> QED BY <2>1, <2>2, <2>3 DEF Reads
  <1> QED BY <1>2, <1>3, <1>4, <1>5, <1>6, ListsWorktrees, ListsWorkspaces, ReadsFacts, ListsPanes
      DEF Collect

-----------------------------------------------------------------------------
(* The plan *)

LEMMA PickedSound ==
  ASSUME NEW n \in Nat, NEW seq, DOMAIN seq = 1..n, seq = [i \in DOMAIN seq |-> seq[i]],
         NEW where \in SUBSET DOMAIN seq, \A i \in where : Sound(seq[i])
  PROVE  SoundPlan(Picked(seq, where))
  <1>1. seq \in Seq(Range(seq))
    <2>1. seq \in [1..n -> Range(seq)]
      BY DEF Range
    <2> QED BY <2>1
  <1>2. /\ Picked(seq, where) \in Seq(Range(seq))
        /\ \A k \in DOMAIN Picked(seq, where) : \E i \in where : Picked(seq, where)[k] = seq[i]
    BY <1>1, PickedFrom
  <1>3. IsSeq(Picked(seq, where))
    BY <1>2, SeqOfRange DEF IsSeq
  <1> QED BY <1>2, <1>3 DEF SoundPlan

LEMMA ConcatSound ==
  ASSUME NEW s, NEW t, SoundPlan(s), SoundPlan(t) PROVE SoundPlan(s \o t)
  <1>1. s \in Seq(Range(s) \cup Range(t)) /\ t \in Seq(Range(s) \cup Range(t))
    BY SeqMonotonic DEF SoundPlan, IsSeq
  <1>2. s \o t \in Seq(Range(s) \cup Range(t))
    BY <1>1
  <1>3. \A i \in DOMAIN (s \o t) : Sound((s \o t)[i])
    BY <1>1 DEF SoundPlan
  <1> QED BY <1>2, <1>3, SeqOfRange DEF SoundPlan, IsSeq

LEMMA AdoptSound ==
  ASSUME NEW state, Genuine(state) PROVE SoundPlan(Adopt(state))
  <1> DEFINE trees == state.worktrees
             all == [i \in DOMAIN trees |-> ActionOn("adopt", trees[i].path, trees[i].branch, NoWS)]
             where == {i \in DOMAIN trees :
                         ~state.herdrAbsent /\ ~trees[i].bare /\ trees[i].workspace = NoWS}
  <1>1. Adopt(state) = Picked(all, where)
    BY DEF Adopt, Each
  <1>2. trees \in Seq(WorktreeSet)
    BY DEF Genuine
  <1>3. \A i \in DOMAIN trees : Sound(all[i])
    <2> SUFFICES ASSUME NEW i \in DOMAIN trees PROVE Sound(all[i])
      OBVIOUS
    <2>1. trees[i].path \in Tree
      <3> HIDE DEF trees
      <3>1. trees[i] \in WorktreeSet
        BY <1>2
      <3> QED BY <3>1 DEF WorktreeSet
    <2>2. all[i].kind = "adopt" /\ all[i].path = trees[i].path
      BY DEF ActionOn
    <2> HIDE DEF all
    <2> QED BY <2>1, <2>2 DEF Sound
  <1>4. DOMAIN all = 1..Len(trees) /\ Len(trees) \in Nat
    BY <1>2
  <1> QED BY <1>1, <1>3, <1>4, PickedSound

LEMMA StaffSound ==
  ASSUME NEW state, Genuine(state) PROVE SoundPlan(Staff(state))
  <1> DEFINE spaces == state.workspaces
             all == [i \in DOMAIN spaces |->
                       [ActionOn("staff", spaces[i].path, WorktreeAt(state, spaces[i].path).branch,
                                 spaces[i].id) EXCEPT
                          !.pane = spaces[i].panes[1],
                          !.resume = WorktreeAt(state, spaces[i].path).transcript]]
             where == {i \in DOMAIN spaces :
                         /\ spaces[i].linked /\ spaces[i].panes # <<>>
                         /\ ~Occupied(state, spaces[i]) /\ Live(state, spaces[i].path)}
  <1>1. Staff(state) = Picked(all, where)
    BY DEF Staff, Each
  <1>2. spaces \in Seq(SpaceSet)
    BY DEF Genuine
  <1>3. \A i \in where : Sound(all[i])
    <2> SUFFICES ASSUME NEW i \in DOMAIN spaces, spaces[i].panes # <<>> PROVE Sound(all[i])
      OBVIOUS
    <2>1. spaces[i] \in SpaceSet /\ spaces[i].panes \in {<<>>, PanesOf[spaces[i].id]}
      <3>1. \A k \in DOMAIN spaces : spaces[k].panes \in {<<>>, PanesOf[spaces[k].id]}
        BY DEF Genuine
      <3> HIDE DEF spaces
      <3> QED BY <1>2, <3>1
    <2>2. /\ all[i].kind = "staff" /\ all[i].path = spaces[i].path
          /\ all[i].workspace = spaces[i].id /\ all[i].pane = spaces[i].panes[1]
      BY DEF ActionOn
    <2> HIDE DEF all
    <2> HIDE DEF spaces
    <2>3. spaces[i].path \in Tree /\ spaces[i].id \in WS
      BY <2>1 DEF SpaceSet
    <2>4. PanesOf[spaces[i].id] \in Seq(Range(PanesOf[spaces[i].id]))
      BY <2>3, WorldAssumption
    <2>5. spaces[i].panes = PanesOf[spaces[i].id] /\ PanesOf[spaces[i].id] # <<>>
      BY <2>1
    <2>6. PanesOf[spaces[i].id][1] \in Range(PanesOf[spaces[i].id])
      BY <2>4, <2>5
    <2> QED BY <2>2, <2>3, <2>5, <2>6 DEF Sound
  <1>4. DOMAIN all = 1..Len(spaces) /\ Len(spaces) \in Nat
    BY <1>2
  <1> QED BY <1>1, <1>3, <1>4, PickedSound

LEMMA PruneSound ==
  ASSUME NEW state, Genuine(state) PROVE SoundPlan(Prune(state))
  <1> DEFINE trees == state.worktrees
             action(kind, w) == ActionOn(kind, w.path, w.branch, w.workspace)
             verdict(w) ==
               IF Spared(state, w) THEN action("keep", w)
               ELSE [action("prune", w) EXCEPT
                       !.releases = Occupied(state, WorkspaceAt(state, w.path))]
             all == [i \in DOMAIN trees |-> verdict(trees[i])]
             where == {i \in DOMAIN trees : trees[i].linked}
  <1>1. Prune(state) = Picked(all, where)
    BY DEF Prune, Each
  <1>2. trees \in Seq(WorktreeSet)
    BY DEF Genuine
  <1>3. \A i \in where : Sound(all[i])
    <2> SUFFICES ASSUME NEW i \in DOMAIN trees PROVE Sound(all[i])
      OBVIOUS
    <2>1. trees[i].path \in Tree /\ trees[i].workspace \in WS \cup {NoWS}
      <3> HIDE DEF trees
      <3>1. trees[i] \in WorktreeSet
        BY <1>2
      <3> QED BY <3>1 DEF WorktreeSet
    <2>2. /\ all[i].kind \in {"keep", "prune"}
          /\ all[i].path = trees[i].path /\ all[i].workspace = trees[i].workspace
      BY DEF ActionOn
    <2> HIDE DEF all
    <2> QED BY <2>1, <2>2 DEF Sound
  <1>4. DOMAIN all = 1..Len(trees) /\ Len(trees) \in Nat
    BY <1>2
  <1> QED BY <1>1, <1>3, <1>4, PickedSound

LEMMA GhostsSound ==
  ASSUME NEW state, Genuine(state) PROVE SoundPlan(Ghosts(state))
  <1> DEFINE spaces == state.workspaces
             worker(ws) == CHOOSE p \in Reporting(state, ws) : TRUE
             answer(ws) ==
               IF Closable(state, ws) # "close"
               THEN ActionOn("ghost", ws.path, NoBranch, ws.id)
               ELSE [ActionOn("close-ghost", ws.path, state.reports[worker(ws)].prHead, ws.id)
                       EXCEPT !.pane = worker(ws), !.pr = state.reports[worker(ws)].pr,
                              !.releases = Occupied(state, ws)]
             all == [i \in DOMAIN spaces |-> answer(spaces[i])]
             where == {i \in DOMAIN spaces : ~Live(state, spaces[i].path)}
  <1>1. Ghosts(state) = Picked(all, where)
    BY DEF Ghosts, Each
  <1>2. spaces \in Seq(SpaceSet)
    BY DEF Genuine
  <1>3. \A i \in where : Sound(all[i])
    <2> SUFFICES ASSUME NEW i \in DOMAIN spaces PROVE Sound(all[i])
      OBVIOUS
    <2>1. spaces[i].path \in Tree /\ Stood(spaces[i].id, spaces[i].path)
      <3>1. \A k \in DOMAIN spaces : Stood(spaces[k].id, spaces[k].path)
        BY DEF Genuine
      <3> HIDE DEF spaces
      <3>2. spaces[i] \in SpaceSet
        BY <1>2
      <3> QED BY <3>1, <3>2 DEF SpaceSet
    <2>2. /\ all[i].kind \in {"ghost", "close-ghost"}
          /\ all[i].path = spaces[i].path /\ all[i].workspace = spaces[i].id
      BY DEF ActionOn
    <2> HIDE DEF all
    <2> QED BY <2>1, <2>2 DEF Sound
  <1>4. DOMAIN all = 1..Len(spaces) /\ Len(spaces) \in Nat
    BY <1>2
  <1>5. where \in SUBSET DOMAIN all /\ all = [i \in DOMAIN all |-> all[i]]
    <2> HIDE DEF answer
    <2>1. DOMAIN all = DOMAIN spaces /\ all = [i \in DOMAIN all |-> all[i]]
      OBVIOUS
    <2>2. where \in SUBSET DOMAIN spaces
      OBVIOUS
    <2> QED BY <2>1, <2>2
  <1> HIDE DEF where
  <1> HIDE DEF all
  <1> QED BY <1>1, <1>3, <1>4, <1>5, PickedSound

\* Every action of a plan made from a snapshot that says what was so names a pane of
\* its workspace, or a workspace of its checkout.
LEMMA PlanSound ==
  ASSUME NEW state, Genuine(state), NEW kinds
  PROVE  SoundPlan(Only(ReconcileState(state), kinds))
  <1> DEFINE plan == ReconcileState(state)
             where == {i \in DOMAIN plan : plan[i].kind \in kinds}
  <1>1. SoundPlan(plan)
    BY AdoptSound, StaffSound, PruneSound, GhostsSound, ConcatSound DEF ReconcileState
  <1>2. Only(plan, kinds) = Picked(plan, where)
    BY DEF Only
  <1> HIDE DEF plan
  <1>3. plan = [i \in DOMAIN plan |-> plan[i]] /\ DOMAIN plan = 1..Len(plan) /\ Len(plan) \in Nat
    BY <1>1 DEF SoundPlan, IsSeq
  <1>4. where \in SUBSET DOMAIN plan /\ \A i \in where : Sound(plan[i])
    BY <1>1 DEF SoundPlan
  <1> HIDE DEF where
  <1>5. SoundPlan(Picked(plan, where))
    BY <1>3, <1>4, PickedSound
  <1> QED BY <1>2, <1>5 DEF plan

LEMMA PlanMade ==
  ASSUME WorldInv, ShapeInv, NEW r \in Runner, PlanInv(r), PlanIt(r)
  PROVE  /\ Alone(r) /\ pc'[r] \in AtLarge
         /\ Genuine(run'[r].snap) /\ SoundPlan(run'[r].plan)
  <1> DEFINE state == [run[r].snap EXCEPT !.release = ReleaseAgents /\ Kind[r] = "apply"]
             plan == Only(ReconcileState(state), Kinds(r))
  <1>1. run' = [run EXCEPT ![r].plan = plan, ![r].snap = EmptyState, ![r].tries = 0]
    BY DEF PlanIt
  <1>2. state.worktrees = run[r].snap.worktrees /\ state.workspaces = run[r].snap.workspaces
    BY DEF ShapeInv, SnapFields
  <1> HIDE DEF state
  <1>3. Genuine(state)
    BY <1>2 DEF PlanInv, Genuine
  <1>4. SoundPlan(plan)
    BY <1>3, PlanSound
  <1> HIDE DEF plan
  <1>5. run'[r].plan = plan /\ run'[r].snap = EmptyState
    BY <1>1 DEF ShapeInv, Fields
  <1>6. Alone(r)
    BY <1>1, NothingGenuine DEF PlanIt, Goto, Reading, Watch, Alone, ShapeInv, Fields
  <1>7. pc'[r] \in AtLarge
    BY DEF PlanIt, Goto, ShapeInv, AtLarge
  <1> QED BY <1>4, <1>5, <1>6, <1>7, NothingGenuine

-----------------------------------------------------------------------------
(* Executor.Run *)

\* A step after which the runner has no action in hand.
LEMMA LetsGo ==
  ASSUME HerdrOK, HeldStep, Watch, NEW r \in Runner, RunnerInv(r), pc'[r] \in AtLarge,
         Genuine(run'[r].snap),
         \/ run'[r].plan = run[r].plan
         \/ run[r].plan # <<>> /\ run'[r].plan = Tail(run[r].plan)
  PROVE  RunnerInv(r)'
  BY PlanStays, NothingInHand DEF RunnerInv, GuardInv

\* A step from one guard of an action to the next.
LEMMA GoesOn ==
  ASSUME HerdrOK, HeldStep, Watch, NEW r \in Runner, RunnerInv(r),
         run'[r].plan = run[r].plan, run'[r].snap = run[r].snap,
         \/ pc[r] \in StaffAt /\ pc'[r] \in StaffAt
         \/ pc[r] \in PruneAt /\ pc'[r] \in PruneAt
         \/ pc[r] \in CloseAt /\ pc'[r] \in CloseAt,
         LookedInto(r)', PruneInv(r)', CloseInv(r)'
  PROVE  RunnerInv(r)'
  <1>1. PlanInv(r)'
    BY PlanStays DEF RunnerInv, PlanInv
  <1>2. DoingInv(r)'
    BY DEF RunnerInv, DoingInv, Doing, Now, StaffAt, PruneAt, CloseAt
  <1>3. since'[r] \subseteq Facts'
    BY SinceIs DEF RunnerInv, GuardInv
  <1> QED BY <1>1, <1>2, <1>3 DEF RunnerInv, GuardInv

\* The action is answered, whatever with.
Answers(r) ==
  /\ Alone(r) /\ pc'[r] = "next"
  /\ run'[r].plan = Tail(run[r].plan) /\ run'[r].snap = run[r].snap

LEMMA AnsweredIs ==
  ASSUME ShapeInv, UNCHANGED scene, NEW r \in Runner, NEW isFailure, Answered(r, isFailure)
  PROVE  Answers(r)
  BY DEF Answered, Goto, Answers, Alone, ShapeInv, Fields, SnapFields

LEMMA UnaskedIs ==
  ASSUME ShapeInv, UNCHANGED scene, NEW r \in Runner, Unasked(r) PROVE Answers(r)
  BY DEF Unasked, Goto, Answers, Alone, ShapeInv, Fields, SnapFields

\* On to another guard, with all that is remembered.
LEMMA GotoIs ==
  ASSUME ShapeInv, UNCHANGED <<scene, run>>, NEW r \in Runner, NEW label, Goto(r, label)
  PROVE  Alone(r) /\ pc'[r] = label /\ run'[r] = run[r]
  BY DEF Goto, Alone, ShapeInv

LEMMA AnswersStep ==
  ASSUME HerdrOK, HeldStep, Watch, NEW r \in Runner, RunnerInv(r), Answers(r),
         pc[r] \in {"open"} \cup StaffAt \cup PruneAt \cup CloseAt
  PROVE  Alone(r) /\ RunnerInv(r)'
  <1>1. run[r].plan # <<>>
    BY DEF RunnerInv, DoingInv, Doing
  <1>2. Genuine(run'[r].snap) /\ pc'[r] \in AtLarge
    BY DEF Answers, RunnerInv, PlanInv, AtLarge
  <1> QED BY <1>1, <1>2, LetsGo DEF Answers

LEMMA TakesAction ==
  ASSUME HerdrOK, HeldStep, ShapeInv, NEW r \in Runner, RunnerInv(r), TakeAction(r)
  PROVE  Alone(r) /\ RunnerInv(r)'
  <1>1. /\ pc[r] = "next" /\ run[r].plan # <<>> /\ Watch /\ UNCHANGED scene
        /\ Genuine(run[r].snap)
    BY DEF TakeAction, Reading, Watch, RunnerInv, PlanInv
  <1>2. CASE Now(r).kind \in {"keep", "ghost"}
    <2>1. run' = [run EXCEPT ![r].plan = Tail(@)] /\ UNCHANGED pc
      BY <1>2 DEF TakeAction
    <2>2. Alone(r) /\ run'[r].plan = Tail(run[r].plan) /\ run'[r].snap = run[r].snap
      BY <1>1, <2>1 DEF Alone, ShapeInv, Fields, SnapFields
    <2>3. pc'[r] \in AtLarge
      BY <1>1, <2>1 DEF AtLarge
    <2> QED BY <1>1, <2>2, <2>3, LetsGo
  <1>3. CASE Now(r).kind \notin {"keep", "ghost"}
    <2>1. Alone(r) /\ pc'[r] = FirstGuard(Now(r).kind) /\ run'[r] = run[r]
      BY <1>1, <1>3, GotoIs DEF TakeAction
    <2>2. Now(r).kind \in {"adopt", "staff", "prune", "close-ghost"}
      BY <1>1, <1>3, NowIs DEF Sound, RunnerInv
    <2>3. \/ Now(r).kind = "adopt" /\ pc'[r] = "open"
          \/ Now(r).kind = "staff" /\ pc'[r] = "staffAgents"
          \/ Now(r).kind = "prune" /\ pc'[r] = "pruneDirty"
          \/ Now(r).kind = "close-ghost" /\ pc'[r] = "closeStat"
      BY <2>1, <2>2 DEF FirstGuard
    <2>4. DoingInv(r)'
      BY <1>1, <2>1, <2>3 DEF DoingInv, Doing, Now, StaffAt, PruneAt, CloseAt
    <2>5. LookedInto(r)' /\ PruneInv(r)' /\ CloseInv(r)'
      BY <2>3 DEF LookedInto, PruneInv, CloseInv, PruneAt, CloseAt
    <2>6. since'[r] \subseteq Facts'
      BY <1>1, SinceIs DEF RunnerInv, GuardInv
    <2>7. PlanInv(r)'
      BY <1>1, <2>1, PlanStays DEF RunnerInv
    <2> QED BY <2>1, <2>4, <2>5, <2>6, <2>7 DEF RunnerInv, GuardInv
  <1> QED BY <1>2, <1>3

LEMMA PassesOver ==
  ASSUME HerdrOK, HeldStep, ShapeInv, NEW r \in Runner, RunnerInv(r), PassOver(r)
  PROVE  Alone(r) /\ RunnerInv(r)'
  <1>1. Watch /\ UNCHANGED scene /\ Genuine(run[r].snap)
    BY DEF PassOver, Reading, Watch, RunnerInv, PlanInv
  <1>2. CASE UNCHANGED run /\ Goto(r, "done")
    BY <1>1, <1>2, GotoIs, LetsGo DEF AtLarge
  <1>3. CASE ~(UNCHANGED run /\ Goto(r, "done"))
    <2>1. /\ Goto(r, "trees")
          /\ \/ run' = [run EXCEPT ![r] = [Again(r) EXCEPT !.phase = @ + 1]]
             \/ run' = [run EXCEPT ![r] = [Again(r) EXCEPT !.trail = TRUE]]
      BY <1>3 DEF PassOver
    <2>2. run'[r].plan = run[r].plan /\ run'[r].snap = EmptyState
      BY <2>1 DEF Again, ShapeInv, Fields
    <2>3. pc'[r] \in AtLarge /\ DOMAIN pc' = Runner /\ \A q \in Runner \ {r} : pc'[q] = pc[q]
      BY <2>1 DEF ShapeInv, Goto, AtLarge
    <2>4. Alone(r)
      <3>1. /\ DOMAIN run' = Runner /\ DOMAIN run'[r] = Fields
            /\ \A q \in Runner \ {r} : run'[q] = run[q]
        BY <2>1 DEF Again, ShapeInv, Fields
      <3> QED BY <1>1, <2>2, <2>3, <3>1, NothingGenuine DEF Alone, ShapeInv
    <2> QED BY <1>1, <2>2, <2>3, <2>4, LetsGo, NothingGenuine
  <1> QED BY <1>2, <1>3

LEMMA OpensOne ==
  ASSUME HerdrOK, HeldStep, ShapeInv, NEW r \in Runner, RunnerInv(r), WorktreeOpen(r)
  PROVE  Alone(r) /\ RunnerInv(r)'
  <1>1. Watch /\ UNCHANGED scene /\ pc[r] = "open"
    BY DEF WorktreeOpen, Watch
  <1>2. CASE Answered(r, TRUE)
    BY <1>1, <1>2, AnsweredIs, AnswersStep
  <1>3. CASE ~Answered(r, TRUE)
    <2>1. run' = [run EXCEPT ![r].plan = Tail(@), ![r].opened = TRUE] /\ Goto(r, "next")
      BY <1>3 DEF WorktreeOpen
    <2>2. Answers(r)
      BY <1>1, <2>1 DEF Answers, Goto, Alone, ShapeInv, Fields, SnapFields
    <2> QED BY <1>1, <2>2, AnswersStep
  <1> QED BY <1>2, <1>3

\* Past the first guard a runner gains no fact.
LEMMA LosesOnly ==
  ASSUME Watch, NEW r \in Runner, RunnerInv(r), pc'[r] \notin GuardsBegin
  PROVE  since'[r] \subseteq since[r] /\ since[r] \subseteq Facts
  BY SinceIs DEF RunnerInv, GuardInv

\* The agents herdr lists are all those there are.
LEMMA ReadsAgents ==
  ASSUME HerdrOK, HeldStep, ShapeInv, NEW r \in Runner, RunnerInv(r),
         \/ ReadAgents(r, "staffAgents", "staffPanes")
         \/ ReadAgents(r, "pruneAgents", "prunePanes")
         \/ ReadAgents(r, "closeAgents", "closePanes")
  PROVE  Alone(r) /\ RunnerInv(r)'
  <1>1. /\ Watch /\ UNCHANGED scene
        /\ pc[r] \in StaffAt \cup PruneAt \cup CloseAt
    BY DEF ReadAgents, Reading, Watch, StaffAt, PruneAt, CloseAt
  <1>2. CASE Unasked(r)
    BY <1>1, <1>2, UnaskedIs, AnswersStep
  <1>3. CASE ~Unasked(r)
    <2>1. /\ run' = [run EXCEPT ![r].seen = ListedAgents]
          /\ \/ pc[r] = "staffAgents" /\ Goto(r, "staffPanes")
             \/ pc[r] = "pruneAgents" /\ Goto(r, "prunePanes")
             \/ pc[r] = "closeAgents" /\ Goto(r, "closePanes")
      BY <1>3 DEF ReadAgents
    <2>2. /\ Alone(r) /\ run'[r].plan = run[r].plan /\ run'[r].snap = run[r].snap
          /\ run'[r].target = run[r].target /\ run'[r].seen = ListedAgents
      BY <1>1, <2>1 DEF Alone, ShapeInv, Fields, SnapFields, Goto
    <2>3. \/ pc[r] = "staffAgents" /\ pc'[r] = "staffPanes"
          \/ pc[r] = "pruneAgents" /\ pc'[r] = "prunePanes"
          \/ pc[r] = "closeAgents" /\ pc'[r] = "closePanes"
      BY <2>1 DEF Goto, ShapeInv
    <2>4. since'[r] \subseteq since[r] /\ since[r] \subseteq Facts
      BY <1>1, <2>3, LosesOnly DEF GuardsBegin
    <2>5. Sees(r)'
      <3> SUFFICES ASSUME NEW p \in Pane
                   PROVE  /\ Gone(r, "agent", p)' \/ p \in DOMAIN run'[r].seen
                          /\ \/ Gone(r, "busy", p)'
                             \/ p \in DOMAIN run'[r].seen /\ run'[r].seen[p] = "working"
        BY DEF Sees
      <3>1. Hosted(p) => p \in DOMAIN ListedAgents /\ ListedAgents[p] = agent[p]
        BY DEF ListedAgents
      <3>2. <<"agent", p>> \in Facts => Hosted(p)
        BY FactsAre DEF FactsMean, Hosted
      <3>3. (agent[p] = "working" /\ Hosted(p)) \/ <<"busy", p>> \notin Facts
        BY FactsAre DEF FactsMean, Hosted
      <3> QED BY <2>2, <2>4, <3>1, <3>2, <3>3 DEF Gone
    <2>6. LookedInto(r)'
      BY <2>3, <2>5 DEF LookedInto
    <2>7. Now(r)' = Now(r)
      BY <2>2 DEF Now
    <2>8. PruneInv(r)' /\ CloseInv(r)'
      BY <2>2, <2>3, <2>4, <2>7 DEF RunnerInv, GuardInv, PruneInv, CloseInv, Gone, PruneAt, CloseAt
    <2>9. \/ pc[r] \in StaffAt /\ pc'[r] \in StaffAt
          \/ pc[r] \in PruneAt /\ pc'[r] \in PruneAt
          \/ pc[r] \in CloseAt /\ pc'[r] \in CloseAt
      BY <2>3 DEF StaffAt, PruneAt, CloseAt
    <2> QED BY <1>1, <2>2, <2>6, <2>8, <2>9, GoesOn
  <1> QED BY <1>2, <1>3

-----------------------------------------------------------------------------
(* staff *)

LEMMA LooksForWorker ==
  ASSUME HerdrOK, HeldStep, ShapeInv, NEW r \in Runner, RunnerInv(r), StaffPanes(r)
  PROVE  Alone(r) /\ RunnerInv(r)'
  <1> DEFINE w == Now(r).workspace
  <1>1. Watch /\ UNCHANGED scene /\ pc[r] = "staffPanes" /\ pc[r] \in StaffAt
    BY DEF StaffPanes, Reading, Watch, StaffAt
  <1>2. CASE Unasked(r) \/ Answered(r, FALSE)
    BY <1>1, <1>2, UnaskedIs, AnsweredIs, AnswersStep
  <1>3. CASE ~(Unasked(r) \/ Answered(r, FALSE))
    <2>1. held[w] # NoTree /\ SeenIn(r, w) = {} /\ Goto(r, "staffStart") /\ UNCHANGED run
      BY <1>3 DEF StaffPanes
    <2>2. Alone(r) /\ pc'[r] = "staffStart" /\ run'[r] = run[r]
      BY <1>1, <2>1, GotoIs
    <2>3. since'[r] \subseteq since[r]
      BY <1>1, <2>2, LosesOnly DEF GuardsBegin
    <2>4. w \in WS
      BY <1>1, NowIs DEF RunnerInv, DoingInv, Doing, Sound
    <2>5. \A p \in Range(PanesOf[w]) : Gone(r, "agent", p)
      BY <1>1, <2>1, <2>4 DEF RunnerInv, GuardInv, LookedInto, Sees, SeenIn, Pane
    <2>6. Now(r)' = Now(r)
      BY <2>2 DEF Now
    <2>7. LookedInto(r)'
      BY <2>2, <2>3, <2>5, <2>6 DEF LookedInto, Gone
    <2>8. PruneInv(r)' /\ CloseInv(r)'
      BY <2>2 DEF PruneInv, CloseInv, PruneAt, CloseAt
    <2> QED BY <1>1, <2>2, <2>7, <2>8, GoesOn DEF StaffAt
  <1> QED BY <1>2, <1>3

LEMMA StaffsIt ==
  ASSUME HerdrOK, HeldStep, ShapeInv, NEW r \in Runner, RunnerInv(r),
         AgentStart(r) \/ AgentPaneBusy(r) \/ AgentStartFails(r) \/ AgentStarted(r)
  PROVE  Alone(r) /\ RunnerInv(r)'
  <1>1. Watch /\ UNCHANGED scene /\ pc[r] \in StaffAt
    BY DEF AgentStart, AgentPaneBusy, AgentStartFails, AgentStarted, Reading, Watch, StaffAt
  <1>2. CASE \E isFailure : Answered(r, isFailure)
    BY <1>1, <1>2, AnsweredIs, AnswersStep
  <1>3. ASSUME run'[r].plan = run[r].plan, run'[r].snap = run[r].snap, pc'[r] \in {"staffAgents", "staffWait"}
        PROVE  RunnerInv(r)'
    <2>1. LookedInto(r)' /\ PruneInv(r)' /\ CloseInv(r)'
      BY <1>3 DEF LookedInto, PruneInv, CloseInv, PruneAt, CloseAt
    <2> QED BY <1>1, <1>3, <2>1, GoesOn DEF StaffAt
  <1>4. CASE AgentStart(r)
    <2>1. Alone(r) /\ pc'[r] = "staffWait" /\ run'[r] = run[r]
      BY <1>1, <1>4, GotoIs DEF AgentStart
    <2> QED BY <1>3, <2>1
  <1>5. CASE AgentPaneBusy(r) /\ ~\E isFailure : Answered(r, isFailure)
    <2>1. run' = [run EXCEPT ![r].tries = @ + 1, ![r].seen = <<>>] /\ Goto(r, "staffAgents")
      BY <1>5 DEF AgentPaneBusy
    <2>2. /\ Alone(r) /\ run'[r].plan = run[r].plan /\ run'[r].snap = run[r].snap
          /\ pc'[r] = "staffAgents"
      BY <1>1, <2>1 DEF Alone, ShapeInv, Fields, SnapFields, Goto
    <2> QED BY <1>3, <2>2
  <1>6. CASE AgentStarted(r) /\ ~\E isFailure : Answered(r, isFailure)
    <2>1. /\ run' = [run EXCEPT ![r].plan = Tail(@), ![r].seen = <<>>, ![r].target = NoWS,
                          ![r].failed = TRUE, ![r].gaveUp = @ \cup {Now(r).pane}]
          /\ Goto(r, "next")
      BY <1>6 DEF AgentStarted
    <2>2. Answers(r)
      BY <1>1, <2>1 DEF Answers, Goto, Alone, ShapeInv, Fields, SnapFields
    <2> QED BY <1>1, <2>2, AnswersStep
  <1> QED BY <1>2, <1>4, <1>5, <1>6 DEF AgentStartFails

-----------------------------------------------------------------------------
(* closeGhost *)

LEMMA ChecksGhost ==
  ASSUME WorldInv, HeldStep, ShapeInv, NEW r \in Runner, RunnerInv(r), CloseStat(r) \/ CloseReport(r)
  PROVE  Alone(r) /\ RunnerInv(r)'
  <1> USE TypeParts DEF WorldInv
  <1>1. Watch /\ UNCHANGED scene /\ pc[r] \in CloseAt
    BY DEF CloseStat, CloseReport, Reading, Watch, CloseAt
  <1>2. CASE Answered(r, FALSE)
    BY <1>1, <1>2, AnsweredIs, AnswersStep
  <1>3. ASSUME Alone(r), run'[r] = run[r], pc'[r] \in {"closeReport", "closeAgents"}, CloseInv(r)'
        PROVE  RunnerInv(r)'
    <2>1. LookedInto(r)' /\ PruneInv(r)'
      BY <1>3 DEF LookedInto, PruneInv, PruneAt
    <2> QED BY <1>1, <1>3, <2>1, GoesOn DEF CloseAt
  <1>4. CASE CloseStat(r) /\ ~Answered(r, FALSE)
    <2>1. Now(r).path \notin onDisk /\ Goto(r, "closeReport") /\ UNCHANGED run
      BY <1>4 DEF CloseStat
    <2>2. Alone(r) /\ pc'[r] = "closeReport" /\ run'[r] = run[r]
      BY <1>1, <2>1, GotoIs
    <2>3. since'[r] \subseteq Facts
      BY <1>1, <2>2, LosesOnly DEF GuardsBegin
    <2>4. Gone(r, "checkout", Now(r).path)' /\ Gone(r, "dirty", Now(r).path)'
      <3>1. Now(r).path \notin dirty
        BY <2>1 DEF GitOK
      <3>2. Now(r)'.path = Now(r).path
        BY <2>2 DEF Now
      <3> QED BY <2>1, <2>3, <3>1, <3>2, FactsAre DEF FactsMean, Gone
    <2>5. CloseInv(r)'
      BY <2>2, <2>4 DEF CloseInv
    <2> QED BY <1>3, <2>2, <2>5
  <1>5. CASE CloseReport(r) /\ ~Answered(r, FALSE)
    <2>1. /\ pc[r] = "closeReport" /\ Goto(r, "closeAgents") /\ UNCHANGED run
          /\ ReadReport(Now(r).pane).found /\ ReadReport(Now(r).pane).status = "done"
      BY <1>5 DEF CloseReport
    <2>2. Alone(r) /\ pc'[r] = "closeAgents" /\ run'[r] = run[r]
      BY <1>1, <2>1, GotoIs
    <2>3. since'[r] \subseteq since[r] /\ since[r] \subseteq Facts
      BY <1>1, <2>2, LosesOnly DEF GuardsBegin
    <2>4. report[Now(r).pane] = "done"
      BY <2>1 DEF ReadReport
    <2>5. Now(r)' = Now(r)
      BY <2>2 DEF Now
    <2>6. Gone(r, "unfinished", Now(r).pane)'
      BY <2>3, <2>4, <2>5, FactsAre DEF FactsMean, Gone
    <2>7. CloseInv(r)'
      BY <2>1, <2>2, <2>3, <2>5, <2>6 DEF RunnerInv, GuardInv, CloseInv, Gone, CloseAt
    <2> QED BY <1>3, <2>2, <2>7
  <1> QED BY <1>2, <1>4, <1>5

LEMMA LooksAtGhost ==
  ASSUME HerdrOK, HeldStep, ShapeInv, NEW r \in Runner, RunnerInv(r), ClosePanes(r)
  PROVE  Alone(r) /\ RunnerInv(r)'
  <1> DEFINE w == Now(r).workspace
  <1>1. Watch /\ UNCHANGED scene /\ pc[r] = "closePanes" /\ pc[r] \in CloseAt
    BY DEF ClosePanes, Reading, Watch, CloseAt
  <1>2. CASE Answered(r, FALSE)
    BY <1>1, <1>2, AnsweredIs, AnswersStep
  <1>3. CASE ~Answered(r, FALSE)
    <2>1. /\ Goto(r, "closeWorkspace") /\ UNCHANGED run
          /\ \A p \in Range(PanesOf[w]) \cap DOMAIN run[r].seen :
               Finished(run[r].seen[p]) /\ Now(r).releases
      BY <1>3 DEF ClosePanes
    <2>2. Alone(r) /\ pc'[r] = "closeWorkspace" /\ run'[r] = run[r]
      BY <1>1, <2>1, GotoIs
    <2>3. since'[r] \subseteq since[r]
      BY <1>1, <2>2, LosesOnly DEF GuardsBegin
    <2>4. w \in WS
      BY <1>1, NowIs DEF RunnerInv, DoingInv, Doing, Sound, Stood, HerdrOK
    <2>5. Vacant(r, w)
      <3> SUFFICES ASSUME NEW p \in Range(PanesOf[w])
                   PROVE  Gone(r, "busy", p) /\ (Now(r).releases \/ Gone(r, "agent", p))
        BY DEF Vacant
      <3>1. p \in Pane
        BY <2>4 DEF Pane
      <3> QED BY <1>1, <2>1, <3>1 DEF RunnerInv, GuardInv, LookedInto, Sees, Finished
    <2>6. Now(r)' = Now(r)
      BY <2>2 DEF Now
    <2>7. CloseInv(r)'
      BY <1>1, <2>2, <2>3, <2>5, <2>6 DEF RunnerInv, GuardInv, CloseInv, Gone, Vacant, CloseAt
    <2>8. LookedInto(r)' /\ PruneInv(r)'
      BY <2>2 DEF LookedInto, PruneInv, PruneAt
    <2> QED BY <1>1, <2>2, <2>7, <2>8, GoesOn DEF CloseAt
  <1> QED BY <1>2, <1>3

LEMMA ClosesIt ==
  ASSUME HerdrOK, HeldStep, ShapeInv, NEW r \in Runner, RunnerInv(r),
         CloseWorkspace(r) \/ CloseFails(r)
  PROVE  Alone(r) /\ RunnerInv(r)'
  <1>1. Watch /\ UNCHANGED scene /\ pc[r] \in CloseAt
    BY DEF CloseWorkspace, CloseFails, Reading, Watch, CloseAt
  <1>2. \E isFailure : Answered(r, isFailure)
    BY DEF CloseWorkspace, CloseFails
  <1> QED BY <1>1, <1>2, AnsweredIs, AnswersStep

-----------------------------------------------------------------------------
(* prune *)

\* herdr names a workspace on the checkout, if there is any.
LEMMA HolderIs ==
  ASSUME NEW t
  PROVE  LET where == {i \in DOMAIN Spaces : held[Spaces[i]] = t}
             found == Picked(Spaces, where)
         IN  /\ found = <<>> => \A w \in WS : held[w] # t
             /\ found # <<>> => Head(found) \in WS
  <1> DEFINE where == {i \in DOMAIN Spaces : held[Spaces[i]] = t}
             found == Picked(Spaces, where)
  <1>1. Spaces \in Seq(WS) /\ where \in SUBSET DOMAIN Spaces /\ IsFiniteSet(DOMAIN Spaces)
    <2>1. Spaces \in Seq(WS)
      BY WorldAssumption
    <2>2. DOMAIN Spaces = 1..Len(Spaces) /\ Len(Spaces) \in Nat
      BY <2>1
    <2>3. IsFiniteSet(1..Len(Spaces))
      BY <2>2, FS_Interval
    <2> QED BY <2>1, <2>2, <2>3
  <1>2. \A w \in WS : held[w] = t => where # {}
    BY DEF WS, Range
  <1> HIDE DEF where
  <1>3. IsFiniteSet(where) /\ Cardinality(where) \in Nat
    BY <1>1, FS_Subset, FS_CardinalityType
  <1>4. found \in Seq(WS) /\ DOMAIN found = 1..Cardinality(where)
    BY <1>1, PickedFrom DEF Picked
  <1>5. found = <<>> => where = {}
    <2> HIDE DEF found
    <2>1. found = <<>> => Cardinality(where) = 0
      BY <1>3, <1>4
    <2> QED BY <1>3, <2>1, FS_EmptySet
  <1>6. found # <<>> => Head(found) \in WS
    <2>1. \A f \in Seq(WS) : f # <<>> => Head(f) \in WS
      OBVIOUS
    <2> QED BY <1>4, <2>1
  <1> QED BY <1>2, <1>5, <1>6 DEF where

LEMMA PrunesOn ==
  ASSUME HerdrOK, HeldStep, Watch, ShapeInv, NEW r \in Runner, RunnerInv(r),
         Alone(r), run'[r].plan = run[r].plan, run'[r].snap = run[r].snap,
         pc[r] \in PruneAt, pc'[r] \in PruneAt \ {"prunePanes"}, PruneInv(r)'
  PROVE  RunnerInv(r)'
  <1>1. LookedInto(r)' /\ CloseInv(r)'
    BY DEF LookedInto, CloseInv, PruneAt, CloseAt
  <1> QED BY <1>1, GoesOn

LEMMA LooksForWork ==
  ASSUME HerdrOK, HeldStep, ShapeInv, NEW r \in Runner, RunnerInv(r), PruneDirty(r)
  PROVE  Alone(r) /\ RunnerInv(r)'
  <1>1. Watch /\ UNCHANGED scene /\ pc[r] = "pruneDirty" /\ pc[r] \in PruneAt
    BY DEF PruneDirty, Reading, Watch, PruneAt
  <1>2. CASE Answered(r, FALSE)
    BY <1>1, <1>2, AnsweredIs, AnswersStep
  <1>3. CASE ~Answered(r, FALSE)
    <2>1. /\ Now(r).path \notin dirty
          /\ run' = [run EXCEPT ![r].target = Now(r).workspace]
          /\ Goto(r, IF Now(r).workspace = NoWS THEN "pruneHolder" ELSE "pruneAgents")
      BY <1>3 DEF PruneDirty
    <2>2. /\ Alone(r) /\ run'[r].plan = run[r].plan /\ run'[r].snap = run[r].snap
          /\ run'[r].target = Now(r).workspace
      BY <1>1, <2>1 DEF Alone, ShapeInv, Fields, SnapFields, Goto
    <2>3. pc'[r] = IF Now(r).workspace = NoWS THEN "pruneHolder" ELSE "pruneAgents"
      BY <2>1 DEF Goto, ShapeInv
    <2>4. since'[r] \subseteq Facts
      BY <1>1, <2>3, LosesOnly DEF GuardsBegin
    <2>5. Now(r)' = Now(r)
      BY <2>2 DEF Now
    <2>6. Gone(r, "dirty", Now(r).path)'
      BY <2>1, <2>4, <2>5, FactsAre DEF FactsMean, Gone
    <2>7. Now(r).workspace \in WS \cup {NoWS}
      BY <1>1, NowIs DEF RunnerInv, DoingInv, Doing, Sound
    <2>8. PruneInv(r)'
      BY <2>2, <2>3, <2>6, <2>7 DEF PruneInv
    <2>9. pc'[r] \in PruneAt \ {"prunePanes"}
      BY <2>3 DEF PruneAt
    <2> QED BY <1>1, <2>2, <2>8, <2>9, PrunesOn
  <1> QED BY <1>2, <1>3

LEMMA LooksForHolder ==
  ASSUME HerdrOK, HeldStep, ShapeInv, NEW r \in Runner, RunnerInv(r), PruneHolder(r)
  PROVE  Alone(r) /\ RunnerInv(r)'
  <1> DEFINE found == Picked(Spaces, {i \in DOMAIN Spaces : held[Spaces[i]] = Now(r).path})
             target == IF found = <<>> THEN NoWS ELSE Head(found)
  <1>1. /\ Watch /\ UNCHANGED <<scene, held>> /\ pc[r] = "pruneHolder" /\ pc[r] \in PruneAt
    BY DEF PruneHolder, Reading, world, herdrVars, Watch, PruneAt
  <1>2. CASE Answered(r, FALSE)
    BY <1>1, <1>2, AnsweredIs, AnswersStep
  <1>3. CASE ~Answered(r, FALSE)
    <2>1. /\ run' = [run EXCEPT ![r].target = target]
          /\ Goto(r, IF found = <<>> THEN "pruneCaller" ELSE "pruneAgents")
      BY <1>3 DEF PruneHolder
    <2>2. /\ found = <<>> => \A w \in WS : held[w] # Now(r).path
          /\ found # <<>> => Head(found) \in WS
      BY HolderIs
    <2> HIDE DEF found
    <2>3. target \in WS \cup {NoWS} /\ (found # <<>> => target # NoWS)
      BY <2>2, WorldAssumption
    <2>4. /\ Alone(r) /\ run'[r].plan = run[r].plan /\ run'[r].snap = run[r].snap
          /\ run'[r].target = target
      BY <1>1, <2>1 DEF Alone, ShapeInv, Fields, SnapFields, Goto
    <2>5. pc'[r] = IF found = <<>> THEN "pruneCaller" ELSE "pruneAgents"
      BY <2>1 DEF Goto, ShapeInv
    <2>6. since'[r] \subseteq since[r]
      BY <1>1, <2>5, LosesOnly DEF GuardsBegin
    <2>7. Now(r)' = Now(r)
      BY <2>4 DEF Now
    <2>8. Gone(r, "dirty", Now(r).path)'
      BY <1>1, <2>6, <2>7 DEF RunnerInv, GuardInv, PruneInv, PruneAt, Gone
    <2>9. found = <<>> => PanesOn(Now(r).path)' = {} /\ target = NoWS
      BY <1>1, <2>2, <2>7 DEF PanesOn, OnTree
    <2>10. PruneInv(r)'
      BY <2>3, <2>4, <2>5, <2>8, <2>9 DEF PruneInv
    <2>11. pc'[r] \in PruneAt \ {"prunePanes"}
      BY <2>5 DEF PruneAt
    <2> QED BY <1>1, <2>4, <2>10, <2>11, PrunesOn
  <1> QED BY <1>2, <1>3

LEMMA LooksForAgents ==
  ASSUME HerdrOK, HeldStep, ShapeInv, NEW r \in Runner, RunnerInv(r), PrunePanes(r)
  PROVE  Alone(r) /\ RunnerInv(r)'
  <1> DEFINE w == run[r].target
  <1>1. Watch /\ UNCHANGED scene /\ pc[r] = "prunePanes" /\ pc[r] \in PruneAt
    BY DEF PrunePanes, Reading, Watch, PruneAt
  <1>2. CASE Answered(r, FALSE)
    BY <1>1, <1>2, AnsweredIs, AnswersStep
  <1>3. CASE ~Answered(r, FALSE)
    <2>1. /\ Goto(r, "pruneCaller") /\ UNCHANGED run
          /\ SeenIn(r, w) = {} \/ Now(r).releases
          /\ \A status \in SeenIn(r, w) : Finished(status)
      BY <1>3 DEF PrunePanes
    <2>2. Alone(r) /\ pc'[r] = "pruneCaller" /\ run'[r] = run[r]
      BY <1>1, <2>1, GotoIs
    <2>3. since'[r] \subseteq since[r]
      BY <1>1, <2>2, LosesOnly DEF GuardsBegin
    <2>4. w \in WS /\ w # NoWS
      BY <1>1 DEF RunnerInv, GuardInv, PruneInv, PruneAt
    <2>5. Vacant(r, w)
      <3> SUFFICES ASSUME NEW p \in Range(PanesOf[w])
                   PROVE  Gone(r, "busy", p) /\ (Now(r).releases \/ Gone(r, "agent", p))
        BY DEF Vacant
      <3>1. p \in Pane
        BY <2>4 DEF Pane
      <3>2. p \in DOMAIN run[r].seen => run[r].seen[p] \in SeenIn(r, w)
        BY DEF SeenIn
      <3> QED BY <1>1, <2>1, <3>1, <3>2 DEF RunnerInv, GuardInv, LookedInto, Sees, Finished
    <2>6. Now(r)' = Now(r)
      BY <2>2 DEF Now
    <2>7. Gone(r, "dirty", Now(r).path)'
      BY <1>1, <2>3, <2>6 DEF RunnerInv, GuardInv, PruneInv, PruneAt, Gone
    <2>8. Vacant(r, run[r].target)'
      BY <2>2, <2>3, <2>5, <2>6 DEF Vacant, Gone
    <2>9. PruneInv(r)'
      BY <2>2, <2>4, <2>7, <2>8 DEF PruneInv
    <2> QED BY <1>1, <2>2, <2>9, PrunesOn DEF PruneAt
  <1> QED BY <1>2, <1>3

LEMMA LooksForCaller ==
  ASSUME HerdrOK, HeldStep, ShapeInv, NEW r \in Runner, RunnerInv(r), PruneCaller(r)
  PROVE  Alone(r) /\ RunnerInv(r)'
  <1>1. /\ Watch /\ UNCHANGED <<scene, held>> /\ pc[r] = "pruneCaller" /\ pc[r] \in PruneAt
    BY DEF PruneCaller, Reading, world, herdrVars, Watch, PruneAt
  <1>2. CASE Answered(r, FALSE)
    BY <1>1, <1>2, AnsweredIs, AnswersStep
  <1>3. CASE ~Answered(r, FALSE)
    <2>1. Goto(r, "pruneRemove") /\ UNCHANGED run
      BY <1>3 DEF PruneCaller
    <2>2. Alone(r) /\ pc'[r] = "pruneRemove" /\ run'[r] = run[r]
      BY <1>1, <2>1, GotoIs
    <2>3. since'[r] \subseteq since[r]
      BY <1>1, <2>2, LosesOnly DEF GuardsBegin
    <2>4. Now(r)' = Now(r)
      BY <2>2 DEF Now
    <2>5. PanesOn(Now(r).path)' = PanesOn(Now(r).path)
      BY <1>1, <2>4 DEF PanesOn, OnTree
    <2>6. PruneInv(r)
      BY DEF RunnerInv, GuardInv
    <2>7. PruneInv(r)'
      BY <1>1, <2>2, <2>3, <2>4, <2>5, <2>6 DEF PruneInv, PruneAt, Gone, Vacant
    <2> QED BY <1>1, <2>2, <2>7, PrunesOn DEF PruneAt
  <1> QED BY <1>2, <1>3

LEMMA PrunesIt ==
  ASSUME HerdrOK, HeldStep, ShapeInv, NEW r \in Runner, RunnerInv(r),
         RemoveCheckout(r) \/ RemoveFails(r) \/ DropBranch(r)
  PROVE  Alone(r) /\ RunnerInv(r)'
  <1>1. Watch /\ UNCHANGED scene /\ pc[r] \in PruneAt
    BY DEF RemoveCheckout, RemoveFails, DropBranch, Reading, Watch, PruneAt
  <1>2. CASE \E isFailure : Answered(r, isFailure)
    BY <1>1, <1>2, AnsweredIs, AnswersStep
  <1>3. CASE ~\E isFailure : Answered(r, isFailure)
    <2>1. Goto(r, "pruneBranch") /\ UNCHANGED run
      BY <1>3 DEF RemoveCheckout, RemoveFails, DropBranch
    <2>2. Alone(r) /\ pc'[r] = "pruneBranch" /\ run'[r] = run[r]
      BY <1>1, <2>1, GotoIs
    <2>3. PruneInv(r)'
      BY <2>2 DEF PruneInv, PruneAt
    <2> QED BY <1>1, <2>2, <2>3, PrunesOn DEF PruneAt
  <1> QED BY <1>2, <1>3

-----------------------------------------------------------------------------
(* The invariant *)

LEMMA RunnerMoves ==
  ASSUME WorldInv, HeldStep, ShapeInv, NEW r \in Runner, RunnerInv(r),
         Collect(r) \/ Execute(r)
  PROVE  Alone(r) /\ RunnerInv(r)'
  <1>1. HerdrOK
    BY TypeParts DEF WorldInv
  <1>2. CASE PlanIt(r)
    <2>1. /\ Alone(r) /\ pc'[r] \in AtLarge
          /\ Genuine(run'[r].snap) /\ SoundPlan(run'[r].plan)
      BY <1>2, PlanMade DEF RunnerInv
    <2>2. UNCHANGED <<used, held>> /\ Watch /\ since[r] \subseteq Facts
      BY <1>2 DEF PlanIt, Reading, world, herdrVars, RunnerInv, GuardInv
    <2>3. PlanInv(r)'
      BY <2>1, <2>2 DEF PlanInv, SoundPlan, Sound, Genuine, Stood, IsSeq
    <2> QED BY <2>1, <2>2, <2>3, NothingInHand DEF RunnerInv
  <1>3. CASE Collect(r) /\ ~PlanIt(r)
    <2>1. Reads(r) /\ Watch
      BY <1>3, CollectStep, CollectReads DEF RunnerInv, Reading
    <2> QED BY <1>1, <2>1, LetsGo DEF Reads
  <1>4. CASE Execute(r)
    BY <1>1, <1>4, TakesAction, PassesOver, OpensOne, ReadsAgents, LooksForWorker, StaffsIt,
       LooksForWork, LooksForHolder, LooksForAgents, LooksForCaller, PrunesIt, ChecksGhost,
       LooksAtGhost, ClosesIt DEF Execute
  <1> QED BY <1>2, <1>3, <1>4

\* What a removal takes was found gone by the guards before it, but for what is in
\* another workspace than the one they looked into.
LEMMA NothingTaken ==
  ASSUME NEW r \in Runner, NEW t, NEW spaces, Gone(r, "dirty", t),
         \A w \in spaces : Vacant(r, w),
         spaces = {} => \A p \in PanesOn(t) : Gone(r, "busy", p),
         NEW fact \in Destroyed(r, t, spaces)
  PROVE  fact[1] = "beside"
  <1> DEFINE panes == UNION {Range(PanesOf[w]) : w \in spaces}
             beside == IF spaces = {} THEN {} ELSE {p \in PanesOn(t) \ panes : <<"busy", p>> \in since[r]}
             taken == {<<"dirty", t>>}
                 \cup {<<"busy", p>> : p \in IF spaces = {} THEN PanesOn(t) ELSE panes}
                 \cup (IF Now(r).releases THEN {} ELSE {<<"agent", p>> : p \in panes})
  <1>1. fact \in since[r] \cap taken \/ fact \in {<<"beside", p>> : p \in beside}
    BY DEF Destroyed
  <1>2. \A p \in panes : Gone(r, "busy", p) /\ (Now(r).releases \/ Gone(r, "agent", p))
    BY DEF Vacant
  <1>3. \A p \in IF spaces = {} THEN PanesOn(t) ELSE panes : Gone(r, "busy", p)
    BY <1>2
  <1> HIDE DEF panes
  <1>4. since[r] \cap taken = {}
    BY <1>2, <1>3 DEF Gone
  <1> HIDE DEF beside
  <1>5. \A p : <<"beside", p>>[1] = "beside"
    OBVIOUS
  <1> QED BY <1>1, <1>4, <1>5

LEMMA NothingLostStep ==
  ASSUME WorldInv, ShapeInv, NothingLost, \A r \in Runner : RunnerInv(r), [Next]_vars
  PROVE  NothingLost'
  <1>1. CASE UNCHANGED lost
    BY <1>1 DEF NothingLost
  <1>2. ASSUME NEW r \in Runner, AgentStart(r) PROVE NothingLost'
    <2>1. pc[r] = "staffStart" /\ PlanInv(r) /\ Doing(r, "staff")
      BY <1>2 DEF AgentStart, RunnerInv, DoingInv, StaffAt
    <2>2. Now(r).pane \in Range(PanesOf[Now(r).workspace])
      BY <2>1, NowIs DEF Doing, Sound
    <2>3. Gone(r, "agent", Now(r).pane)
      BY <2>1, <2>2 DEF RunnerInv, GuardInv, LookedInto
    <2>4. lost' = lost
      BY <1>2, <2>3 DEF AgentStart, Gone
    <2> QED BY <2>4 DEF NothingLost
  <1>3. ASSUME NEW r \in Runner, RemoveCheckout(r) PROVE NothingLost'
    <2> DEFINE t == Now(r).path
               spaces == {run[r].target} \ {NoWS}
    <2>1. pc[r] = "pruneRemove" /\ lost' = lost \cup Destroyed(r, t, spaces)
      BY <1>3 DEF RemoveCheckout
    <2>2. Gone(r, "dirty", t)
      BY <2>1 DEF RunnerInv, GuardInv, PruneInv, PruneAt
    <2>3. \A w \in spaces : Vacant(r, w)
      BY <2>1 DEF RunnerInv, GuardInv, PruneInv
    <2>4. spaces = {} => \A p \in PanesOn(t) : Gone(r, "busy", p)
      BY <2>1 DEF RunnerInv, GuardInv, PruneInv
    <2> HIDE DEF t
    <2> HIDE DEF spaces
    <2>5. \A fact \in Destroyed(r, t, spaces) : fact[1] = "beside"
      BY <2>2, <2>3, <2>4, NothingTaken
    <2> QED BY <2>1, <2>5 DEF NothingLost
  <1>4. ASSUME NEW r \in Runner, CloseWorkspace(r) PROVE NothingLost'
    <2> DEFINE w == Now(r).workspace
               others == since[r] \cap {<<"checkout", held[w]>>, <<"unfinished", Now(r).pane>>}
    <2>1. /\ pc[r] = "closeWorkspace" /\ held[w] # NoTree
          /\ lost' = (lost \cup Destroyed(r, held[w], {w})) \cup others
      BY <1>4 DEF CloseWorkspace
    <2>2. Stood(w, Now(r).path)
      BY <2>1, NowIs DEF RunnerInv, DoingInv, Doing, CloseAt, Sound
    <2>3. held[w] = Now(r).path
      BY <2>1, <2>2 DEF Stood
    <2>4. /\ Gone(r, "checkout", held[w]) /\ Gone(r, "dirty", held[w])
          /\ Gone(r, "unfinished", Now(r).pane) /\ Vacant(r, w)
      BY <2>1, <2>3 DEF RunnerInv, GuardInv, CloseInv, CloseAt
    <2>5. others = {}
      BY <2>4 DEF Gone
    <2> HIDE DEF w
    <2>6. \A v \in {w} : Vacant(r, v)
      BY <2>4
    <2>7. \A fact \in Destroyed(r, held[w], {w}) : fact[1] = "beside"
      BY <2>4, <2>6, NothingTaken
    <2> QED BY <2>1, <2>5, <2>7 DEF NothingLost
  <1>5. CASE Environment
    BY <1>1, <1>5, OthersAct DEF Elsewhere, ShapeInv
  <1>6. ASSUME NEW r \in Runner, Collect(r) \/ Execute(r) PROVE NothingLost'
    <2>1. \/ UNCHANGED lost
          \/ AgentStart(r) \/ RemoveCheckout(r) \/ CloseWorkspace(r)
      BY <1>6, CollectReads, ExecuteReads DEF Reading, WorktreeOpen, DropBranch
    <2> QED BY <1>1, <1>2, <1>3, <1>4, <2>1
  <1> QED BY <1>1, <1>5, <1>6 DEF Next, vars

LEMMA StartsWell == Init => IInv
  <1> SUFFICES ASSUME Init PROVE IInv
    OBVIOUS
  <1>1. PICK s \in scene.worlds :
          /\ onDisk = s.onDisk /\ dirty = s.dirty /\ ahead = s.ahead /\ pr = s.pr
          /\ held = s.held /\ agent = s.agent /\ report = s.report
    BY DEF Init
  <1>2. /\ scene.moves \in Nat
        /\ s.onDisk \subseteq Tree /\ s.dirty \subseteq s.onDisk /\ s.ahead \subseteq Tree
        /\ s.pr \in [Tree -> PRStates]
        /\ s.held \in [WS -> Tree \cup {NoTree}]
        /\ s.agent \in [Pane -> {"none", "idle", "working"}]
        /\ \A v \in WS : s.held[v] = NoTree => \A p \in Range(PanesOf[v]) : s.agent[p] = "none"
        /\ s.report \in [Pane -> {"none", "progress", "done"}]
    BY SceneAssumption DEF Init
  <1>3. agent \in [Pane -> Agents] /\ moves \in 0..MaxMoves
    BY <1>1, <1>2 DEF Init, Agents, MaxMoves
  <1>4. /\ branches = Linked /\ listed = used
        /\ used = {w \in WS : held[w] # NoTree} /\ lost = {}
    BY DEF Init
  <1>5. WorldInv /\ NothingLost
    BY <1>1, <1>2, <1>3, <1>4, WorldAssumption DEF WorldInv, TypeOK, BranchInv, NothingLost
  <1>6. ShapeInv
    BY NothingGenuine DEF Init, Fresh, ShapeInv, Fields
  <1>7. ASSUME NEW r \in Runner PROVE RunnerInv(r)
    <2>1. run[r].plan = <<>> /\ run[r].snap = EmptyState /\ since[r] = {}
      BY DEF Init, Fresh
    <2>2. SoundPlan(<<>>)
      BY DEF SoundPlan, IsSeq
    <2>3. PlanInv(r)
      BY <2>1, <2>2, NothingGenuine DEF PlanInv
    <2>4. pc[r] \in {"idle", "done"}
      BY DEF Init
    <2>5. DoingInv(r)
      BY <2>4 DEF DoingInv, StaffAt, PruneAt, CloseAt
    <2>6. GuardInv(r)
      BY <2>1, <2>4 DEF GuardInv, LookedInto, PruneInv, CloseInv, PruneAt, CloseAt
    <2> QED BY <2>3, <2>5, <2>6 DEF RunnerInv
  <1> QED BY <1>5, <1>6, <1>7 DEF IInv

LEMMA StepsWell == IInv /\ [Next]_vars => IInv'
  <1> SUFFICES ASSUME IInv, [Next]_vars PROVE IInv'
    OBVIOUS
  <1> USE DEF IInv
  <1>1. WorldInv' /\ HeldStep
    BY WorldStep
  <1>2. NothingLost'
    BY NothingLostStep
  <1>3. HerdrOK
    BY TypeParts DEF WorldInv
  <1>4. ASSUME NEW r \in Runner, Collect(r) \/ Execute(r)
        PROVE  ShapeInv' /\ \A q \in Runner : RunnerInv(q)'
    <2>1. Alone(r) /\ RunnerInv(r)'
      BY <1>1, <1>4, RunnerMoves
    <2>2. Watch
      BY <1>4, CollectReads, ExecuteReads
         DEF Reading, WorktreeOpen, AgentStart, RemoveCheckout, DropBranch, CloseWorkspace
    <2>3. ASSUME NEW q \in Runner \ {r} PROVE RunnerInv(q)'
      BY <1>1, <1>3, <2>1, <2>2, StaysPut DEF Alone
    <2> QED BY <2>1, <2>3 DEF Alone
  <1>5. CASE Environment
    <2>1. UNCHANGED <<pc, run, scene>> /\ Watch
      BY <1>5, OthersAct DEF Elsewhere, Watch, ShapeInv
    <2>2. \A q \in Runner : RunnerInv(q)'
      BY <1>1, <1>3, <2>1, StaysPut
    <2> QED BY <1>1, <1>2, <2>1, <2>2 DEF ShapeInv
  <1>6. CASE UNCHANGED vars
    <2>1. ShapeInv'
      BY <1>6 DEF vars, ShapeInv
    <2>2. ASSUME NEW q \in Runner PROVE RunnerInv(q)'
      <3>1. UNCHANGED <<pc, run, since, used, held, dirty, onDisk, agent, report>>
        BY <1>6 DEF vars, world, gitVars, herdrVars
      <3>2. RunnerInv(q)
        OBVIOUS
      <3>3. PlanInv(q)' /\ DoingInv(q)'
        BY <3>1, <3>2 DEF RunnerInv, PlanInv, SoundPlan, Sound, IsSeq, Genuine, Stood, DoingInv,
           Doing, Now
      <3>4. GuardInv(q)'
        BY <3>1, <3>2 DEF RunnerInv, GuardInv, LookedInto, PruneInv, CloseInv, Sees, Vacant, Gone,
           Now, PanesOn, OnTree, Facts, Hosted
      <3> QED BY <3>3, <3>4 DEF RunnerInv
    <2> QED BY <1>1, <1>2, <2>1, <2>2
  <1> QED BY <1>1, <1>2, <1>4, <1>5, <1>6 DEF Next

\* What the theorems below rest on.
THEOREM Invariant == Spec => []IInv
  BY StartsWell, StepsWell, PTL DEF Spec

\* However old a plan is and whatever moves between two looks, no step of the executor
\* destroys what was there before the guards of its action began (execute.go: prune,
\* pruneBlocked, removeCheckout, staff, closeGhost), except a busy agent in another
\* workspace on the same checkout than the one the guards looked into.
THEOREM GuardsHold == Spec => []NothingLost
  <1>1. IInv => NothingLost
    BY DEF IInv
  <1> QED BY <1>1, Invariant, PTL

\* Commits that exist nowhere else keep the branch they are on (dropBranch), whoever
\* removes the checkout and whenever they were made.
THEOREM BranchesKept == Spec => []CommitsSurvive
  <1>1. IInv => CommitsSurvive
    BY DEF IInv, WorldInv, BranchInv, CommitsSurvive
  <1> QED BY <1>1, Invariant, PTL
(***************************************************************************)
(* Left alone: nobody and no agent moves, only runners and herdr.          *)
(***************************************************************************)

\* A checkout has a workspace; it has one with an agent in it, or one being launched.
Housed(t)  == OnTree(t) # {}
Staffed(t) == \E p \in PanesOn(t) : agent[p] # "none"

\* What a sync is to leave with an agent.
Ground == onDisk \cap Linked

\* A workspace seen on a checkout is on it while there is a checkout, and a pane seen
\* with an agent has one.
OnIt(w, t) == w \in used /\ (held[w] = t \/ t \notin onDisk)
Warm(p) ==
  \/ agent[p] # "none"
  \/ \A w \in WS : p \in Range(PanesOf[w]) => w \in used /\ held[w] \notin onDisk

\* What has been read of the checkouts: each is there, and has a workspace if one was
\* named; and of the workspaces, the agents and the panes.
KnowsTrees(snap) ==
  /\ \A t \in onDisk : \E i \in DOMAIN snap.worktrees : snap.worktrees[i].path = t
  /\ \A i \in DOMAIN snap.worktrees :
       LET w == snap.worktrees[i]
       IN  ~w.bare /\ (w.workspace # NoWS /\ w.path \in onDisk => Housed(w.path))
KnowsSpaces(snap) ==
  \A i \in DOMAIN snap.workspaces :
    LET ws == snap.workspaces[i]
    IN  OnIt(ws.id, ws.path) /\ ws.linked = (ws.path \in Linked)
KnowsAgents(seen) == \A p \in DOMAIN seen : Warm(p)
KnowsPane(ws)     == ws.panes = PanesOf[ws.id]

\* Every linked checkout has a workspace in the snapshot, or is about to get one.
Accounts(snap, trail) ==
  \A t \in Ground :
    \/ \E i \in DOMAIN snap.workspaces : snap.workspaces[i].path = t
    \/ /\ ~trail
       /\ \E i \in DOMAIN snap.worktrees :
            snap.worktrees[i].path = t /\ snap.worktrees[i].workspace = NoWS

\* Every linked checkout has an agent or is about to get one, in this pass or the last.
Planned(plan, kind, t) == \E i \in DOMAIN plan : plan[i].kind = kind /\ plan[i].path = t
Serves(plan, trail, opened) ==
  \A t \in Ground :
    \/ Staffed(t)
    \/ Planned(plan, "staff", t)
    \/ ~trail /\ (Planned(plan, "adopt", t) \/ (Housed(t) /\ opened))
StaffsOnIt(plan) ==
  \A i \in DOMAIN plan : plan[i].kind = "staff" => OnIt(plan[i].workspace, plan[i].path)

AtRest     == {"idle", "done"}
Collecting == {"trees", "spaces", "agents", "facts", "panes", "reports"}

\* Nothing has gone wrong that a sync would report.
Calm(m, kind) == kind = "sync" /\ ~m.failed /\ ~m.unasked

\* What a runner of some kind remembers, m, where it stands, at.
SnapInv(at, m, kind) ==
  /\ ~m.snap.herdrAbsent
  /\ at \in {"spaces", "agents", "facts", "panes", "reports"} => KnowsTrees(m.snap)
  /\ at \in {"agents", "facts", "panes", "reports"} => KnowsSpaces(m.snap)
  /\ at \in {"agents", "facts", "panes", "reports"} /\ Calm(m, kind) => Accounts(m.snap, m.trail)
  /\ at \in {"facts", "panes", "reports"} => KnowsAgents(m.snap.agents)
  /\ at = "panes" =>
       /\ m.i \in Nat
       /\ \A k \in DOMAIN m.snap.workspaces : k < m.i => KnowsPane(m.snap.workspaces[k])
  /\ at = "reports" => \A k \in DOMAIN m.snap.workspaces : KnowsPane(m.snap.workspaces[k])
TrailInv(m, kind) == Calm(m, kind) /\ m.trail => \A t \in Ground : Housed(t)
TodoInv(at, m, kind) ==
  /\ StaffsOnIt(m.plan)
  /\ at = "staffPanes" => KnowsAgents(m.seen)
  /\ at \notin AtRest \cup Collecting /\ Calm(m, kind) => Serves(m.plan, m.trail, m.opened)
  /\ at = "done" /\ Calm(m, kind) => \A t \in Ground : Staffed(t)
ClosedInv(at, m) == at \in CloseAt \ {"closeStat"} => Head(m.plan).path \notin onDisk

SyncInv(at, m, kind) ==
  SnapInv(at, m, kind) /\ TrailInv(m, kind) /\ TodoInv(at, m, kind) /\ ClosedInv(at, m)
AloneInv == moves = 0 => \A r \in Runner : SyncInv(pc[r], run[r], Kind[r])

-----------------------------------------------------------------------------
(* What a step does to a world left alone *)

Settling ==
  /\ onDisk' \subseteq onDisk /\ used \subseteq used'
  /\ \A w \in WS : held[w] \in onDisk' => held'[w] = held[w]
  /\ \A w \in used : held[w] \notin onDisk' => held'[w] \notin onDisk'
  /\ \A w \in WS : held[w] \in onDisk' =>
       \A p \in Range(PanesOf[w]) : agent[p] # "none" => agent'[p] # "none"

LEMMA ClosesGone ==
  ASSUME WorldInv, NEW spaces \in SUBSET WS, CloseSpaces(spaces), onDisk' \subseteq onDisk,
         \A w \in spaces : held[w] \notin onDisk'
  PROVE  Settling
  <1>1. HerdrOK /\ GitOK
    BY TypeParts DEF WorldInv
  <1>2. used' = used /\ \A w \in WS : held'[w] = IF w \in spaces THEN NoTree ELSE held[w]
    BY DEF CloseSpaces
  <1>3. NoTree \notin onDisk' /\ used \subseteq WS
    BY <1>1, WorldAssumption DEF GitOK, HerdrOK
  <1>4. ASSUME NEW w \in WS, held[w] \in onDisk', NEW p \in Range(PanesOf[w])
        PROVE  agent'[p] = agent[p]
    <2>1. ~\E v \in spaces : p \in Range(PanesOf[v])
      BY <1>4, WorldAssumption
    <2>2. p \in Pane
      BY DEF Pane
    <2> QED BY <2>1, <2>2 DEF CloseSpaces
  <1> QED BY <1>2, <1>3, <1>4 DEF Settling

LEMMA WorldStill ==
  ASSUME UNCHANGED <<onDisk, held, used, agent>> PROVE Settling
  BY DEF Settling

LEMMA ActsOnIt ==
  ASSUME WorldInv, NEW r \in Runner, PlanInv(r), DoingInv(r), PruneInv(r), ClosedInv(pc[r], run[r]),
         \/ WorktreeOpen(r) \/ AgentStart(r) \/ RemoveCheckout(r) \/ DropBranch(r)
         \/ CloseWorkspace(r)
  PROVE  Settling
  <1>1. GitOK /\ HerdrOK
    BY TypeParts DEF WorldInv
  <1>2. ASSUME run[r].plan # <<>> PROVE Sound(Now(r))
    BY <1>2, NowIs
  <1>3. CASE WorktreeOpen(r)
    <2>1. UNCHANGED <<onDisk, agent>>
      BY <1>3 DEF WorktreeOpen, gitVars, herdrVars
    <2>2. CASE UNCHANGED herdrVars
      BY <2>1, <2>2, WorldStill DEF herdrVars
    <2>3. CASE ~UNCHANGED herdrVars
      <3>1. PICK w \in WS \ used :
              held' = [held EXCEPT ![w] = Now(r).path] /\ used' = used \cup {w}
        BY <1>3, <2>3 DEF WorktreeOpen, herdrVars
      <3>2. held[w] = NoTree /\ NoTree \notin onDisk
        BY <1>1, WorldAssumption DEF HerdrOK, GitOK
      <3> QED BY <1>1, <2>1, <3>1, <3>2 DEF Settling, HerdrOK
    <2> QED BY <2>2, <2>3
  <1>4. CASE AgentStart(r)
    <2>1. UNCHANGED <<onDisk, held, used>> /\ agent' = [agent EXCEPT ![Now(r).pane] = "starting"]
      BY <1>4 DEF AgentStart, gitVars
    <2>2. \A p \in Pane : agent[p] # "none" => agent'[p] # "none"
      BY <1>1, <2>1 DEF HerdrOK
    <2> QED BY <2>1, <2>2 DEF Settling, Pane
  <1>5. CASE RemoveCheckout(r)
    <2> DEFINE spaces == {run[r].target} \ {NoWS}
    <2>1. spaces \in SUBSET WS
      BY <1>5 DEF RemoveCheckout, PruneInv, PruneAt
    <2>2. /\ CloseSpaces(spaces) /\ onDisk' = onDisk \ {Now(r).path}
          /\ \A w \in spaces : held[w] = Now(r).path
      BY <1>5 DEF RemoveCheckout
    <2> HIDE DEF spaces
    <2> QED BY <2>1, <2>2, ClosesGone
  <1>6. CASE DropBranch(r)
    BY <1>6, WorldStill DEF DropBranch, herdrVars
  <1>7. CASE CloseWorkspace(r)
    <2>1. /\ CloseSpaces({Now(r).workspace}) /\ held[Now(r).workspace] # NoTree
          /\ onDisk' = onDisk /\ pc[r] = "closeWorkspace"
      BY <1>7 DEF CloseWorkspace, gitVars
    <2>2. Stood(Now(r).workspace, Now(r).path) /\ Now(r).path \notin onDisk
      BY <1>2, <2>1 DEF DoingInv, Doing, Sound, CloseAt, ClosedInv, Now
    <2>3. Now(r).workspace \in WS /\ held[Now(r).workspace] \notin onDisk
      BY <1>1, <2>1, <2>2 DEF Stood, HerdrOK
    <2> QED BY <2>1, <2>3, ClosesGone
  <1> QED BY <1>3, <1>4, <1>5, <1>6, <1>7

\* Nobody brings a checkout back or takes an agent from one that stays.
LEMMA Settles ==
  ASSUME IInv, AloneInv, [Next]_vars, moves' = 0
  PROVE  Settling /\ moves = 0
  <1>1. moves \in Nat /\ HerdrOK
    BY TypeParts, SceneAssumption DEF IInv, WorldInv, ShapeInv, MaxMoves
  <1>2. CASE UNCHANGED vars
    BY <1>2, WorldStill DEF vars, world, gitVars, herdrVars
  <1>3. CASE Environment
    <2>1. ~Move
      BY <1>1 DEF Move
    <2>2. ASSUME NEW p \in Pane, Launched(p) PROVE Settling /\ moves = 0
      <3>1. \A q \in Pane : agent[q] # "none" => agent'[q] # "none"
        BY <1>1, <2>2 DEF Launched, HerdrOK
      <3> QED BY <2>2, <3>1 DEF Launched, gitVars, Settling, Pane
    <2>3. ASSUME ListCatchesUp PROVE Settling /\ moves = 0
      BY <2>3, WorldStill DEF ListCatchesUp, gitVars
    <2> QED BY <1>3, <2>1, <2>2, <2>3
        DEF Environment, Edit, Commit, PRMerges, Checkout, UserOpens, AgentMoves, WorkerReports,
            UserCloses
  <1>4. ASSUME NEW r \in Runner, Collect(r) \/ Execute(r) PROVE Settling /\ moves = 0
    <2>1. CASE Reading
      BY <2>1, WorldStill DEF Reading, world, gitVars, herdrVars
    <2>2. CASE ~Reading
      <3>1. WorktreeOpen(r) \/ AgentStart(r) \/ RemoveCheckout(r) \/ DropBranch(r) \/ CloseWorkspace(r)
        BY <1>4, <2>2, CollectReads, ExecuteReads
      <3>2. moves = 0
        BY <3>1 DEF WorktreeOpen, AgentStart, RemoveCheckout, DropBranch, CloseWorkspace
      <3>3. PlanInv(r) /\ DoingInv(r) /\ PruneInv(r) /\ ClosedInv(pc[r], run[r])
        BY <3>2 DEF IInv, RunnerInv, GuardInv, AloneInv, SyncInv
      <3> QED BY <3>1, <3>2, <3>3, ActsOnIt DEF IInv
    <2> QED BY <2>1, <2>2
  <1> QED BY <1>2, <1>3, <1>4 DEF Next

-----------------------------------------------------------------------------
(* What is left of what a runner knows, in a world left alone *)

LEMMA GroundStays ==
  ASSUME WorldInv, Settling, NEW t \in onDisk'
  PROVE  t \in onDisk /\ (Housed(t) => Housed(t)') /\ (Staffed(t) => Staffed(t)')
  <1>1. t \in onDisk /\ \A w \in OnTree(t) : w \in OnTree(t)'
    BY DEF Settling, OnTree
  <1>2. ASSUME NEW p \in PanesOn(t), agent[p] # "none" PROVE p \in PanesOn(t)' /\ agent'[p] # "none"
    <2>1. PICK w \in OnTree(t) : p \in Range(PanesOf[w])
      BY DEF PanesOn
    <2>2. agent'[p] # "none"
      BY <1>2, <2>1 DEF OnTree, Settling
    <2> QED BY <1>1, <2>1, <2>2 DEF PanesOn
  <1> QED BY <1>1, <1>2 DEF Housed, Staffed

LEMMA OnItStays ==
  ASSUME WorldInv, Settling, NEW w, NEW t, OnIt(w, t) PROVE OnIt(w, t)'
  <1>1. HerdrOK
    BY TypeParts DEF WorldInv
  <1> QED BY <1>1 DEF OnIt, Settling, HerdrOK

LEMMA WarmStays ==
  ASSUME WorldInv, Settling, NEW p, Warm(p) PROVE Warm(p)'
  <1>1. HerdrOK
    BY TypeParts DEF WorldInv
  <1>2. CASE \A w \in WS : p \in Range(PanesOf[w]) => w \in used /\ held[w] \notin onDisk
    BY <1>2 DEF Warm, Settling
  <1>3. CASE agent[p] # "none"
    <2>1. ASSUME NEW w \in WS, p \in Range(PanesOf[w]), agent'[p] = "none"
          PROVE  w \in used' /\ held'[w] \notin onDisk'
      <3>1. held[w] # NoTree
        BY <1>1, <1>3, <2>1 DEF HerdrOK
      <3>2. w \in used /\ held[w] \notin onDisk'
        BY <1>1, <1>3, <2>1, <3>1 DEF HerdrOK, Settling
      <3> QED BY <3>2 DEF Settling
    <2> QED BY <2>1 DEF Warm
  <1> QED BY <1>2, <1>3 DEF Warm

LEMMA KnowledgeStays ==
  ASSUME WorldInv, Settling, NEW x
  PROVE  /\ KnowsTrees(x) => KnowsTrees(x)'
         /\ KnowsSpaces(x) => KnowsSpaces(x)'
         /\ KnowsAgents(x) => KnowsAgents(x)'
         /\ StaffsOnIt(x) => StaffsOnIt(x)'
         /\ \A trail : Accounts(x, trail) => Accounts(x, trail)'
         /\ \A trail, opened : Serves(x, trail, opened) => Serves(x, trail, opened)'
  <1>1. onDisk' \subseteq onDisk
    BY DEF Settling
  <1>2. KnowsTrees(x) => KnowsTrees(x)'
    BY <1>1, GroundStays DEF KnowsTrees
  <1>3. KnowsSpaces(x) => KnowsSpaces(x)'
    BY OnItStays DEF KnowsSpaces
  <1>4. KnowsAgents(x) => KnowsAgents(x)'
    BY WarmStays DEF KnowsAgents
  <1>5. StaffsOnIt(x) => StaffsOnIt(x)'
    BY OnItStays DEF StaffsOnIt
  <1>6. ASSUME NEW trail, Accounts(x, trail) PROVE Accounts(x, trail)'
    BY <1>1, <1>6 DEF Accounts, Ground
  <1>7. ASSUME NEW trail, NEW opened, Serves(x, trail, opened) PROVE Serves(x, trail, opened)'
    BY <1>1, <1>7, GroundStays DEF Serves, Ground, Planned
  <1> QED BY <1>2, <1>3, <1>4, <1>5, <1>6, <1>7

LEMMA SyncStays ==
  ASSUME WorldInv, Settling, NEW at, NEW m, NEW kind, SyncInv(at, m, kind)
  PROVE  SyncInv(at, m, kind)'
  <1>1. SnapInv(at, m, kind)'
    BY KnowledgeStays DEF SyncInv, SnapInv, Calm, KnowsPane
  <1>2. TrailInv(m, kind)'
    BY GroundStays DEF SyncInv, TrailInv, Calm, Ground
  <1>3. TodoInv(at, m, kind)'
    BY KnowledgeStays, GroundStays DEF SyncInv, TodoInv, Calm, Ground
  <1>4. ClosedInv(at, m)'
    BY DEF SyncInv, ClosedInv, Settling
  <1> QED BY <1>1, <1>2, <1>3, <1>4 DEF SyncInv

\* What is so of what a runner comes to remember is so of the runner.
LEMMA SyncComes ==
  ASSUME NEW r \in Runner, NEW at, NEW m, NEW kind, at = pc'[r], m = run'[r],
         kind = scene'.kind[r], SyncInv(at, m, kind)'
  PROVE  SyncInv(pc[r], run[r], Kind[r])'
  <1> USE DEF SyncInv
  <1>1. Calm(run[r], Kind[r])' <=> Calm(m, kind)
    BY DEF Calm, Kind
  <1>2. SnapInv(pc[r], run[r], Kind[r])'
    <2>1. KnowsTrees(m.snap)' => KnowsTrees(run[r].snap)'
      BY DEF KnowsTrees, Housed, OnTree
    <2>2. KnowsSpaces(m.snap)' => KnowsSpaces(run[r].snap)'
      BY DEF KnowsSpaces, OnIt
    <2>3. KnowsAgents(m.snap.agents)' => KnowsAgents(run[r].snap.agents)'
      BY DEF KnowsAgents, Warm
    <2>4. Accounts(m.snap, m.trail)' => Accounts(run[r].snap, run[r].trail)'
      BY DEF Accounts, Ground
    <2>5. Calm(m, kind)' <=> Calm(m, kind)
      BY DEF Calm
    <2> QED BY <1>1, <2>1, <2>2, <2>3, <2>4, <2>5 DEF SnapInv, KnowsPane
  <1>3. TrailInv(run[r], Kind[r])'
    BY <1>1 DEF TrailInv, Ground, Calm, Housed, OnTree
  <1>4. TodoInv(pc[r], run[r], Kind[r])'
    <2>1. StaffsOnIt(m.plan)' => StaffsOnIt(run[r].plan)'
      BY DEF StaffsOnIt, OnIt
    <2>2. KnowsAgents(m.seen)' => KnowsAgents(run[r].seen)'
      BY DEF KnowsAgents, Warm
    <2>3. Serves(m.plan, m.trail, m.opened)' => Serves(run[r].plan, run[r].trail, run[r].opened)'
      BY DEF Serves, Ground, Planned, Housed, Staffed, OnTree, PanesOn
    <2>4. (\A t \in Ground : Staffed(t))' => (\A t \in Ground : Staffed(t))'
      OBVIOUS
    <2>5. Calm(m, kind)' <=> Calm(m, kind)
      BY DEF Calm
    <2> QED BY <1>1, <2>1, <2>2, <2>3, <2>4, <2>5 DEF TodoInv, AtRest, Collecting
  <1>5. ClosedInv(pc[r], run[r])'
    BY DEF ClosedInv
  <1> QED BY <1>2, <1>3, <1>4, <1>5

-----------------------------------------------------------------------------
(* Collect, left alone *)

\* Nothing but the snapshot, and how far it is read, moves.
Keeps(r) ==
  /\ run'[r].plan = run[r].plan /\ run'[r].trail = run[r].trail
  /\ run'[r].opened = run[r].opened /\ run'[r].failed = run[r].failed
  /\ run'[r].unasked = run[r].unasked /\ run'[r].gaveUp = run[r].gaveUp
  /\ run'[r].snap.herdrAbsent = run[r].snap.herdrAbsent

LEMMA KeepsOn ==
  ASSUME NEW r \in Runner, NEW kind, SyncInv(pc[r], run[r], kind), Keeps(r),
         pc'[r] \in Collecting, SnapInv(pc'[r], run'[r], kind)
  PROVE  SyncInv(pc'[r], run'[r], kind)
  <1>1. TrailInv(run'[r], kind)
    BY DEF SyncInv, Keeps, TrailInv, Calm
  <1>2. TodoInv(pc'[r], run'[r], kind)
    BY DEF SyncInv, Keeps, TodoInv, Collecting
  <1>3. ClosedInv(pc'[r], run'[r])
    BY DEF ClosedInv, CloseAt, Collecting
  <1> QED BY <1>1, <1>2, <1>3 DEF SyncInv

LEMMA Begins ==
  ASSUME ShapeInv, NEW r \in Runner, NEW kind, SyncInv(pc[r], run[r], kind), Begin(r)
  PROVE  SyncInv(pc'[r], run'[r], kind)
  <1>1. pc'[r] = "trees" /\ run' = run
    BY DEF Begin, Goto, ShapeInv
  <1>2. SnapInv(pc'[r], run'[r], kind)
    BY <1>1 DEF SyncInv, SnapInv
  <1> QED BY <1>1, <1>2, KeepsOn DEF Keeps, Collecting

LEMMA KnowsWorktrees ==
  ASSUME WorldInv, ShapeInv, NEW r \in Runner, NEW kind, SyncInv(pc[r], run[r], kind),
         WorktreeList(r)
  PROVE  SyncInv(pc'[r], run'[r], kind)
  <1> DEFINE where == {i \in DOMAIN Trees : Trees[i] \in onDisk}
             found == Picked(Trees, where)
  <1>1. PICK open \in [onDisk -> WS \cup {NoWS}] :
          /\ \A t \in onDisk : open[t] \in OpenOn(t)
          /\ run' = [run EXCEPT ![r].snap.worktrees =
                       [i \in DOMAIN found |-> Worktree(found[i], open[found[i]])]]
    BY DEF WorktreeList
  <1>2. Indices(where)
    <2>1. DOMAIN Trees = 1..Len(Trees) /\ Len(Trees) \in Nat
      BY WorldAssumption
    <2> QED BY <2>1 DEF Indices
  <1>3. \A m \in DOMAIN found : found[m] \in onDisk
    BY <1>2, PickedIs
  <1>4. \A t \in onDisk : \E m \in DOMAIN found : found[m] = t
    <2>1. ASSUME NEW t \in onDisk PROVE \E m \in DOMAIN found : found[m] = t
      <3>1. PICK i \in where : Trees[i] = t
        BY DEF WorldInv, TypeOK, Tree, Range
      <3> HIDE DEF where
      <3>2. Rank(where, i) \in DOMAIN found /\ found[Rank(where, i)] = Trees[i]
        BY <1>2, PickedAll
      <3> QED BY <3>1, <3>2
    <2> QED BY <2>1
  <1> HIDE DEF found
  <1> DEFINE trees == [i \in DOMAIN found |-> Worktree(found[i], open[found[i]])]
  <1>5. \A i \in DOMAIN trees :
          /\ trees[i].path = found[i] /\ ~trees[i].bare
          /\ trees[i].workspace # NoWS => Housed(found[i])
    BY <1>1, <1>3 DEF Worktree, OpenOn, Housed
  <1>6. DOMAIN trees = DOMAIN found /\ run' = [run EXCEPT ![r].snap.worktrees = trees]
    BY <1>1
  <1> HIDE DEF trees
  <1>7. Keeps(r) /\ run'[r].snap.worktrees = trees
    BY <1>6 DEF Keeps, ShapeInv, Fields, SnapFields
  <1>8. KnowsTrees(run'[r].snap)
    BY <1>3, <1>4, <1>5, <1>6, <1>7 DEF KnowsTrees
  <1>9. pc'[r] = "spaces"
    BY DEF WorktreeList, Goto, ShapeInv
  <1> QED BY <1>7, <1>8, <1>9, KeepsOn DEF SyncInv, SnapInv, Keeps, Collecting

LEMMA KnowsWorkspaces ==
  ASSUME WorldInv, ShapeInv, NEW r \in Runner, NEW kind, SyncInv(pc[r], run[r], kind),
         WorkspaceList(r)
  PROVE  SyncInv(pc'[r], run'[r], kind)
  <1> DEFINE where == {i \in DOMAIN Spaces : held[Spaces[i]] # NoTree}
             found == Picked(Spaces, where)
             spaces == [i \in DOMAIN found |->
                          [id |-> found[i], path |-> held[found[i]],
                           linked |-> held[found[i]] \in Linked, panes |-> <<>>]]
  <1>1. run' = [run EXCEPT ![r].snap.workspaces = spaces]
    BY DEF WorkspaceList
  <1>2. DOMAIN Spaces = 1..Len(Spaces) /\ Len(Spaces) \in Nat /\ \A i \in DOMAIN Spaces : Spaces[i] \in WS
    BY WorldAssumption
  <1>3. Indices(where)
    BY <1>2 DEF Indices
  <1>4. \A m \in DOMAIN found : found[m] \in WS /\ held[found[m]] # NoTree
    BY <1>2, <1>3, PickedIs
  <1>5. \A w \in WS : held[w] # NoTree => \E m \in DOMAIN found : found[m] = w
    <2>1. ASSUME NEW w \in WS, held[w] # NoTree PROVE \E i \in where : Spaces[i] = w
      BY <2>1 DEF WS, Range
    <2> QED BY <1>3, <2>1, PickedAll
  <1> HIDE DEF found
  <1>6. /\ DOMAIN spaces = DOMAIN found
        /\ \A i \in DOMAIN spaces :
             /\ spaces[i].id = found[i] /\ spaces[i].path = held[found[i]]
             /\ spaces[i].linked = (held[found[i]] \in Linked)
    OBVIOUS
  <1> HIDE DEF spaces
  <1>7. /\ Keeps(r) /\ run'[r].snap.workspaces = spaces
        /\ run'[r].snap.worktrees = run[r].snap.worktrees
    BY <1>1 DEF Keeps, ShapeInv, Fields, SnapFields
  <1>8. pc[r] = "spaces" /\ pc'[r] = "agents" /\ KnowsTrees(run[r].snap)
    BY DEF WorkspaceList, Goto, ShapeInv, SyncInv, SnapInv
  <1>9. KnowsTrees(run'[r].snap)
    BY <1>7, <1>8 DEF KnowsTrees
  <1>10. KnowsSpaces(run'[r].snap)
    BY <1>4, <1>6, <1>7 DEF KnowsSpaces, OnIt, WorldInv, TypeOK
  <1>11. ASSUME Calm(run'[r], kind) PROVE Accounts(run'[r].snap, run'[r].trail)
    <2>1. ASSUME NEW t \in onDisk, Housed(t) PROVE \E i \in DOMAIN spaces : spaces[i].path = t
      <3>1. PICK w \in WS : held[w] = t
        BY <2>1 DEF Housed, OnTree
      <3>2. t # NoTree
        BY WorldAssumption DEF WorldInv, TypeOK
      <3> QED BY <1>5, <1>6, <3>1, <3>2
    <2>2. run[r].trail => \A t \in Ground : Housed(t)
      BY <1>7, <1>11 DEF SyncInv, TrailInv, Calm, Keeps
    <2>3. ASSUME NEW t \in Ground, ~\E i \in DOMAIN spaces : spaces[i].path = t, ~run[r].trail
          PROVE  \E i \in DOMAIN run[r].snap.worktrees :
                   run[r].snap.worktrees[i].path = t /\ run[r].snap.worktrees[i].workspace = NoWS
      BY <1>8, <2>1, <2>3 DEF KnowsTrees, Ground
    <2> QED BY <1>7, <2>1, <2>2, <2>3 DEF Accounts, Keeps, Ground
  <1> QED BY <1>7, <1>8, <1>9, <1>10, <1>11, KeepsOn DEF SyncInv, SnapInv, Keeps, Collecting

\* A snapshot whose listings say no less, whatever else it says.
LEMMA StillKnows ==
  ASSUME NEW a, NEW b, DOMAIN b.worktrees = DOMAIN a.worktrees, b.workspaces = a.workspaces,
         \A i \in DOMAIN a.worktrees :
           /\ b.worktrees[i].path = a.worktrees[i].path
           /\ b.worktrees[i].workspace = a.worktrees[i].workspace
           /\ b.worktrees[i].bare = a.worktrees[i].bare
  PROVE  /\ KnowsTrees(a) => KnowsTrees(b)
         /\ KnowsSpaces(a) => KnowsSpaces(b)
         /\ \A trail : Accounts(a, trail) => Accounts(b, trail)
  <1>1. KnowsTrees(a) => KnowsTrees(b)
    BY DEF KnowsTrees
  <1>2. KnowsSpaces(a) => KnowsSpaces(b)
    BY DEF KnowsSpaces
  <1>3. ASSUME NEW trail, Accounts(a, trail) PROVE Accounts(b, trail)
    BY <1>3 DEF Accounts
  <1> QED BY <1>1, <1>2, <1>3

LEMMA KnowsOn ==
  ASSUME NEW r \in Runner, NEW kind, SyncInv(pc[r], run[r], kind), Keeps(r),
         pc[r] \in {"agents", "facts", "panes", "reports"},
         run'[r].snap.worktrees = run[r].snap.worktrees,
         run'[r].snap.workspaces = run[r].snap.workspaces
  PROVE  /\ KnowsTrees(run'[r].snap) /\ KnowsSpaces(run'[r].snap)
         /\ Calm(run'[r], kind) => Accounts(run'[r].snap, run'[r].trail)
         /\ ~run'[r].snap.herdrAbsent
  <1>1. SnapInv(pc[r], run[r], kind)
    BY DEF SyncInv
  <1>2. Calm(run'[r], kind) => Calm(run[r], kind)
    BY DEF Keeps, Calm
  <1> QED BY <1>1, <1>2, StillKnows DEF SnapInv, Keeps

LEMMA KnowsWhoIsThere ==
  ASSUME WorldInv, ShapeInv, NEW r \in Runner, NEW kind, SyncInv(pc[r], run[r], kind),
         AgentList(r)
  PROVE  SyncInv(pc'[r], run'[r], kind)
  <1>1. run' = [run EXCEPT ![r].snap.agents = ListedAgents, ![r].i = 1]
    BY DEF AgentList
  <1>2. KnowsAgents(ListedAgents)
    BY DEF ListedAgents, KnowsAgents, Warm, Hosted
  <1> HIDE DEF ListedAgents
  <1>3. /\ Keeps(r) /\ run'[r].snap.agents = ListedAgents
        /\ run'[r].snap.worktrees = run[r].snap.worktrees
        /\ run'[r].snap.workspaces = run[r].snap.workspaces
    BY <1>1 DEF Keeps, ShapeInv, Fields, SnapFields
  <1>4. pc[r] = "agents" /\ pc'[r] = "facts"
    BY DEF AgentList, Goto, ShapeInv
  <1>5. SnapInv(pc'[r], run'[r], kind)
    BY <1>2, <1>3, <1>4, KnowsOn DEF SnapInv
  <1> QED BY <1>3, <1>4, <1>5, KeepsOn DEF Collecting

\* Only what git and gh say of a checkout is filled in.
LEMMA ResolveIs ==
  ASSUME ShapeInv, NEW r \in Runner, PlanInv(r), Resolve(r)
  PROVE  /\ Keeps(r) /\ run'[r].snap.agents = run[r].snap.agents
         /\ run'[r].snap.workspaces = run[r].snap.workspaces
         /\ DOMAIN run'[r].snap.worktrees = DOMAIN run[r].snap.worktrees
         /\ \A k \in DOMAIN run[r].snap.worktrees :
              /\ run'[r].snap.worktrees[k].path = run[r].snap.worktrees[k].path
              /\ run'[r].snap.worktrees[k].workspace = run[r].snap.worktrees[k].workspace
              /\ run'[r].snap.worktrees[k].bare = run[r].snap.worktrees[k].bare
         /\ pc[r] = "facts" /\ pc' = pc
  <1> DEFINE i == run[r].i
             trees == run[r].snap.worktrees
             w == trees[i]
             now == IF ~w.linked THEN w ELSE
                    [w EXCEPT !.dirty = w.path \in dirty \/ w.path \notin onDisk,
                              !.merged = w.path \in InBase /\ w.path \notin ahead,
                              !.gone = w.path \in InBase,
                              !.pr = IF Kind[r] = "apply" THEN pr[w.path] ELSE ""]
  <1>1. /\ i \in DOMAIN trees /\ pc[r] = "facts" /\ pc' = pc
        /\ run' = [run EXCEPT ![r].i = i + 1, ![r].snap.worktrees[i] = now]
    BY DEF Resolve
  <1>2. w \in WorktreeSet
    <2>1. trees \in Seq(WorktreeSet)
      BY DEF PlanInv, Genuine
    <2> HIDE DEF trees
    <2> QED BY <1>1, <2>1
  <1>3. now.path = w.path /\ now.workspace = w.workspace /\ now.bare = w.bare
    <2> HIDE DEF w
    <2> QED BY <1>2 DEF WorktreeSet
  <1> HIDE DEF now
  <1>4. /\ Keeps(r) /\ run'[r].snap.agents = run[r].snap.agents
        /\ run'[r].snap.worktrees = [trees EXCEPT ![i] = now]
        /\ run'[r].snap.workspaces = run[r].snap.workspaces
    BY <1>1 DEF Keeps, ShapeInv, Fields, SnapFields
  <1>5. /\ DOMAIN [trees EXCEPT ![i] = now] = DOMAIN trees
        /\ \A k \in DOMAIN trees :
             /\ [trees EXCEPT ![i] = now][k].path = trees[k].path
             /\ [trees EXCEPT ![i] = now][k].workspace = trees[k].workspace
             /\ [trees EXCEPT ![i] = now][k].bare = trees[k].bare
    BY <1>1, <1>3
  <1> QED BY <1>1, <1>4, <1>5

LEMMA KnowsFacts ==
  ASSUME WorldInv, ShapeInv, NEW r \in Runner, PlanInv(r), NEW kind, SyncInv(pc[r], run[r], kind),
         Resolve(r)
  PROVE  SyncInv(pc'[r], run'[r], kind)
  <1>1. Keeps(r) /\ pc[r] = "facts" /\ pc' = pc /\ run'[r].snap.agents = run[r].snap.agents
    BY ResolveIs
  <1>2. /\ KnowsTrees(run[r].snap) => KnowsTrees(run'[r].snap)
        /\ KnowsSpaces(run[r].snap) => KnowsSpaces(run'[r].snap)
        /\ \A trail : Accounts(run[r].snap, trail) => Accounts(run'[r].snap, trail)
    BY ResolveIs, StillKnows
  <1>3. Calm(run'[r], kind) => Calm(run[r], kind)
    BY <1>1 DEF Keeps, Calm
  <1>4. SnapInv(pc'[r], run'[r], kind)
    BY <1>1, <1>2, <1>3 DEF SyncInv, SnapInv, Keeps
  <1> QED BY <1>1, <1>4, KeepsOn DEF Collecting

LEMMA KnowsOnlyMore ==
  ASSUME WorldInv, ShapeInv, NEW r \in Runner, PlanInv(r), NEW kind, SyncInv(pc[r], run[r], kind),
         ResolvedAll(r) \/ ListedPanes(r)
  PROVE  SyncInv(pc'[r], run'[r], kind)
  <1>1. run' = [run EXCEPT ![r].i = 1]
    BY DEF ResolvedAll, ListedPanes
  <1>2. Keeps(r) /\ run'[r].snap = run[r].snap /\ run'[r].i = 1
    BY <1>1 DEF Keeps, ShapeInv, Fields, SnapFields
  <1>3. DOMAIN run[r].snap.workspaces = 1..Len(run[r].snap.workspaces)
        /\ Len(run[r].snap.workspaces) \in Nat
    BY DEF PlanInv, Genuine
  <1>4. \/ pc[r] = "facts" /\ pc'[r] = "panes"
        \/ pc[r] = "panes" /\ pc'[r] = "reports" /\ run[r].i > Len(run[r].snap.workspaces)
    BY DEF ResolvedAll, ListedPanes, Goto, ShapeInv
  <1>5. SnapInv(pc[r], run[r], kind)
    BY DEF SyncInv
  <1>6. pc'[r] = "panes" => \A k \in DOMAIN run[r].snap.workspaces : ~(k < run'[r].i)
    BY <1>2, <1>3
  <1>7. pc'[r] = "reports" => \A k \in DOMAIN run[r].snap.workspaces : KnowsPane(run[r].snap.workspaces[k])
    BY <1>3, <1>4, <1>5 DEF SnapInv
  <1>8. SnapInv(pc'[r], run'[r], kind)
    BY <1>2, <1>4, <1>5, <1>6, <1>7, KnowsOn DEF SnapInv
  <1> QED BY <1>2, <1>4, <1>8, KeepsOn DEF Collecting

LEMMA KnowsReports ==
  ASSUME WorldInv, ShapeInv, NEW r \in Runner, NEW kind, SyncInv(pc[r], run[r], kind),
         ReadGhostReport(r)
  PROVE  SyncInv(pc'[r], run'[r], kind)
  <1>1. PICK p \in GhostPanes(r) \ DOMAIN run[r].snap.reports : \E answer :
          run' = [run EXCEPT ![r].snap.reports =
                   [q \in DOMAIN @ \cup {p} |-> IF q = p THEN answer ELSE @[q]]]
    BY DEF ReadGhostReport
  <1>2. PICK answer :
          run' = [run EXCEPT ![r].snap.reports =
                   [q \in DOMAIN @ \cup {p} |-> IF q = p THEN answer ELSE @[q]]]
    BY <1>1
  <1> DEFINE reports == [q \in DOMAIN run[r].snap.reports \cup {p} |->
                           IF q = p THEN answer ELSE run[r].snap.reports[q]]
  <1>3. run' = [run EXCEPT ![r].snap.reports = reports]
    BY <1>2
  <1> HIDE DEF reports
  <1>4. /\ Keeps(r) /\ run'[r].snap.agents = run[r].snap.agents
        /\ run'[r].snap.worktrees = run[r].snap.worktrees
        /\ run'[r].snap.workspaces = run[r].snap.workspaces
    BY <1>3 DEF Keeps, ShapeInv, Fields, SnapFields
  <1>5. pc[r] = "reports" /\ pc' = pc
    BY DEF ReadGhostReport
  <1>6. SnapInv(pc'[r], run'[r], kind)
    BY <1>4, <1>5, KnowsOn DEF SnapInv, SyncInv
  <1> QED BY <1>4, <1>5, <1>6, KeepsOn DEF Collecting

LEMMA NothingKnown ==
  ASSUME NEW at, NEW m, m.snap = EmptyState, NEW kind,
         at \notin {"spaces", "agents", "facts", "panes", "reports"}
  PROVE  SnapInv(at, m, kind)
  BY DEF SnapInv, EmptyState

LEMMA GivesUpCollecting ==
  ASSUME ShapeInv, NEW r \in Runner, NEW kind, SyncInv(pc[r], run[r], kind), CollectFails(r)
  PROVE  SyncInv(pc'[r], run'[r], kind)
  <1>1. /\ run'[r].failed /\ run'[r].snap = EmptyState /\ run'[r].plan = run[r].plan
        /\ pc'[r] = "done"
    BY DEF CollectFails, Goto, ShapeInv, Fields
  <1>2. SnapInv(pc'[r], run'[r], kind)
    BY <1>1, NothingKnown
  <1>3. ~Calm(run'[r], kind)
    BY <1>1 DEF Calm
  <1> QED BY <1>1, <1>2, <1>3 DEF SyncInv, TodoInv, TrailInv, ClosedInv, CloseAt

\* Leaving an element out moves none before it.
LEMMA PickedBefore ==
  ASSUME NEW n \in Nat, NEW seq, NEW i \in 1..n, NEW k \in 1..n, k < i
  PROVE  LET where == (1..n) \ {i}
         IN  k \in DOMAIN Picked(seq, where) /\ Picked(seq, where)[k] = seq[k]
  <1> DEFINE where == (1..n) \ {i}
  <1>1. Indices(where) /\ k \in where
    BY DEF Indices
  <1>2. {j \in where : j <= k} = 1..k
    OBVIOUS
  <1>3. Rank(where, k) = k
    <2>1. Rank(where, k) = Cardinality(1..k)
      BY <1>2 DEF Rank
    <2>2. Cardinality(1..k) = k
      BY FS_Interval
    <2> QED BY <2>1, <2>2
  <1> HIDE DEF where
  <1>4. Rank(where, k) \in DOMAIN Picked(seq, where) /\ Picked(seq, where)[Rank(where, k)] = seq[k]
    BY <1>1, PickedAll
  <1> QED BY <1>3, <1>4 DEF where

LEMMA LeavesOut ==
  ASSUME WorldInv, ShapeInv, NEW r \in Runner, PlanInv(r), NEW kind, SyncInv(pc[r], run[r], kind),
         PaneList(r), held[run[r].snap.workspaces[run[r].i].id] = NoTree
  PROVE  SyncInv(pc'[r], run'[r], kind)
  <1> DEFINE i == run[r].i
             spaces == run[r].snap.workspaces
             n == Len(spaces)
             where == (1..n) \ {i}
             left == Picked(spaces, where)
  <1>1. spaces \in Seq(SpaceSet) /\ n \in Nat /\ DOMAIN spaces = 1..n /\ i \in DOMAIN spaces
    BY DEF PaneList, PlanInv, Genuine
  <1>2. run' = [run EXCEPT ![r].snap.workspaces = left] /\ pc[r] = "panes" /\ pc' = pc
    BY <1>1 DEF PaneList
  <1>3. Indices(where)
    BY <1>1 DEF Indices
  <1>4. SnapInv(pc[r], run[r], kind)
    BY DEF SyncInv
  <1>5. \A m \in DOMAIN left : \E k \in DOMAIN spaces : left[m] = spaces[k]
    <2>1. \A k \in where : k \in DOMAIN spaces
      BY <1>1
    <2> HIDE DEF where
    <2> HIDE DEF spaces
    <2> QED BY <1>3, <2>1, PickedIs
  <1>6. \A k \in where : \E m \in DOMAIN left : left[m] = spaces[k]
    <2> HIDE DEF where
    <2> QED BY <1>3, PickedAll
  <1>7. \A k \in DOMAIN spaces : k < i => k \in DOMAIN left /\ left[k] = spaces[k]
    BY <1>1, PickedBefore
  <1>8. \A m \in DOMAIN left : m < i => left[m] = spaces[m] /\ m \in DOMAIN spaces
    <2>1. \A m \in DOMAIN left : m \in Nat /\ m > 0
      <3>1. DOMAIN left = 1..Cardinality(where)
        BY <1>3, PickedIs
      <3> HIDE DEF left
      <3>2. Cardinality(where) \in Nat
        BY <1>3, Ranks
      <3> QED BY <3>1, <3>2
    <2> HIDE DEF left
    <2> QED BY <1>1, <1>7, <2>1
  <1> HIDE DEF left
  <1>9. /\ Keeps(r) /\ run'[r].snap.agents = run[r].snap.agents /\ run'[r].i = i
        /\ run'[r].snap.worktrees = run[r].snap.worktrees
        /\ run'[r].snap.workspaces = left
    BY <1>2 DEF Keeps, ShapeInv, Fields, SnapFields
  <1>10. spaces[i].path \notin onDisk
    <2>1. OnIt(spaces[i].id, spaces[i].path)
      BY <1>1, <1>2, <1>4 DEF SnapInv, KnowsSpaces
    <2>2. NoTree \notin onDisk
      BY WorldAssumption DEF WorldInv, TypeOK
    <2> QED BY <2>1, <2>2 DEF OnIt
  <1>11. KnowsTrees(run'[r].snap)
    BY <1>2, <1>4, <1>9 DEF SnapInv, KnowsTrees
  <1>12. KnowsSpaces(run'[r].snap)
    BY <1>2, <1>4, <1>5, <1>9 DEF SnapInv, KnowsSpaces
  <1>13. ASSUME Calm(run'[r], kind) PROVE Accounts(run'[r].snap, run'[r].trail)
    <2>1. Accounts(run[r].snap, run[r].trail)
      BY <1>2, <1>4, <1>9, <1>13 DEF SnapInv, Keeps, Calm
    <2>2. \A k \in DOMAIN spaces : spaces[k].path \in onDisk => k \in where
      BY <1>1, <1>10
    <2> HIDE DEF where
    <2> QED BY <1>6, <1>9, <2>1, <2>2 DEF Accounts, Ground, Keeps
  <1>14. /\ run'[r].i \in Nat
         /\ \A k \in DOMAIN left : k < run'[r].i => KnowsPane(left[k])
    BY <1>2, <1>4, <1>8, <1>9 DEF SnapInv
  <1>15. SnapInv(pc'[r], run'[r], kind)
    BY <1>2, <1>4, <1>9, <1>11, <1>12, <1>13, <1>14 DEF SnapInv, Keeps
  <1> QED BY <1>2, <1>9, <1>15, KeepsOn DEF Collecting

LEMMA KnowsPanes ==
  ASSUME WorldInv, ShapeInv, NEW r \in Runner, PlanInv(r), NEW kind, SyncInv(pc[r], run[r], kind),
         PaneList(r), held[run[r].snap.workspaces[run[r].i].id] # NoTree
  PROVE  SyncInv(pc'[r], run'[r], kind)
  <1> DEFINE i == run[r].i
             spaces == run[r].snap.workspaces
             known == [spaces[i] EXCEPT !.panes = PanesOf[spaces[i].id]]
             now == [spaces EXCEPT ![i] = known]
  <1>1. spaces \in Seq(SpaceSet) /\ i \in DOMAIN spaces /\ DOMAIN spaces = 1..Len(spaces)
        /\ Len(spaces) \in Nat
    <2>1. spaces \in Seq(SpaceSet) /\ i \in DOMAIN spaces
      BY DEF PaneList, PlanInv, Genuine
    <2> HIDE DEF spaces
    <2> QED BY <2>1
  <1>2. pc[r] = "panes" /\ pc' = pc
        /\ run' = [run EXCEPT ![r].snap.workspaces[i].panes = PanesOf[spaces[i].id], ![r].i = i + 1]
    BY DEF PaneList
  <1>3. /\ known.id = spaces[i].id /\ known.path = spaces[i].path /\ known.linked = spaces[i].linked
        /\ known.panes = PanesOf[known.id]
    <2>1. spaces[i] \in SpaceSet
      <3> HIDE DEF spaces
      <3> QED BY <1>1
    <2> HIDE DEF i
    <2> HIDE DEF spaces
    <2> QED BY <2>1 DEF SpaceSet
  <1>4. /\ Keeps(r) /\ run'[r].snap.agents = run[r].snap.agents /\ run'[r].i = i + 1
        /\ run'[r].snap.worktrees = run[r].snap.worktrees
        /\ run'[r].snap.workspaces = now
    BY <1>2 DEF Keeps, ShapeInv, Fields, SnapFields
  <1> HIDE DEF known
  <1>5. /\ DOMAIN now = DOMAIN spaces
        /\ \A k \in DOMAIN now :
             /\ now[k].id = spaces[k].id /\ now[k].path = spaces[k].path
             /\ now[k].linked = spaces[k].linked
             /\ now[k] = IF k = i THEN known ELSE spaces[k]
    BY <1>1, <1>3
  <1> HIDE DEF now
  <1>6. SnapInv(pc[r], run[r], kind)
    BY DEF SyncInv
  <1>7. KnowsTrees(run'[r].snap) /\ KnowsSpaces(run'[r].snap)
    <2>1. KnowsTrees(run[r].snap) /\ KnowsSpaces(run[r].snap)
      BY <1>2, <1>6 DEF SnapInv
    <2>2. KnowsTrees(run'[r].snap)
      BY <1>4, <2>1 DEF KnowsTrees
    <2>3. KnowsSpaces(run'[r].snap)
      BY <1>4, <1>5, <2>1 DEF KnowsSpaces
    <2> QED BY <2>2, <2>3
  <1>8. ASSUME Calm(run'[r], kind) PROVE Accounts(run'[r].snap, run'[r].trail)
    <2>1. Accounts(run[r].snap, run[r].trail)
      BY <1>2, <1>4, <1>6, <1>8 DEF SnapInv, Calm, Keeps
    <2>2. run'[r].trail = run[r].trail
      BY <1>4 DEF Keeps
    <2>3. ASSUME NEW t \in Ground, NEW k \in DOMAIN spaces, spaces[k].path = t
          PROVE  \E j \in DOMAIN run'[r].snap.workspaces : run'[r].snap.workspaces[j].path = t
      <3>1. k \in DOMAIN now /\ now[k].path = t
        BY <1>5, <2>3
      <3> QED BY <1>4, <3>1
    <2>4. run'[r].snap.worktrees = run[r].snap.worktrees
      BY <1>4
    <2> QED BY <2>1, <2>2, <2>3, <2>4 DEF Accounts
  <1>9. run'[r].i \in Nat /\ \A k \in DOMAIN now : k < run'[r].i => KnowsPane(now[k])
    <2>1. ASSUME NEW k \in DOMAIN now, k < i + 1, k # i PROVE KnowsPane(now[k])
      <3>1. k < i /\ now[k] = spaces[k] /\ k \in DOMAIN spaces
        BY <1>1, <1>5, <2>1
      <3> QED BY <1>2, <1>6, <3>1 DEF SnapInv
    <2>2. i \in DOMAIN now => KnowsPane(now[i])
      BY <1>3, <1>5 DEF KnowsPane
    <2> QED BY <1>1, <1>4, <2>1, <2>2
  <1>10. SnapInv(pc'[r], run'[r], kind)
    BY <1>2, <1>4, <1>6, <1>7, <1>8, <1>9 DEF SnapInv, Keeps
  <1> QED BY <1>2, <1>4, <1>10, KeepsOn DEF Collecting

-----------------------------------------------------------------------------
(* What a plan made in a world left alone serves *)

LEMMA ConcatPlanned ==
  ASSUME NEW a, NEW b, IsSeq(a), IsSeq(b)
  PROVE  /\ \A kind, t : Planned(a, kind, t) \/ Planned(b, kind, t) => Planned(a \o b, kind, t)
         /\ StaffsOnIt(a) /\ StaffsOnIt(b) => StaffsOnIt(a \o b)
  <1>1. /\ DOMAIN a = 1..Len(a) /\ DOMAIN b = 1..Len(b) /\ Len(a) \in Nat /\ Len(b) \in Nat
        /\ DOMAIN (a \o b) = 1..(Len(a) + Len(b))
    BY DEF IsSeq
  <1>2. \A i \in DOMAIN (a \o b) : (a \o b)[i] = IF i <= Len(a) THEN a[i] ELSE b[i - Len(a)]
    BY DEF IsSeq
  <1>3. ASSUME NEW i \in DOMAIN a PROVE i \in DOMAIN (a \o b) /\ (a \o b)[i] = a[i]
    BY <1>1, <1>2
  <1>4. ASSUME NEW i \in DOMAIN b
        PROVE  Len(a) + i \in DOMAIN (a \o b) /\ (a \o b)[Len(a) + i] = b[i]
    BY <1>1, <1>2
  <1>5. ASSUME NEW i \in DOMAIN (a \o b)
        PROVE  \/ i \in DOMAIN a /\ (a \o b)[i] = a[i]
               \/ i - Len(a) \in DOMAIN b /\ (a \o b)[i] = b[i - Len(a)]
    BY <1>1, <1>2
  <1>6. StaffsOnIt(a) /\ StaffsOnIt(b) => StaffsOnIt(a \o b)
    BY <1>5 DEF StaffsOnIt
  <1>7. \A kind, t : Planned(a, kind, t) => Planned(a \o b, kind, t)
    BY <1>3 DEF Planned
  <1>8. \A kind, t : Planned(b, kind, t) => Planned(a \o b, kind, t)
    BY <1>4 DEF Planned
  <1> QED BY <1>6, <1>7, <1>8

LEMMA OnlyPlanned ==
  ASSUME NEW plan, IsSeq(plan), NEW kinds
  PROVE  /\ \A kind \in kinds : \A t : Planned(plan, kind, t) => Planned(Only(plan, kinds), kind, t)
         /\ StaffsOnIt(plan) => StaffsOnIt(Only(plan, kinds))
  <1> DEFINE where == {i \in DOMAIN plan : plan[i].kind \in kinds}
  <1>1. Only(plan, kinds) = Picked(plan, where)
    BY DEF Only
  <1>2. Indices(where)
    <2>1. DOMAIN plan = 1..Len(plan) /\ Len(plan) \in Nat
      BY DEF IsSeq
    <2> QED BY <2>1 DEF Indices
  <1>3. (\A i \in where : i \in DOMAIN plan) /\ \A i \in DOMAIN plan : plan[i].kind \in kinds => i \in where
    OBVIOUS
  <1> HIDE DEF where
  <1>4. \A m \in DOMAIN Picked(plan, where) : \E i \in DOMAIN plan : Picked(plan, where)[m] = plan[i]
    BY <1>2, <1>3, PickedIs
  <1>5. ASSUME NEW kind \in kinds, NEW t, Planned(plan, kind, t)
        PROVE  Planned(Picked(plan, where), kind, t)
    <2>1. PICK i \in DOMAIN plan : plan[i].kind = kind /\ plan[i].path = t
      BY <1>5 DEF Planned
    <2>2. i \in where
      BY <1>3, <2>1
    <2>3. /\ Rank(where, i) \in DOMAIN Picked(plan, where)
          /\ Picked(plan, where)[Rank(where, i)] = plan[i]
      BY <1>2, <2>2, PickedAll
    <2> QED BY <2>1, <2>3 DEF Planned
  <1>6. StaffsOnIt(plan) => StaffsOnIt(Picked(plan, where))
    BY <1>4 DEF StaffsOnIt
  <1> QED BY <1>1, <1>5, <1>6

LEMMA Adopts ==
  ASSUME NEW state, Genuine(state), KnowsTrees(state), ~state.herdrAbsent
  PROVE  /\ \A i \in DOMAIN state.worktrees : state.worktrees[i].workspace = NoWS =>
              Planned(Adopt(state), "adopt", state.worktrees[i].path)
         /\ StaffsOnIt(Adopt(state))
  <1> DEFINE trees == state.worktrees
             all == [i \in DOMAIN trees |-> ActionOn("adopt", trees[i].path, trees[i].branch, NoWS)]
             where == {i \in DOMAIN trees :
                         ~state.herdrAbsent /\ ~trees[i].bare /\ trees[i].workspace = NoWS}
  <1>1. Adopt(state) = Picked(all, where)
    BY DEF Adopt, Each
  <1>2. DOMAIN trees = 1..Len(trees) /\ Len(trees) \in Nat
    BY DEF Genuine
  <1>3. Indices(where)
    BY <1>2 DEF Indices
  <1>4. \A i \in DOMAIN trees : all[i].kind = "adopt" /\ all[i].path = trees[i].path
    BY DEF ActionOn
  <1>5. \A i \in DOMAIN trees : trees[i].workspace = NoWS => i \in where
    BY DEF KnowsTrees
  <1>6. \A i \in where : i \in DOMAIN trees
    OBVIOUS
  <1> HIDE DEF where, all
  <1>7. ASSUME NEW i \in DOMAIN trees, trees[i].workspace = NoWS
        PROVE  Planned(Picked(all, where), "adopt", trees[i].path)
    <2>1. i \in where
      BY <1>5, <1>7
    <2>2. /\ Rank(where, i) \in DOMAIN Picked(all, where)
          /\ Picked(all, where)[Rank(where, i)] = all[i]
      BY <1>3, <2>1, PickedAll
    <2> QED BY <1>4, <2>2 DEF Planned
  <1>8. \A m \in DOMAIN Picked(all, where) : Picked(all, where)[m].kind = "adopt"
    BY <1>3, <1>4, <1>6, PickedIs
  <1> QED BY <1>1, <1>7, <1>8 DEF StaffsOnIt

\* A checkout with a workspace in the snapshot has an agent, or is to get one.
LEMMA Staffs ==
  ASSUME WorldInv, NEW state, Genuine(state), KnowsTrees(state), KnowsSpaces(state),
         KnowsAgents(state.agents),
         \A k \in DOMAIN state.workspaces : KnowsPane(state.workspaces[k])
  PROVE  /\ \A i \in DOMAIN state.workspaces : state.workspaces[i].path \in Ground =>
              \/ Staffed(state.workspaces[i].path)
              \/ Planned(Staff(state), "staff", state.workspaces[i].path)
         /\ StaffsOnIt(Staff(state))
  <1> DEFINE spaces == state.workspaces
             all == [i \in DOMAIN spaces |->
                       [ActionOn("staff", spaces[i].path, WorktreeAt(state, spaces[i].path).branch,
                                 spaces[i].id) EXCEPT
                          !.pane = spaces[i].panes[1],
                          !.resume = WorktreeAt(state, spaces[i].path).transcript]]
             where == {i \in DOMAIN spaces :
                         /\ spaces[i].linked /\ spaces[i].panes # <<>>
                         /\ ~Occupied(state, spaces[i]) /\ Live(state, spaces[i].path)}
  <1>1. Staff(state) = Picked(all, where)
    BY DEF Staff, Each
  <1>2. DOMAIN spaces = 1..Len(spaces) /\ Len(spaces) \in Nat /\ \A i \in DOMAIN spaces : spaces[i] \in SpaceSet
    <2>1. spaces \in Seq(SpaceSet)
      BY DEF Genuine
    <2> HIDE DEF spaces
    <2> QED BY <2>1
  <1>3. Indices(where)
    BY <1>2 DEF Indices
  <1>4. \A i \in DOMAIN spaces :
          all[i].kind = "staff" /\ all[i].path = spaces[i].path /\ all[i].workspace = spaces[i].id
    BY DEF ActionOn
  <1>5. ASSUME NEW i \in DOMAIN spaces, spaces[i].path \in Ground, ~Staffed(spaces[i].path)
        PROVE  i \in where
    <2>1. OnIt(spaces[i].id, spaces[i].path) /\ spaces[i].linked
      BY <1>5 DEF KnowsSpaces, Ground
    <2>2. held[spaces[i].id] = spaces[i].path /\ spaces[i].id \in WS
      BY <1>2, <1>5, <2>1 DEF OnIt, Ground, SpaceSet
    <2>3. spaces[i].panes = PanesOf[spaces[i].id] /\ PanesOf[spaces[i].id] # <<>>
      BY <2>2, ListingAssumption DEF KnowsPane
    <2>4. Live(state, spaces[i].path)
      BY <1>5 DEF KnowsTrees, Ground, Live, Range
    <2>5. ASSUME NEW p \in Range(spaces[i].panes), p \in DOMAIN state.agents PROVE FALSE
      <3>1. Warm(p)
        BY <2>5 DEF KnowsAgents
      <3>2. agent[p] # "none"
        BY <1>5, <2>2, <2>3, <2>5, <3>1 DEF Warm, Ground
      <3> QED BY <1>5, <2>2, <2>3, <2>5, <3>2 DEF Staffed, PanesOn, OnTree
    <2>6. ~Occupied(state, spaces[i])
      BY <2>5 DEF Occupied, Occupants
    <2> QED BY <2>1, <2>3, <2>4, <2>6
  <1>6. \A i \in where : i \in DOMAIN spaces
    OBVIOUS
  <1> HIDE DEF where, all
  <1>7. ASSUME NEW i \in DOMAIN spaces, spaces[i].path \in Ground, ~Staffed(spaces[i].path)
        PROVE  Planned(Picked(all, where), "staff", spaces[i].path)
    <2>1. i \in where
      BY <1>5, <1>7
    <2>2. /\ Rank(where, i) \in DOMAIN Picked(all, where)
          /\ Picked(all, where)[Rank(where, i)] = all[i]
      BY <1>3, <2>1, PickedAll
    <2> QED BY <1>4, <2>2 DEF Planned
  <1>8. \A m \in DOMAIN Picked(all, where) :
          OnIt(Picked(all, where)[m].workspace, Picked(all, where)[m].path)
    <2>1. ASSUME NEW i \in where PROVE OnIt(all[i].workspace, all[i].path)
      BY <1>4, <1>6 DEF KnowsSpaces
    <2>2. ASSUME NEW m \in DOMAIN Picked(all, where) PROVE \E i \in where : Picked(all, where)[m] = all[i]
      BY <1>3, PickedIs
    <2> QED BY <2>1, <2>2
  <1> QED BY <1>1, <1>7, <1>8 DEF StaffsOnIt

LEMMA PruneKinds ==
  ASSUME NEW state, Genuine(state)
  PROVE  \A m \in DOMAIN Prune(state) : Prune(state)[m].kind \in {"keep", "prune"}
  <1> DEFINE trees == state.worktrees
             action(kind, w) == ActionOn(kind, w.path, w.branch, w.workspace)
             verdict(w) ==
               IF Spared(state, w) THEN action("keep", w)
               ELSE [action("prune", w) EXCEPT
                       !.releases = Occupied(state, WorkspaceAt(state, w.path))]
             all == [i \in DOMAIN trees |-> verdict(trees[i])]
             where == {i \in DOMAIN trees : trees[i].linked}
  <1>1. Prune(state) = Picked(all, where)
    BY DEF Prune, Each
  <1>2. Indices(where)
    <2>1. DOMAIN trees = 1..Len(trees) /\ Len(trees) \in Nat
      BY DEF Genuine
    <2> QED BY <2>1 DEF Indices
  <1>3. \A i \in where : all[i].kind \in {"keep", "prune"}
    BY DEF ActionOn
  <1> HIDE DEF where, all
  <1>4. \A m \in DOMAIN Picked(all, where) : Picked(all, where)[m].kind \in {"keep", "prune"}
    BY <1>2, <1>3, PickedIs
  <1> QED BY <1>1, <1>4

LEMMA GhostKinds ==
  ASSUME NEW state, Genuine(state)
  PROVE  \A m \in DOMAIN Ghosts(state) : Ghosts(state)[m].kind \in {"ghost", "close-ghost"}
  <1> DEFINE spaces == state.workspaces
             worker(ws) == CHOOSE p \in Reporting(state, ws) : TRUE
             answer(ws) ==
               IF Closable(state, ws) # "close"
               THEN ActionOn("ghost", ws.path, NoBranch, ws.id)
               ELSE [ActionOn("close-ghost", ws.path, state.reports[worker(ws)].prHead, ws.id)
                       EXCEPT !.pane = worker(ws), !.pr = state.reports[worker(ws)].pr,
                              !.releases = Occupied(state, ws)]
             all == [i \in DOMAIN spaces |-> answer(spaces[i])]
             where == {i \in DOMAIN spaces : ~Live(state, spaces[i].path)}
  <1>1. Ghosts(state) = Picked(all, where)
    BY DEF Ghosts, Each
  <1>2. Indices(where)
    <2>1. DOMAIN spaces = 1..Len(spaces) /\ Len(spaces) \in Nat
      BY DEF Genuine
    <2> QED BY <2>1 DEF Indices
  <1>3. \A i \in where : all[i].kind \in {"ghost", "close-ghost"}
    BY DEF ActionOn
  <1> HIDE DEF where, all
  <1>4. \A m \in DOMAIN Picked(all, where) : Picked(all, where)[m].kind \in {"ghost", "close-ghost"}
    BY <1>2, <1>3, PickedIs
  <1> QED BY <1>1, <1>4

\* What the plan of a pass does for every linked checkout the snapshot accounts for.
LEMMA PlanServes ==
  ASSUME WorldInv, NEW state, Genuine(state), KnowsTrees(state), KnowsSpaces(state),
         KnowsAgents(state.agents), ~state.herdrAbsent,
         \A k \in DOMAIN state.workspaces : KnowsPane(state.workspaces[k]),
         NEW kinds, NEW plan, plan = Only(ReconcileState(state), kinds)
  PROVE  /\ StaffsOnIt(plan)
         /\ \A trail, opened :
              /\ "staff" \in kinds /\ (~trail => "adopt" \in kinds) /\ Accounts(state, trail)
              => Serves(plan, trail, opened)
  <1> DEFINE whole == ReconcileState(state)
  <1>1. /\ IsSeq(Adopt(state)) /\ IsSeq(Staff(state)) /\ IsSeq(Prune(state)) /\ IsSeq(Ghosts(state))
        /\ IsSeq(Adopt(state) \o Staff(state)) /\ IsSeq(Adopt(state) \o Staff(state) \o Prune(state))
        /\ IsSeq(whole)
    BY AdoptSound, StaffSound, PruneSound, GhostsSound, ConcatSound DEF SoundPlan, ReconcileState
  <1>2. StaffsOnIt(whole)
    <2>1. StaffsOnIt(Adopt(state)) /\ StaffsOnIt(Staff(state))
      BY Adopts, Staffs
    <2>2. StaffsOnIt(Prune(state)) /\ StaffsOnIt(Ghosts(state))
      BY PruneKinds, GhostKinds DEF StaffsOnIt
    <2> QED BY <1>1, <2>1, <2>2, ConcatPlanned DEF ReconcileState
  <1>3. \A kind, t : Planned(Adopt(state), kind, t) \/ Planned(Staff(state), kind, t) => Planned(whole, kind, t)
    BY <1>1, ConcatPlanned DEF ReconcileState
  <1> HIDE DEF whole
  <1>4. /\ StaffsOnIt(plan)
        /\ \A kind \in kinds : \A t : Planned(whole, kind, t) => Planned(plan, kind, t)
    BY <1>1, <1>2, OnlyPlanned DEF whole
  <1>5. ASSUME NEW trail, NEW opened, "staff" \in kinds, ~trail => "adopt" \in kinds,
               Accounts(state, trail), NEW t \in Ground
        PROVE  \/ Staffed(t)
               \/ Planned(plan, "staff", t)
               \/ ~trail /\ Planned(plan, "adopt", t)
    <2>1. ASSUME NEW i \in DOMAIN state.workspaces, state.workspaces[i].path = t
          PROVE  Staffed(t) \/ Planned(plan, "staff", t)
      BY <1>3, <1>4, <1>5, <2>1, Staffs
    <2>2. ASSUME NEW i \in DOMAIN state.worktrees, state.worktrees[i].path = t,
                 state.worktrees[i].workspace = NoWS, ~trail
          PROVE  Planned(plan, "adopt", t)
      BY <1>3, <1>4, <1>5, <2>2, Adopts
    <2> QED BY <1>5, <2>1, <2>2 DEF Accounts
  <1> QED BY <1>4, <1>5 DEF Serves

LEMMA PlansToServe ==
  ASSUME WorldInv, ShapeInv, NEW r \in Runner, PlanInv(r), NEW kind, kind = Kind[r],
         SyncInv(pc[r], run[r], kind), PlanIt(r)
  PROVE  SyncInv(pc'[r], run'[r], kind)
  <1> DEFINE state == [run[r].snap EXCEPT !.release = ReleaseAgents /\ Kind[r] = "apply"]
             plan == Only(ReconcileState(state), Kinds(r))
  <1>1. /\ run' = [run EXCEPT ![r].plan = plan, ![r].snap = EmptyState, ![r].tries = 0]
        /\ pc[r] = "reports" /\ pc'[r] = "next"
    BY DEF PlanIt, Goto, ShapeInv
  <1>2. /\ state.worktrees = run[r].snap.worktrees /\ state.workspaces = run[r].snap.workspaces
        /\ state.agents = run[r].snap.agents /\ state.herdrAbsent = run[r].snap.herdrAbsent
    BY DEF ShapeInv, SnapFields
  <1> HIDE DEF state
  <1>3. SnapInv(pc[r], run[r], kind)
    BY DEF SyncInv
  <1>4. /\ Genuine(state) /\ KnowsTrees(state) /\ KnowsSpaces(state) /\ ~state.herdrAbsent
        /\ KnowsAgents(state.agents)
        /\ \A k \in DOMAIN state.workspaces : KnowsPane(state.workspaces[k])
    <2>1. Genuine(state)
      BY <1>2 DEF PlanInv, Genuine
    <2>2. KnowsTrees(state)
      BY <1>1, <1>2, <1>3 DEF SnapInv, KnowsTrees
    <2>3. KnowsSpaces(state)
      BY <1>1, <1>2, <1>3 DEF SnapInv, KnowsSpaces
    <2> QED BY <1>1, <1>2, <1>3, <2>1, <2>2, <2>3 DEF SnapInv
  <1>5. Calm(run[r], kind) => Accounts(state, run[r].trail)
    BY <1>1, <1>2, <1>3 DEF SnapInv, Accounts
  <1>6. Calm(run[r], kind) => "staff" \in Kinds(r) /\ (~run[r].trail => "adopt" \in Kinds(r))
    BY DEF Calm, Kinds
  <1>7. /\ StaffsOnIt(plan)
        /\ \A trail, opened :
             /\ "staff" \in Kinds(r) /\ (~trail => "adopt" \in Kinds(r)) /\ Accounts(state, trail)
             => Serves(plan, trail, opened)
    BY <1>4, PlanServes
  <1> HIDE DEF plan
  <1>8. /\ run'[r].plan = plan /\ run'[r].snap = EmptyState /\ run'[r].trail = run[r].trail
        /\ run'[r].opened = run[r].opened /\ run'[r].failed = run[r].failed
        /\ run'[r].unasked = run[r].unasked
    BY <1>1 DEF ShapeInv, Fields
  <1>9. SnapInv(pc'[r], run'[r], kind)
    BY <1>1, <1>8, NothingKnown
  <1>10. TrailInv(run'[r], kind)
    BY <1>8 DEF SyncInv, TrailInv, Calm
  <1>11. TodoInv(pc'[r], run'[r], kind)
    <2>1. Calm(run'[r], kind) => Serves(plan, run[r].trail, run[r].opened)
      BY <1>5, <1>6, <1>7, <1>8 DEF Calm
    <2> QED BY <1>1, <1>7, <1>8, <2>1 DEF TodoInv
  <1>12. ClosedInv(pc'[r], run'[r])
    BY <1>1 DEF ClosedInv, CloseAt
  <1> QED BY <1>9, <1>10, <1>11, <1>12 DEF SyncInv

LEMMA CollectsOn ==
  ASSUME WorldInv, ShapeInv, NEW r \in Runner, PlanInv(r), NEW kind, kind = Kind[r],
         SyncInv(pc[r], run[r], kind), Collect(r)
  PROVE  SyncInv(pc'[r], run'[r], kind)
  BY Begins, KnowsWorktrees, KnowsWorkspaces, KnowsWhoIsThere, KnowsFacts, KnowsOnlyMore,
     LeavesOut, KnowsPanes, KnowsReports, GivesUpCollecting, PlansToServe DEF Collect

-----------------------------------------------------------------------------
(* Execute, left alone *)

\* A runner at work that stood at a and remembered m comes to stand at b and remember n:
\* it has its plan still, or has answered the first action in a way that serves.
Handles(a, m, b, n, kind) ==
  /\ a \notin AtRest \cup Collecting /\ b \notin AtRest \cup Collecting
  /\ n.snap = m.snap /\ n.trail = m.trail /\ (m.opened => n.opened)
  /\ Calm(n, kind) => Calm(m, kind)
  /\ b = "staffPanes" => KnowsAgents(n.seen)
  /\ ClosedInv(b, n)
  /\ \/ n.plan = m.plan
     \/ /\ IsSeq(m.plan) /\ m.plan # <<>> /\ n.plan = Tail(m.plan)
        /\ Calm(n, kind) /\ Head(m.plan).path \in Ground =>
             \/ Head(m.plan).kind \notin {"adopt", "staff"}
             \/ Staffed(Head(m.plan).path)
             \/ Head(m.plan).kind = "adopt" /\ Housed(Head(m.plan).path) /\ n.opened

LEMMA TailPlanned ==
  ASSUME NEW plan, IsSeq(plan), plan # <<>>
  PROVE  /\ \A kind, t : Planned(plan, kind, t) =>
              Planned(Tail(plan), kind, t) \/ (Head(plan).kind = kind /\ Head(plan).path = t)
         /\ StaffsOnIt(plan) => StaffsOnIt(Tail(plan))
  <1>1. /\ DOMAIN plan = 1..Len(plan) /\ Len(plan) \in Nat /\ DOMAIN Tail(plan) = 1..(Len(plan) - 1)
        /\ \A i \in DOMAIN Tail(plan) : Tail(plan)[i] = plan[i+1] /\ i + 1 \in DOMAIN plan
        /\ Head(plan) = plan[1]
    BY TailIs DEF IsSeq
  <1>2. ASSUME NEW kind, NEW t, Planned(plan, kind, t), ~(Head(plan).kind = kind /\ Head(plan).path = t)
        PROVE  Planned(Tail(plan), kind, t)
    <2>1. PICK i \in DOMAIN plan : plan[i].kind = kind /\ plan[i].path = t
      BY <1>2 DEF Planned
    <2>2. i # 1
      BY <1>1, <1>2, <2>1
    <2>3. i - 1 \in DOMAIN Tail(plan) /\ Tail(plan)[i - 1] = plan[i]
      BY <1>1, <2>2
    <2> QED BY <2>1, <2>3 DEF Planned
  <1>3. StaffsOnIt(plan) => StaffsOnIt(Tail(plan))
    BY <1>1 DEF StaffsOnIt
  <1> QED BY <1>2, <1>3

LEMMA Handled ==
  \A a, m, b, n, kind : SyncInv(a, m, kind) /\ Handles(a, m, b, n, kind) => SyncInv(b, n, kind)
  <1> SUFFICES ASSUME NEW a, NEW m, NEW b, NEW n, NEW kind, SyncInv(a, m, kind),
                      Handles(a, m, b, n, kind)
               PROVE  SyncInv(b, n, kind)
    OBVIOUS
  <1>1. SnapInv(b, n, kind)
    BY DEF SyncInv, Handles, SnapInv, Collecting
  <1>2. TrailInv(n, kind)
    BY DEF SyncInv, Handles, TrailInv
  <1>3. StaffsOnIt(n.plan)
    BY TailPlanned DEF SyncInv, Handles, TodoInv
  <1>4. ASSUME Calm(n, kind) PROVE Serves(n.plan, n.trail, n.opened)
    <2>1. Serves(m.plan, m.trail, m.opened)
      BY <1>4 DEF SyncInv, Handles, TodoInv
    <2>2. n.trail = m.trail /\ (m.opened => n.opened)
      BY DEF Handles
    <2>3. CASE n.plan = m.plan
      BY <2>1, <2>2, <2>3 DEF Serves
    <2>4. CASE n.plan # m.plan
      <3>1. /\ IsSeq(m.plan) /\ m.plan # <<>> /\ n.plan = Tail(m.plan)
            /\ Head(m.plan).path \in Ground =>
                 \/ Head(m.plan).kind \notin {"adopt", "staff"}
                 \/ Staffed(Head(m.plan).path)
                 \/ Head(m.plan).kind = "adopt" /\ Housed(Head(m.plan).path) /\ n.opened
        BY <1>4, <2>4 DEF Handles
      <3>2. \A k, t : Planned(m.plan, k, t) =>
              Planned(n.plan, k, t) \/ (Head(m.plan).kind = k /\ Head(m.plan).path = t)
        BY <3>1, TailPlanned
      <3> QED BY <2>1, <2>2, <3>1, <3>2 DEF Serves
    <2> QED BY <2>3, <2>4
  <1>5. TodoInv(b, n, kind)
    BY <1>3, <1>4 DEF Handles, TodoInv, AtRest
  <1> QED BY <1>1, <1>2, <1>5 DEF SyncInv, Handles

LEMMA HandledNext ==
  (\A a, m, b, n, kind : SyncInv(a, m, kind) /\ Handles(a, m, b, n, kind) => SyncInv(b, n, kind))'
  BY Handled, PTL

\* Where an executor stands.
AtWork == {"next", "open"} \cup StaffAt \cup PruneAt \cup CloseAt

\* It has the same action in hand and has heard of no failure.
Holds(r) ==
  /\ run'[r].plan = run[r].plan /\ run'[r].snap = run[r].snap /\ run'[r].trail = run[r].trail
  /\ run'[r].opened = run[r].opened /\ run'[r].failed = run[r].failed
  /\ run'[r].unasked = run[r].unasked

LEMMA HoldsIs ==
  ASSUME ShapeInv, NEW r \in Runner,
         \/ run' = run
         \/ \E x : run' = [run EXCEPT ![r].target = x]
         \/ \E x : run' = [run EXCEPT ![r].seen = x] 
         \/ \E x, y : run' = [run EXCEPT ![r].tries = x, ![r].seen = y]
  PROVE  Holds(r)
  BY DEF Holds, ShapeInv, Fields

LEMMA HoldsHandles ==
  ASSUME NEW r \in Runner, NEW kind, Holds(r), pc[r] \in AtWork, pc'[r] \in AtWork,
         pc'[r] = "staffPanes" => KnowsAgents(run'[r].seen),
         pc'[r] \in CloseAt \ {"closeStat"} => Now(r).path \notin onDisk
  PROVE  Handles(pc[r], run[r], pc'[r], run'[r], kind)
  BY DEF Handles, Holds, AtWork, AtRest, Collecting, StaffAt, PruneAt, CloseAt, Calm, ClosedInv, Now

\* What an answer leaves of the calm.
LEMMA AnsweredCalm ==
  ASSUME ShapeInv, NEW r \in Runner, NEW isFailure, Answered(r, isFailure), NEW kind
  PROVE  /\ run'[r].plan = Tail(run[r].plan) /\ run'[r].snap = run[r].snap
         /\ run'[r].trail = run[r].trail /\ run'[r].opened = run[r].opened
         /\ Calm(run'[r], kind) => Calm(run[r], kind) /\ ~isFailure
         /\ pc'[r] = "next"
  BY DEF Answered, Goto, ShapeInv, Fields, Calm

LEMMA UnaskedCalm ==
  ASSUME ShapeInv, NEW r \in Runner, Unasked(r), NEW kind
  PROVE  /\ run'[r].plan = Tail(run[r].plan) /\ run'[r].snap = run[r].snap
         /\ run'[r].trail = run[r].trail /\ run'[r].opened = run[r].opened
         /\ ~Calm(run'[r], kind)
         /\ pc'[r] = "next"
  BY DEF Unasked, Goto, ShapeInv, Fields, Calm

\* An answer that serves: the action was none of a sync's, it failed, or an agent is there.
LEMMA AnswersWell ==
  ASSUME ShapeInv, NEW r \in Runner, PlanInv(r), run[r].plan # <<>>, pc[r] \in AtWork,
         NEW isFailure, Answered(r, isFailure), NEW kind,
         \/ isFailure
         \/ Now(r).kind \notin {"adopt", "staff"}
         \/ Now(r).path \in Ground => Staffed(Now(r).path)
  PROVE  Handles(pc[r], run[r], pc'[r], run'[r], kind)
  <1>1. IsSeq(run[r].plan)
    BY DEF PlanInv, SoundPlan
  <1>2. "next" \notin AtRest \cup Collecting \cup CloseAt /\ pc[r] \notin AtRest \cup Collecting
    BY DEF AtRest, Collecting, CloseAt, AtWork, StaffAt, PruneAt
  <1> QED BY <1>1, <1>2, AnsweredCalm DEF Handles, ClosedInv, Now

LEMMA UnaskedWell ==
  ASSUME ShapeInv, NEW r \in Runner, PlanInv(r), run[r].plan # <<>>, pc[r] \in AtWork,
         Unasked(r), NEW kind
  PROVE  Handles(pc[r], run[r], pc'[r], run'[r], kind)
  <1>1. IsSeq(run[r].plan)
    BY DEF PlanInv, SoundPlan
  <1>2. "next" \notin AtRest \cup Collecting \cup CloseAt /\ pc[r] \notin AtRest \cup Collecting
    BY DEF AtRest, Collecting, CloseAt, AtWork, StaffAt, PruneAt
  <1> QED BY <1>1, <1>2, UnaskedCalm DEF Handles, ClosedInv

LEMMA SeesWhoIsThere == KnowsAgents(ListedAgents)
  BY DEF ListedAgents, KnowsAgents, Warm, Hosted

\* The next action: it is looked at, or was only there to be read.
LEMMA TakesUp ==
  ASSUME ShapeInv, NEW r \in Runner, PlanInv(r), NEW kind, TakeAction(r)
  PROVE  Handles(pc[r], run[r], pc'[r], run'[r], kind)
  <1>1. /\ pc[r] = "next" /\ pc[r] \in AtWork /\ run[r].plan # <<>> /\ Sound(Now(r))
        /\ IsSeq(run[r].plan)
    BY NowIs DEF TakeAction, AtWork, PlanInv, SoundPlan
  <1>2. CASE Now(r).kind \in {"keep", "ghost"}
    <2>1. run' = [run EXCEPT ![r].plan = Tail(run[r].plan)] /\ pc' = pc
      BY <1>2 DEF TakeAction
    <2>2. /\ run'[r].plan = Tail(run[r].plan) /\ run'[r].snap = run[r].snap
          /\ run'[r].trail = run[r].trail /\ run'[r].opened = run[r].opened
          /\ Calm(run'[r], kind) => Calm(run[r], kind)
      BY <2>1 DEF ShapeInv, Fields, Calm
    <2> QED BY <1>1, <1>2, <2>1, <2>2
        DEF Handles, ClosedInv, Now, AtRest, Collecting, CloseAt
  <1>3. CASE Now(r).kind \notin {"keep", "ghost"}
    <2>1. run' = run /\ pc'[r] = FirstGuard(Now(r).kind)
      BY <1>3 DEF TakeAction, Goto, ShapeInv
    <2>2. pc'[r] \in {"open", "staffAgents", "pruneDirty", "closeStat"}
      BY <1>1, <1>3, <2>1 DEF Sound, FirstGuard
    <2> QED BY <1>1, <2>1, <2>2, HoldsIs, HoldsHandles DEF AtWork, StaffAt, PruneAt, CloseAt
  <1> QED BY <1>2, <1>3

LEMMA ReadsWhoIsThere ==
  ASSUME ShapeInv, NEW r \in Runner, PlanInv(r), run[r].plan # <<>>, NEW kind,
         NEW label, NEW nextLabel, ReadAgents(r, label, nextLabel),
         label \in AtWork, nextLabel \in AtWork,
         nextLabel \in CloseAt => nextLabel # "closeStat" /\ Now(r).path \notin onDisk
  PROVE  Handles(pc[r], run[r], pc'[r], run'[r], kind)
  <1>1. pc[r] \in AtWork
    BY DEF ReadAgents
  <1>2. CASE Unasked(r)
    BY <1>1, <1>2, UnaskedWell
  <1>3. CASE ~Unasked(r)
    <2>1. run' = [run EXCEPT ![r].seen = ListedAgents] /\ pc'[r] = nextLabel
      BY <1>3 DEF ReadAgents, Goto, ShapeInv
    <2>2. Holds(r) /\ run'[r].seen = ListedAgents
      <3> HIDE DEF ListedAgents
      <3>1. run'[r].seen = ListedAgents
        BY <2>1 DEF ShapeInv, Fields
      <3> QED BY <2>1, <3>1, HoldsIs
    <2> QED BY <1>1, <2>1, <2>2, HoldsHandles, SeesWhoIsThere
  <1> QED BY <1>2, <1>3

\* The action in hand is on its checkout while there is one.
LEMMA HandOnIt ==
  ASSUME WorldInv, NEW r \in Runner, PlanInv(r), NEW kind, SyncInv(pc[r], run[r], kind),
         Doing(r, "staff"), Now(r).path \in onDisk
  PROVE  /\ Now(r).workspace \in WS /\ held[Now(r).workspace] = Now(r).path
         /\ held[Now(r).workspace] # NoTree
         /\ Now(r).pane \in Range(PanesOf[Now(r).workspace])
  <1>1. Sound(Now(r)) /\ Now(r) = run[r].plan[1] /\ 1 \in DOMAIN run[r].plan
    BY NowIs, TailIs DEF Doing, PlanInv, SoundPlan, Now
  <1>2. OnIt(Now(r).workspace, Now(r).path)
    BY <1>1 DEF SyncInv, TodoInv, StaffsOnIt, Doing
  <1>3. NoTree \notin onDisk
    BY WorldAssumption DEF WorldInv, TypeOK
  <1> QED BY <1>1, <1>2, <1>3 DEF Sound, Doing, OnIt

LEMMA StaffsWell ==
  ASSUME WorldInv, ShapeInv, NEW r \in Runner, PlanInv(r), DoingInv(r), NEW kind,
         SyncInv(pc[r], run[r], kind),
         \/ ReadAgents(r, "staffAgents", "staffPanes") \/ StaffPanes(r) \/ AgentPaneBusy(r)
         \/ AgentStartFails(r) \/ AgentStarted(r)
  PROVE  Handles(pc[r], run[r], pc'[r], run'[r], kind)
  <1>1. pc[r] \in StaffAt /\ pc[r] \in AtWork /\ Doing(r, "staff") /\ run[r].plan # <<>>
    BY DEF ReadAgents, StaffPanes, AgentPaneBusy, AgentStartFails, AgentStarted, DoingInv, Doing,
           StaffAt, AtWork
  <1>2. ASSUME Now(r).path \in onDisk
        PROVE  /\ Now(r).workspace \in WS /\ held[Now(r).workspace] = Now(r).path
               /\ held[Now(r).workspace] # NoTree
               /\ Now(r).pane \in Range(PanesOf[Now(r).workspace])
    BY <1>1, <1>2, HandOnIt
  <1>3. CASE ReadAgents(r, "staffAgents", "staffPanes")
    BY <1>1, <1>3, ReadsWhoIsThere DEF AtWork, StaffAt, CloseAt
  <1>4. CASE StaffPanes(r)
    <2>1. ASSUME held[Now(r).workspace] = NoTree \/ SeenIn(r, Now(r).workspace) # {},
                 Now(r).path \in Ground
          PROVE  Staffed(Now(r).path)
      <3>1. Now(r).path \in onDisk
        BY <2>1 DEF Ground
      <3>2. PICK p \in Range(PanesOf[Now(r).workspace]) : p \in DOMAIN run[r].seen
        BY <1>2, <2>1, <3>1 DEF SeenIn
      <3>3. Warm(p)
        BY <1>4, <3>2 DEF StaffPanes, SyncInv, TodoInv, KnowsAgents
      <3>4. agent[p] # "none"
        BY <1>2, <3>1, <3>2, <3>3 DEF Warm
      <3> QED BY <1>2, <3>1, <3>2, <3>4 DEF Staffed, PanesOn, OnTree
    <2>2. CASE Answered(r, FALSE) /\ (held[Now(r).workspace] = NoTree \/ SeenIn(r, Now(r).workspace) # {})
      BY <1>1, <2>1, <2>2, AnswersWell
    <2>3. CASE Unasked(r)
      BY <1>1, <2>3, UnaskedWell
    <2>4. CASE Goto(r, "staffStart") /\ UNCHANGED run
      <3>1. pc'[r] = "staffStart"
        BY <2>4 DEF Goto, ShapeInv
      <3> QED BY <1>1, <2>4, <3>1, HoldsIs, HoldsHandles DEF AtWork, StaffAt, CloseAt
    <2> QED BY <1>4, <2>2, <2>3, <2>4 DEF StaffPanes
  <1>5. CASE AgentPaneBusy(r)
    <2>1. CASE Answered(r, TRUE)
      BY <1>1, <2>1, AnswersWell
    <2>2. CASE ~Answered(r, TRUE)
      <3>1. run' = [run EXCEPT ![r].tries = run[r].tries + 1, ![r].seen = <<>>] /\ pc'[r] = "staffAgents"
        BY <1>5, <2>2 DEF AgentPaneBusy, Goto, ShapeInv
      <3>2. \E x, y : run' = [run EXCEPT ![r].tries = x, ![r].seen = y]
        BY <3>1
      <3> QED BY <1>1, <3>1, <3>2, HoldsIs, HoldsHandles DEF AtWork, StaffAt, CloseAt
    <2> QED BY <2>1, <2>2
  <1>6. CASE AgentStartFails(r)
    BY <1>1, <1>6, AnswersWell DEF AgentStartFails
  <1>7. CASE AgentStarted(r)
    <2>1. ASSUME agent[Now(r).pane] # "none", Now(r).path \in Ground PROVE Staffed(Now(r).path)
      BY <1>2, <2>1 DEF Ground, Staffed, PanesOn, OnTree
    <2>2. CASE Answered(r, agent[Now(r).pane] = "none")
      BY <1>1, <2>1, <2>2, AnswersWell
    <2>3. CASE ~Answered(r, agent[Now(r).pane] = "none")
      <3>1. /\ run' = [run EXCEPT ![r].plan = Tail(@), ![r].seen = <<>>, ![r].target = NoWS,
                          ![r].failed = TRUE, ![r].gaveUp = @ \cup {Now(r).pane}]
            /\ pc'[r] = "next"
        BY <1>7, <2>3 DEF AgentStarted, Goto, ShapeInv
      <3>2. /\ run'[r].plan = Tail(run[r].plan) /\ run'[r].snap = run[r].snap
            /\ run'[r].trail = run[r].trail /\ run'[r].opened = run[r].opened
            /\ ~Calm(run'[r], kind)
        BY <3>1 DEF ShapeInv, Fields, Calm
      <3>3. IsSeq(run[r].plan)
        BY DEF PlanInv, SoundPlan
      <3> QED BY <1>1, <3>1, <3>2, <3>3
          DEF Handles, ClosedInv, AtRest, Collecting, CloseAt, StaffAt
    <2> QED BY <2>2, <2>3
  <1> QED BY <1>3, <1>4, <1>5, <1>6, <1>7

\* Pruning and closing are no part of a sync, and a sync's checkouts are not theirs.
LEMMA PrunesWell ==
  ASSUME ShapeInv, NEW r \in Runner, PlanInv(r), DoingInv(r), NEW kind,
         \/ PruneDirty(r) \/ PruneHolder(r) \/ ReadAgents(r, "pruneAgents", "prunePanes")
         \/ PrunePanes(r) \/ PruneCaller(r) \/ RemoveFails(r)
  PROVE  Handles(pc[r], run[r], pc'[r], run'[r], kind)
  <1>1. /\ pc[r] \in PruneAt /\ pc[r] \in AtWork /\ run[r].plan # <<>> /\ Now(r).kind = "prune"
        /\ Now(r).kind \notin {"adopt", "staff"}
    BY DEF ReadAgents, PruneDirty, PruneHolder, PrunePanes, PruneCaller, RemoveFails, DoingInv,
           Doing, PruneAt, AtWork
  <1>2. CASE ReadAgents(r, "pruneAgents", "prunePanes")
    BY <1>1, <1>2, ReadsWhoIsThere DEF AtWork, PruneAt, CloseAt
  <1>3. CASE Answered(r, FALSE) \/ Answered(r, TRUE)
    BY <1>1, <1>3, AnswersWell
  <1>4. CASE /\ \E label \in PruneAt : Goto(r, label)
             /\ run' = run \/ \E x : run' = [run EXCEPT ![r].target = x]
    <2>1. pc'[r] \in PruneAt
      BY <1>4 DEF Goto, ShapeInv
    <2> QED BY <1>1, <1>4, <2>1, HoldsIs, HoldsHandles DEF AtWork, PruneAt, CloseAt
  <1> QED BY <1>2, <1>3, <1>4
      DEF PruneDirty, PruneHolder, PrunePanes, PruneCaller, RemoveFails, PruneAt

LEMMA ClosesWell ==
  ASSUME ShapeInv, NEW r \in Runner, PlanInv(r), DoingInv(r), ClosedInv(pc[r], run[r]), NEW kind,
         \/ CloseStat(r) \/ CloseReport(r) \/ ReadAgents(r, "closeAgents", "closePanes")
         \/ ClosePanes(r) \/ CloseFails(r)
  PROVE  Handles(pc[r], run[r], pc'[r], run'[r], kind)
  <1>1. /\ pc[r] \in CloseAt /\ pc[r] \in AtWork /\ run[r].plan # <<>> /\ Now(r).kind = "close-ghost"
        /\ Now(r).kind \notin {"adopt", "staff"}
    BY DEF ReadAgents, CloseStat, CloseReport, ClosePanes, CloseFails, DoingInv, Doing, CloseAt, AtWork
  <1>2. Now(r).path \notin onDisk \/ (CloseStat(r) /\ Answered(r, FALSE))
    BY <1>1 DEF ReadAgents, CloseStat, CloseReport, ClosePanes, CloseFails, ClosedInv, CloseAt, Now
  <1>3. CASE ReadAgents(r, "closeAgents", "closePanes")
    <2>1. Now(r).path \notin onDisk
      BY <1>3 DEF ReadAgents, ClosedInv, CloseAt, Now
    <2> QED BY <1>1, <1>3, <2>1, ReadsWhoIsThere DEF AtWork, CloseAt
  <1>4. CASE Answered(r, FALSE) \/ Answered(r, TRUE)
    BY <1>1, <1>4, AnswersWell
  <1>5. CASE (\E label \in CloseAt : Goto(r, label)) /\ run' = run /\ Now(r).path \notin onDisk
    <2>1. pc'[r] \in CloseAt
      BY <1>5 DEF Goto, ShapeInv
    <2> QED BY <1>1, <1>5, <2>1, HoldsIs, HoldsHandles DEF AtWork, CloseAt
  <1> QED BY <1>2, <1>3, <1>4, <1>5
      DEF CloseStat, CloseReport, ClosePanes, CloseFails, CloseAt

\* A pass that is over and reports no failure has served every checkout, or left a
\* workspace to the pass that trails.
LEMMA PassesWell ==
  ASSUME ShapeInv, NEW r \in Runner, NEW kind, kind = Kind[r], SyncInv(pc[r], run[r], kind),
         PassOver(r)
  PROVE  SyncInv(pc'[r], run'[r], kind)
  <1>1. pc[r] = "next" /\ run[r].plan = <<>>
    BY DEF PassOver
  <1>2. ASSUME Calm(run[r], kind), NEW t \in Ground
        PROVE  Staffed(t) \/ (~run[r].trail /\ Housed(t) /\ run[r].opened)
    BY <1>1, <1>2 DEF SyncInv, TodoInv, Serves, Planned, AtRest, Collecting
  <1>3. ASSUME UNCHANGED run, pc'[r] = "done",
               Kind[r] = "apply" \/ run[r].failed \/ run[r].trail \/ ~run[r].opened
        PROVE  SyncInv(pc'[r], run'[r], kind)
    <2>1. SnapInv(pc'[r], run'[r], kind)
      BY <1>3 DEF SyncInv, SnapInv
    <2>2. Calm(run[r], kind) => \A t \in Ground : Staffed(t)
      BY <1>2, <1>3 DEF Calm
    <2> QED BY <1>3, <2>1, <2>2 DEF SyncInv, TrailInv, TodoInv, ClosedInv, AtRest, CloseAt
  <1>4. ASSUME run' = [run EXCEPT ![r] = [Again(r) EXCEPT !.phase = @ + 1]], pc'[r] = "trees"
        PROVE  SyncInv(pc'[r], run'[r], kind)
    <2>1. /\ run'[r].snap = EmptyState /\ run'[r].plan = run[r].plan
          /\ run'[r].trail = run[r].trail
          /\ Calm(run'[r], kind) => Calm(run[r], kind)
      BY <1>4 DEF Again, ShapeInv, Fields, Calm
    <2>2. SnapInv(pc'[r], run'[r], kind)
      BY <1>4, <2>1, NothingKnown
    <2>3. TrailInv(run'[r], kind)
      BY <2>1 DEF SyncInv, TrailInv
    <2> QED BY <1>4, <2>1, <2>2, <2>3 DEF SyncInv, TodoInv, ClosedInv, AtRest, Collecting, CloseAt
  <1>5. ASSUME run' = [run EXCEPT ![r] = [Again(r) EXCEPT !.trail = TRUE]], pc'[r] = "trees"
        PROVE  SyncInv(pc'[r], run'[r], kind)
    <2>1. /\ run'[r].snap = EmptyState /\ run'[r].plan = run[r].plan
          /\ Calm(run'[r], kind) => Calm(run[r], kind)
      BY <1>5 DEF Again, ShapeInv, Fields, Calm
    <2>2. SnapInv(pc'[r], run'[r], kind)
      BY <1>5, <2>1, NothingKnown
    <2>3. ASSUME NEW t, Staffed(t) PROVE Housed(t)
      BY <2>3 DEF Staffed, PanesOn, Housed
    <2>4. TrailInv(run'[r], kind)
      BY <1>2, <2>1, <2>3 DEF TrailInv
    <2> QED BY <1>5, <2>1, <2>2, <2>4 DEF SyncInv, TodoInv, ClosedInv, AtRest, Collecting, CloseAt
  <1> QED BY <1>3, <1>4, <1>5 DEF PassOver, Goto, ShapeInv

\* The steps that act, seen from the world they leave.
LEMMA ActsWell ==
  ASSUME WorldInv, ShapeInv, NEW r \in Runner, PlanInv(r), DoingInv(r), NEW kind,
         ClosedInv(pc[r], run[r]),
         \/ WorktreeOpen(r) \/ AgentStart(r) \/ RemoveCheckout(r) \/ DropBranch(r)
         \/ CloseWorkspace(r),
         NEW a, NEW m, NEW b, NEW n, a = pc[r], m = run[r], b = pc'[r], n = run'[r]
  PROVE  Handles(a, m, b, n, kind)'
  <1>1. /\ pc[r] \in AtWork /\ run[r].plan # <<>> /\ IsSeq(run[r].plan)
        /\ "next" \notin AtRest \cup Collecting \cup CloseAt /\ pc[r] \notin AtRest \cup Collecting
    BY DEF WorktreeOpen, AgentStart, RemoveCheckout, DropBranch, CloseWorkspace, DoingInv,
           Doing, StaffAt, PruneAt, CloseAt, AtWork, PlanInv, SoundPlan, AtRest, Collecting
  <1>2. Calm(m, kind)' = Calm(m, kind) /\ Calm(n, kind)' = Calm(n, kind)
    BY DEF Calm
  <1>3. ASSUME NEW x, Answered(r, x), x \/ Now(r).kind \notin {"adopt", "staff"}
        PROVE  Handles(a, m, b, n, kind)'
    BY <1>1, <1>2, <1>3, AnsweredCalm DEF Handles, ClosedInv, Now
  <1>4. CASE WorktreeOpen(r)
    <2>1. CASE Answered(r, TRUE)
      BY <1>3, <2>1
    <2>2. CASE ~Answered(r, TRUE)
      <3>1. PICK w \in WS \ used : held' = [held EXCEPT ![w] = Now(r).path]
        BY <1>4, <2>2 DEF WorktreeOpen
      <3>2. held \in [WS -> Tree \cup {NoTree}]
        BY DEF WorldInv, TypeOK
      <3>3. Housed(Head(m.plan).path)'
        BY <3>1, <3>2 DEF Housed, OnTree, Now
      <3>4. /\ run' = [run EXCEPT ![r].plan = Tail(@), ![r].opened = TRUE] /\ pc'[r] = "next"
        BY <1>4, <2>2 DEF WorktreeOpen, Goto, ShapeInv
      <3>5. /\ n.plan = Tail(m.plan) /\ n.snap = m.snap /\ n.trail = m.trail /\ n.opened
            /\ Calm(n, kind) => Calm(m, kind)
        BY <3>4 DEF ShapeInv, Fields, Calm
      <3>6. Head(m.plan).kind = "adopt"
        BY <1>4 DEF WorktreeOpen, DoingInv, Doing, Now
      <3> QED BY <1>1, <1>2, <3>3, <3>4, <3>5, <3>6 DEF Handles, ClosedInv
    <2> QED BY <2>1, <2>2
  <1>5. CASE AgentStart(r)
    <2>1. run' = run /\ pc'[r] = "staffWait"
      BY <1>5 DEF AgentStart, Goto, ShapeInv
    <2> QED BY <1>1, <1>2, <2>1 DEF Handles, ClosedInv, AtRest, Collecting, CloseAt
  <1>6. CASE RemoveCheckout(r)
    <2>1. Now(r).kind = "prune"
      BY <1>6 DEF RemoveCheckout, DoingInv, Doing, PruneAt
    <2>2. CASE Answered(r, TRUE)
      BY <1>3, <2>2
    <2>3. CASE ~Answered(r, TRUE)
      <3>1. run' = run /\ pc'[r] = "pruneBranch"
        BY <1>6, <2>3 DEF RemoveCheckout, Goto, ShapeInv
      <3> QED BY <1>1, <1>2, <3>1 DEF Handles, ClosedInv, AtRest, Collecting, CloseAt
    <2> QED BY <2>2, <2>3
  <1>7. CASE DropBranch(r)
    <2>1. Now(r).kind = "prune" /\ Answered(r, FALSE)
      BY <1>7 DEF DropBranch, DoingInv, Doing, PruneAt
    <2> QED BY <1>3, <2>1
  <1>8. CASE CloseWorkspace(r)
    <2>1. Now(r).kind = "close-ghost" /\ \E x : Answered(r, x)
      BY <1>8 DEF CloseWorkspace, DoingInv, Doing, CloseAt
    <2> QED BY <1>3, <2>1
  <1> QED BY <1>4, <1>5, <1>6, <1>7, <1>8

-----------------------------------------------------------------------------
(* The invariant of a world left alone *)

\* The step of a runner, seen from the world it leaves.
LEMMA SyncSteps ==
  ASSUME IInv, NEW r \in Runner, SyncInv(pc[r], run[r], Kind[r]), Settling,
         Collect(r) \/ Execute(r)
  PROVE  SyncInv(pc[r], run[r], Kind[r])'
  <1>1. WorldInv /\ ShapeInv /\ PlanInv(r) /\ DoingInv(r)
    BY DEF IInv, RunnerInv
  <1>2. PICK a, m, b, n, kind : a = pc[r] /\ m = run[r] /\ b = pc'[r] /\ n = run'[r] /\ kind = Kind[r]
    OBVIOUS
  <1>3. kind = scene'.kind[r]
    <2>1. scene' = scene
      BY CollectReads, ExecuteReads
         DEF Reading, Watch, WorktreeOpen, AgentStart, RemoveCheckout, DropBranch, CloseWorkspace
    <2> QED BY <1>2, <2>1 DEF Kind
  <1>4. SyncInv(a, m, kind)
    BY <1>2
  <1>5. SyncInv(a, m, kind)'
    BY <1>1, <1>4, SyncStays
  <1>6. ASSUME SyncInv(b, n, kind) PROVE SyncInv(b, n, kind)'
    BY <1>1, <1>6, SyncStays
  <1>7. SyncInv(b, n, kind)'
    <2>1. CASE Collect(r) \/ PassOver(r)
      BY <1>1, <1>2, <1>4, <1>6, <2>1, CollectsOn, PassesWell
    <2>2. ASSUME Handles(a, m, b, n, kind) PROVE SyncInv(b, n, kind)'
      BY <1>4, <1>6, <2>2, Handled
    <2>3. ASSUME Handles(pc[r], run[r], pc'[r], run'[r], kind) PROVE SyncInv(b, n, kind)'
      BY <1>2, <2>2, <2>3
    <2>4. CASE /\ \/ WorktreeOpen(r) \/ AgentStart(r) \/ RemoveCheckout(r) \/ DropBranch(r)
                  \/ CloseWorkspace(r)
      <3>1. ClosedInv(pc[r], run[r])
        BY DEF SyncInv
      <3>2. Handles(a, m, b, n, kind)'
        BY <1>1, <1>2, <2>4, <3>1, ActsWell
      <3> QED BY <1>5, <3>2, HandledNext
    <2>5. CASE TakeAction(r)
      BY <1>1, <2>3, <2>5, TakesUp
    <2>6. CASE \/ ReadAgents(r, "staffAgents", "staffPanes") \/ StaffPanes(r) \/ AgentPaneBusy(r)
               \/ AgentStartFails(r) \/ AgentStarted(r)
      BY <1>1, <1>2, <2>3, <2>6, StaffsWell
    <2>7. CASE \/ PruneDirty(r) \/ PruneHolder(r) \/ ReadAgents(r, "pruneAgents", "prunePanes")
               \/ PrunePanes(r) \/ PruneCaller(r) \/ RemoveFails(r)
      BY <1>1, <2>3, <2>7, PrunesWell
    <2>8. CASE \/ CloseStat(r) \/ CloseReport(r) \/ ReadAgents(r, "closeAgents", "closePanes")
               \/ ClosePanes(r) \/ CloseFails(r)
      BY <1>1, <2>3, <2>8, ClosesWell DEF SyncInv
    <2> QED BY <2>1, <2>4, <2>5, <2>6, <2>7, <2>8 DEF Execute
  <1> QED BY <1>2, <1>3, <1>7, SyncComes

\* The others, and whoever looks on, know no less.
LEMMA SyncWaits ==
  ASSUME IInv, NEW r \in Runner, SyncInv(pc[r], run[r], Kind[r]), Settling,
         run'[r] = run[r], pc'[r] = pc[r], scene' = scene
  PROVE  SyncInv(pc[r], run[r], Kind[r])'
  <1>1. PICK a, m, kind : a = pc[r] /\ m = run[r] /\ kind = Kind[r]
    OBVIOUS
  <1>2. SyncInv(a, m, kind)'
    BY <1>1, SyncStays DEF IInv
  <1> QED BY <1>1, <1>2, SyncComes DEF Kind

LEMMA AloneStarts == Init => AloneInv
  <1> SUFFICES ASSUME Init, NEW r \in Runner PROVE SyncInv(pc[r], run[r], Kind[r])
    BY DEF AloneInv
  <1>1. run[r] = Fresh /\ (pc[r] = "idle" \/ (pc[r] = "done" /\ Kind[r] = "none"))
    <2>1. /\ run = [q \in Runner |-> Fresh]
          /\ pc = [q \in Runner |-> IF Kind[q] = "none" THEN "done" ELSE "idle"]
      BY DEF Init
    <2> HIDE DEF Init
    <2> QED BY <2>1
  <1>2. SnapInv(pc[r], run[r], Kind[r])
    BY <1>1, NothingKnown DEF Fresh
  <1>3. TrailInv(run[r], Kind[r])
    BY <1>1 DEF TrailInv, Fresh
  <1>4. StaffsOnIt(run[r].plan)
    BY <1>1 DEF StaffsOnIt, Fresh
  <1> QED BY <1>1, <1>2, <1>3, <1>4
      DEF SyncInv, TodoInv, ClosedInv, AtRest, CloseAt, Calm

LEMMA AloneSteps == IInv /\ AloneInv /\ [Next]_vars => AloneInv'
  <1> SUFFICES ASSUME IInv, AloneInv, [Next]_vars, moves' = 0, NEW r \in Runner
               PROVE  SyncInv(pc[r], run[r], Kind[r])'
    BY DEF AloneInv
  <1>1. Settling /\ moves = 0 /\ SyncInv(pc[r], run[r], Kind[r])
    BY Settles DEF AloneInv
  <1>2. CASE Collect(r) \/ Execute(r)
    BY <1>1, <1>2, SyncSteps
  <1>3. CASE ~(Collect(r) \/ Execute(r))
    <2>1. ASSUME Environment \/ UNCHANGED vars
          PROVE  run'[r] = run[r] /\ pc'[r] = pc[r] /\ scene' = scene
      BY <2>1, OthersAct DEF Elsewhere, Watch, vars, IInv, ShapeInv
    <2>2. ASSUME NEW q \in Runner \ {r}, Collect(q) \/ Execute(q)
          PROVE  run'[r] = run[r] /\ pc'[r] = pc[r] /\ scene' = scene
      <3>1. Alone(q)
        BY <2>2, WorldStep, RunnerMoves DEF IInv
      <3>2. scene' = scene
        BY <2>2, CollectReads, ExecuteReads
           DEF Reading, Watch, WorktreeOpen, AgentStart, RemoveCheckout, DropBranch, CloseWorkspace
      <3> QED BY <3>1, <3>2 DEF Alone
    <2> QED BY <1>1, <1>3, <2>1, <2>2, SyncWaits DEF Next
  <1> QED BY <1>2, <1>3

\* Left alone, a sync that reports success and could ask about every workspace leaves an
\* agent in every linked checkout, those it opened itself included, whatever other
\* invocations do beside it: the trailing pass of reconcileOpen.
THEOREM SyncsConverge == Spec => []SyncConverges
  <1>1. Init /\ [][Next]_vars /\ []IInv => []AloneInv
    BY AloneStarts, AloneSteps, PTL
  <1>2. AloneInv => SyncConverges
    BY DEF AloneInv, SyncInv, TodoInv, SyncConverges, Calm, Ground, Staffed
  <1> QED BY <1>1, <1>2, Invariant, PTL DEF Spec

(***************************************************************************)
(* Left alone, nothing is opened twice.                                    *)
(***************************************************************************)

\* One runner at a time, with nothing planned before it has read and when it is done.
TurnInv ==
  /\ \A q, r \in Runner : q # r => pc[q] \in AtRest \/ pc[r] \in AtRest
  /\ \A r \in Runner : pc[r] \in AtRest \cup Collecting => run[r].plan = <<>>
  /\ \A r \in Runner : Kind[r] = "none" => pc[r] = "done"

\* A launch under way is waited for, or its runner has given it up.
GivenUp(p) == \E r \in Runner : p \in run[r].gaveUp
StartingInv ==
  \A p \in Pane : agent[p] = "starting" =>
    GivenUp(p) \/ \E r \in Runner : pc[r] = "staffWait" /\ Now(r).pane = p
DoubledInv == \A p \in doubled : GivenUp(p)

\* Where the listing does not lag it has every open workspace.
KnownInv == ~Lags => \A w \in WS : held[w] # NoTree => w \in listed

\* No two workspaces are on one checkout, and none is on one about to get a workspace.
ApartInv == \A v, w \in WS : held[v] = held[w] /\ held[v] # NoTree => v = w
TreesApart(snap) ==
  /\ \A i, j \in DOMAIN snap.worktrees : snap.worktrees[i].path = snap.worktrees[j].path => i = j
  /\ \A i \in DOMAIN snap.worktrees :
       snap.worktrees[i].workspace = NoWS => OnTree(snap.worktrees[i].path) = {}
AdoptsApart(plan) ==
  /\ \A i \in DOMAIN plan : plan[i].kind = "adopt" => OnTree(plan[i].path) = {}
  /\ \A i, j \in DOMAIN plan :
       plan[i].kind = "adopt" /\ plan[j].kind = "adopt" /\ plan[i].path = plan[j].path => i = j
OpeningInv(at, m, kind) ==
  /\ kind # "apply" /\ at \in Collecting \ {"trees"} => TreesApart(m.snap)
  /\ AdoptsApart(m.plan)

OnceInv ==
  /\ TurnInv /\ StartingInv /\ DoubledInv /\ KnownInv
  /\ moves = 0 => ApartInv /\ \A r \in Runner : OpeningInv(pc[r], run[r], Kind[r])

-----------------------------------------------------------------------------
(* Taking turns *)

\* What a step of an executor leaves of its plan.
Works(r) ==
  /\ pc[r] \notin AtRest \cup Collecting /\ pc'[r] \notin AtRest \cup Collecting
  /\ \/ run'[r].plan = run[r].plan
     \/ run[r].plan # <<>> /\ run'[r].plan = Tail(run[r].plan)
  /\ run[r].gaveUp \subseteq run'[r].gaveUp
  /\ pc[r] = "staffWait" => AgentStarted(r)

LEMMA WorksAnswered ==
  ASSUME ShapeInv, NEW r \in Runner, NEW isFailure, Answered(r, isFailure) \/ Unasked(r)
  PROVE  /\ run'[r].plan = Tail(run[r].plan) /\ run'[r].gaveUp = run[r].gaveUp
         /\ pc'[r] = "next"
  <1>1. CASE Answered(r, isFailure)
    BY <1>1 DEF Answered, Goto, ShapeInv, Fields
  <1>2. CASE Unasked(r)
    BY <1>2 DEF Unasked, Goto, ShapeInv, Fields
  <1> QED BY <1>1, <1>2

LEMMA WorksHolding ==
  ASSUME ShapeInv, NEW r \in Runner, NEW label, Goto(r, label),
         \/ run' = run
         \/ \E x : run' = [run EXCEPT ![r].target = x]
         \/ \E x : run' = [run EXCEPT ![r].seen = x]
         \/ \E x, y : run' = [run EXCEPT ![r].tries = x, ![r].seen = y]
  PROVE  run'[r].plan = run[r].plan /\ run'[r].gaveUp = run[r].gaveUp /\ pc'[r] = label
  BY DEF Goto, ShapeInv, Fields

LEMMA ExecuteWorks ==
  ASSUME ShapeInv, NEW r \in Runner, PlanInv(r), DoingInv(r), Execute(r), ~PassOver(r)
  PROVE  Works(r)
  <1> USE DEF AtRest, Collecting
  <1>1. CASE AgentStarted(r)
    <2>1. CASE \E x : Answered(r, x)
      BY <1>1, <2>1, WorksAnswered DEF AgentStarted, DoingInv, Doing, StaffAt, Works
    <2>2. CASE ~\E x : Answered(r, x)
      <3>1. /\ run' = [run EXCEPT ![r].plan = Tail(@), ![r].seen = <<>>, ![r].target = NoWS,
                          ![r].failed = TRUE, ![r].gaveUp = @ \cup {Now(r).pane}]
            /\ pc'[r] = "next"
        BY <1>1, <2>2 DEF AgentStarted, Goto, ShapeInv
      <3>2. run'[r].plan = Tail(run[r].plan) /\ run[r].gaveUp \subseteq run'[r].gaveUp
        BY <3>1 DEF ShapeInv, Fields
      <3> QED BY <1>1, <3>1, <3>2 DEF AgentStarted, DoingInv, Doing, StaffAt, Works
    <2> QED BY <2>1, <2>2
  <1>2. CASE TakeAction(r)
    <2>1. pc[r] = "next" /\ run[r].plan # <<>> /\ Sound(Now(r))
      BY <1>2, NowIs DEF TakeAction
    <2>2. CASE Now(r).kind \in {"keep", "ghost"}
      <3>1. run' = [run EXCEPT ![r].plan = Tail(run[r].plan)] /\ pc' = pc
        BY <1>2, <2>2 DEF TakeAction
      <3>2. run'[r].plan = Tail(run[r].plan) /\ run'[r].gaveUp = run[r].gaveUp
        BY <3>1 DEF ShapeInv, Fields
      <3> QED BY <2>1, <3>1, <3>2 DEF Works
    <2>3. CASE Now(r).kind \notin {"keep", "ghost"}
      <3>1. pc'[r] = FirstGuard(Now(r).kind) /\ run' = run
        BY <1>2, <2>3 DEF TakeAction, Goto, ShapeInv
      <3>2. pc'[r] \in {"open", "staffAgents", "pruneDirty", "closeStat"}
        BY <2>1, <2>3, <3>1 DEF Sound, FirstGuard
      <3> QED BY <2>1, <3>1, <3>2 DEF Works
    <2> QED BY <2>2, <2>3
  <1>3. CASE WorktreeOpen(r)
    <2>1. pc[r] = "open" /\ run[r].plan # <<>>
      BY <1>3 DEF WorktreeOpen, DoingInv, Doing
    <2>2. CASE Answered(r, TRUE)
      BY <2>1, <2>2, WorksAnswered DEF Works
    <2>3. CASE ~Answered(r, TRUE)
      <3>1. run' = [run EXCEPT ![r].plan = Tail(@), ![r].opened = TRUE] /\ pc'[r] = "next"
        BY <1>3, <2>3 DEF WorktreeOpen, Goto, ShapeInv
      <3>2. run'[r].plan = Tail(run[r].plan) /\ run'[r].gaveUp = run[r].gaveUp
        BY <3>1 DEF ShapeInv, Fields
      <3> QED BY <2>1, <3>1, <3>2 DEF Works
    <2> QED BY <2>2, <2>3
  <1>4. ASSUME pc[r] \in (StaffAt \ {"staffWait"}) \cup PruneAt \cup CloseAt,
               (\E x : Answered(r, x)) \/ Unasked(r)
        PROVE  Works(r)
    BY <1>4, WorksAnswered DEF DoingInv, Doing, StaffAt, PruneAt, CloseAt, Works
  <1>5. ASSUME pc[r] \in (StaffAt \ {"staffWait"}) \cup PruneAt \cup CloseAt,
               \E label \in StaffAt \cup PruneAt \cup CloseAt : Goto(r, label),
               \/ run' = run
               \/ \E x : run' = [run EXCEPT ![r].target = x]
               \/ \E x : run' = [run EXCEPT ![r].seen = x]
               \/ \E x, y : run' = [run EXCEPT ![r].tries = x, ![r].seen = y]
        PROVE  Works(r)
    BY <1>5, WorksHolding DEF StaffAt, PruneAt, CloseAt, Works
  <1>6. CASE \/ ReadAgents(r, "staffAgents", "staffPanes") \/ StaffPanes(r) \/ AgentStart(r)
             \/ AgentPaneBusy(r) \/ AgentStartFails(r)
    BY <1>4, <1>5, <1>6 DEF ReadAgents, StaffPanes, AgentStart, AgentPaneBusy, AgentStartFails, StaffAt
  <1>7. CASE \/ PruneDirty(r) \/ PruneHolder(r) \/ ReadAgents(r, "pruneAgents", "prunePanes")
             \/ PrunePanes(r) \/ PruneCaller(r) \/ RemoveCheckout(r) \/ RemoveFails(r) \/ DropBranch(r)
    BY <1>4, <1>5, <1>7
       DEF ReadAgents, PruneDirty, PruneHolder, PrunePanes, PruneCaller, RemoveCheckout, RemoveFails,
           DropBranch, PruneAt
  <1>8. CASE \/ CloseStat(r) \/ CloseReport(r) \/ ReadAgents(r, "closeAgents", "closePanes")
             \/ ClosePanes(r) \/ CloseWorkspace(r) \/ CloseFails(r)
    BY <1>4, <1>5, <1>8
       DEF ReadAgents, CloseStat, CloseReport, ClosePanes, CloseWorkspace, CloseFails, CloseAt
  <1> QED BY <1>1, <1>2, <1>3, <1>6, <1>7, <1>8 DEF Execute

SameTrees(r) ==
  /\ DOMAIN run'[r].snap.worktrees = DOMAIN run[r].snap.worktrees
  /\ \A k \in DOMAIN run[r].snap.worktrees :
       /\ run'[r].snap.worktrees[k].path = run[r].snap.worktrees[k].path
       /\ run'[r].snap.worktrees[k].workspace = run[r].snap.worktrees[k].workspace

\* What a step of a Collector leaves of the listing of checkouts.
LEMMA CollectIs ==
  ASSUME ShapeInv, NEW r \in Runner, PlanInv(r), Collect(r)
  PROVE  /\ run'[r].gaveUp = run[r].gaveUp
         /\ WorktreeList(r) \/ PlanIt(r) \/ CollectFails(r) \/ SameTrees(r)
  <1>1. CASE Begin(r) \/ ResolvedAll(r) \/ ListedPanes(r)
    <2>1. run' = run \/ run' = [run EXCEPT ![r].i = 1]
      BY <1>1 DEF Begin, ResolvedAll, ListedPanes
    <2> QED BY <2>1 DEF SameTrees, ShapeInv, Fields
  <1>2. CASE WorktreeList(r)
    <2>1. PICK x : run' = [run EXCEPT ![r].snap.worktrees = x]
      BY <1>2 DEF WorktreeList
    <2> QED BY <1>2, <2>1 DEF ShapeInv, Fields
  <1>3. CASE WorkspaceList(r)
    <2>1. PICK x : run' = [run EXCEPT ![r].snap.workspaces = x]
      BY <1>3 DEF WorkspaceList
    <2>2. run'[r].gaveUp = run[r].gaveUp /\ run'[r].snap.worktrees = run[r].snap.worktrees
      BY <2>1 DEF ShapeInv, Fields, SnapFields
    <2> QED BY <2>2 DEF SameTrees
  <1>4. CASE AgentList(r)
    <2>1. PICK x : run' = [run EXCEPT ![r].snap.agents = x, ![r].i = 1]
      BY <1>4 DEF AgentList
    <2>2. run'[r].gaveUp = run[r].gaveUp /\ run'[r].snap.worktrees = run[r].snap.worktrees
      BY <2>1 DEF ShapeInv, Fields, SnapFields
    <2> QED BY <2>2 DEF SameTrees
  <1>5. CASE Resolve(r)
    BY <1>5, ResolveIs DEF Keeps, SameTrees
  <1>6. CASE PaneList(r)
    <2> DEFINE i == run[r].i
    <2>1. CASE \E x : run' = [run EXCEPT ![r].snap.workspaces = x]
      <3>1. run'[r].gaveUp = run[r].gaveUp /\ run'[r].snap.worktrees = run[r].snap.worktrees
        BY <2>1 DEF ShapeInv, Fields, SnapFields
      <3> QED BY <3>1 DEF SameTrees
    <2>2. CASE \E x, y : run' = [run EXCEPT ![r].snap.workspaces[i].panes = x, ![r].i = y]
      <3>1. PICK x, y : run' = [run EXCEPT ![r].snap.workspaces[i].panes = x, ![r].i = y]
        BY <2>2
      <3>2. run'[r].gaveUp = run[r].gaveUp /\ run'[r].snap.worktrees = run[r].snap.worktrees
        BY <3>1 DEF ShapeInv, Fields, SnapFields
      <3> QED BY <3>2 DEF SameTrees
    <2> QED BY <1>6, <2>1, <2>2 DEF PaneList
  <1>7. CASE ReadGhostReport(r)
    <2>1. PICK p \in GhostPanes(r) \ DOMAIN run[r].snap.reports : \E answer :
            run' = [run EXCEPT ![r].snap.reports =
                     [q \in DOMAIN @ \cup {p} |-> IF q = p THEN answer ELSE @[q]]]
      BY <1>7 DEF ReadGhostReport
    <2>2. \E x : run' = [run EXCEPT ![r].snap.reports = x]
      BY <2>1
    <2>3. run'[r].gaveUp = run[r].gaveUp /\ run'[r].snap.worktrees = run[r].snap.worktrees
      BY <2>2 DEF ShapeInv, Fields, SnapFields
    <2> QED BY <2>3 DEF SameTrees
  <1>8. CASE CollectFails(r)
    BY <1>8 DEF CollectFails, ShapeInv, Fields
  <1>9. CASE PlanIt(r)
    <2>1. PICK x : run' = [run EXCEPT ![r].plan = x, ![r].snap = EmptyState, ![r].tries = 0]
      BY <1>9 DEF PlanIt
    <2> QED BY <1>9, <2>1 DEF ShapeInv, Fields
  <1> QED BY <1>1, <1>2, <1>3, <1>4, <1>5, <1>6, <1>7, <1>8, <1>9 DEF Collect

LEMMA CollectTurns ==
  ASSUME WorldInv, ShapeInv, NEW r \in Runner, PlanInv(r), Collect(r)
  PROVE  /\ pc[r] \in Collecting \/ Begin(r)
         /\ \/ PlanIt(r) /\ pc'[r] = "next"
            \/ pc'[r] \in Collecting \cup {"done"} /\ run'[r].plan = run[r].plan
         /\ pc[r] \in Collecting \cup {"idle"}
  <1>1. pc[r] \in Collecting \/ (Begin(r) /\ pc[r] = "idle")
    BY DEF Collect, Begin, WorktreeList, WorkspaceList, AgentList, Resolve, ResolvedAll, PaneList,
           ListedPanes, ReadGhostReport, CollectFails, PlanIt, Collecting
  <1>2. CASE PlanIt(r)
    BY <1>1, <1>2 DEF PlanIt, Goto, ShapeInv
  <1>3. CASE ~PlanIt(r)
    <2>1. run'[r].plan = run[r].plan
      BY <1>3, CollectStep DEF Reads
    <2>2. pc'[r] \in Collecting \cup {"done"}
      BY <1>3 DEF Collect, Begin, WorktreeList, WorkspaceList, AgentList, Resolve, ResolvedAll,
         PaneList, ListedPanes, ReadGhostReport, CollectFails, Collecting, Goto, ShapeInv
    <2> QED BY <1>1, <2>1, <2>2
  <1> QED BY <1>2, <1>3

LEMMA PassTurns ==
  ASSUME ShapeInv, NEW r \in Runner, PassOver(r)
  PROVE  /\ pc[r] = "next" /\ run[r].plan = <<>> /\ pc'[r] \in {"trees", "done"}
         /\ run'[r].plan = run[r].plan /\ run'[r].gaveUp = run[r].gaveUp
  <1>1. run' = run \/ \E x : \/ run' = [run EXCEPT ![r] = [Again(r) EXCEPT !.phase = x]]
                             \/ run' = [run EXCEPT ![r] = [Again(r) EXCEPT !.trail = x]]
    BY DEF PassOver, Again
  <1>2. run'[r].plan = run[r].plan /\ run'[r].gaveUp = run[r].gaveUp
    BY <1>1 DEF Again, ShapeInv, Fields
  <1> QED BY <1>2 DEF PassOver, Goto, ShapeInv

\* A step is one runner's while the others rest.
LEMMA OthersRest ==
  ASSUME WorldInv, ShapeInv, TurnInv, Serialised, NEW r \in Runner, PlanInv(r), DoingInv(r),
         Collect(r) \/ Execute(r)
  PROVE  \A q \in Runner \ {r} : pc[q] \in AtRest
  <1>1. CASE Begin(r)
    BY <1>1 DEF Begin, AtRest
  <1>2. CASE ~Begin(r)
    <2>1. pc[r] \notin AtRest
      BY <1>2, CollectTurns, PassTurns, ExecuteWorks DEF Collecting, AtRest, Works
    <2> QED BY <2>1 DEF TurnInv
  <1> QED BY <1>1, <1>2

LEMMA TurnSteps ==
  ASSUME WorldInv, ShapeInv, TurnInv, Serialised, NEW r \in Runner, PlanInv(r), DoingInv(r),
         Collect(r) \/ Execute(r), Alone(r), scene' = scene
  PROVE  TurnInv'
  <1>1. \A q \in Runner \ {r} : pc'[q] \in AtRest /\ run'[q] = run[q] /\ pc'[q] = pc[q]
    BY OthersRest DEF Alone
  <1>2. pc'[r] \in AtRest \cup Collecting => run'[r].plan = <<>>
    BY CollectTurns, PassTurns, ExecuteWorks DEF TurnInv, AtRest, Collecting, Works
  <1>3. Kind[r] # "none"
    BY CollectTurns, PassTurns, ExecuteWorks DEF TurnInv, AtRest, Collecting, Works
  <1>4. \A q \in Runner : Kind'[q] = Kind[q]
    BY DEF Kind
  <1>5. \A q, p \in Runner : q # p => pc'[q] \in AtRest \/ pc'[p] \in AtRest
    BY <1>1
  <1>6. \A q \in Runner : pc'[q] \in AtRest \cup Collecting => run'[q].plan = <<>>
    BY <1>1, <1>2 DEF TurnInv
  <1>7. \A q \in Runner : Kind'[q] = "none" => pc'[q] = "done"
    BY <1>1, <1>3, <1>4 DEF TurnInv
  <1> QED BY <1>5, <1>6, <1>7 DEF TurnInv

-----------------------------------------------------------------------------
(* Launches, and what the listing has *)

\* What else a step of a runner does to the agents: it makes none start.
LEMMA NobodyElseStarts ==
  ASSUME WorldInv, NEW r \in Runner, Collect(r) \/ Execute(r), ~AgentStart(r)
  PROVE  doubled' = doubled /\ \A p \in Pane : agent'[p] = "starting" => agent[p] = "starting"
  <1>1. CASE Reading
    BY <1>1 DEF Reading, world, herdrVars
  <1>2. CASE WorktreeOpen(r) \/ DropBranch(r)
    BY <1>2 DEF WorktreeOpen, DropBranch, herdrVars
  <1>3. CASE RemoveCheckout(r) \/ CloseWorkspace(r)
    <2>1. doubled' = doubled /\ \E spaces : CloseSpaces(spaces)
      BY <1>3 DEF RemoveCheckout, CloseWorkspace
    <2> QED BY <2>1 DEF CloseSpaces
  <1> QED BY <1>1, <1>2, <1>3, CollectReads, ExecuteReads

LEMMA LaunchSteps ==
  ASSUME WorldInv, ShapeInv, TurnInv, StartingInv, DoubledInv, Serialised, NEW r \in Runner,
         PlanInv(r), DoingInv(r), Collect(r) \/ Execute(r), Alone(r)
  PROVE  StartingInv' /\ DoubledInv'
  <1>1. run[r].gaveUp \subseteq run'[r].gaveUp
    BY CollectIs, PassTurns, ExecuteWorks DEF Works
  <1>2. \A p : GivenUp(p) => GivenUp(p)'
    BY <1>1 DEF GivenUp, Alone
  <1>3. ASSUME NEW p \in Pane, agent[p] = "starting", agent'[p] = "starting", ~AgentStart(r)
        PROVE  (GivenUp(p) \/ \E q \in Runner : pc[q] = "staffWait" /\ Now(q).pane = p)'
    <2>1. ASSUME NEW q \in Runner \ {r}, pc[q] = "staffWait", Now(q).pane = p
          PROVE  pc'[q] = "staffWait" /\ Now(q)'.pane = p
      BY <2>1 DEF Alone, Now
    <2>2. ASSUME pc[r] = "staffWait", Now(r).pane = p PROVE GivenUp(p)'
      <3>1. AgentStarted(r)
        BY <2>2, CollectTurns, PassTurns, ExecuteWorks DEF Works, Collecting
      <3>2. run' = [run EXCEPT ![r].plan = Tail(@), ![r].seen = <<>>, ![r].target = NoWS,
                      ![r].failed = TRUE, ![r].gaveUp = @ \cup {Now(r).pane}]
        BY <1>3, <2>2, <3>1 DEF AgentStarted
      <3>3. run'[r].gaveUp = run[r].gaveUp \cup {p}
        BY <2>2, <3>2 DEF ShapeInv, Fields
      <3> QED BY <3>3 DEF GivenUp
    <2> QED BY <1>2, <1>3, <2>1, <2>2 DEF StartingInv
  <1>4. CASE ~AgentStart(r)
    <2>1. StartingInv'
      BY <1>3, <1>4, NobodyElseStarts DEF StartingInv
    <2>2. DoubledInv'
      BY <1>2, <1>4, NobodyElseStarts DEF DoubledInv
    <2> QED BY <2>1, <2>2
  <1>5. CASE AgentStart(r)
    <2>1. /\ pc[r] = "staffStart" /\ pc'[r] = "staffWait" /\ run' = run
          /\ agent' = [agent EXCEPT ![Now(r).pane] = "starting"]
          /\ doubled' = IF agent[Now(r).pane] = "starting" THEN doubled \cup {Now(r).pane} ELSE doubled
      BY <1>5 DEF AgentStart, Goto, ShapeInv
    <2>2. \A q \in Runner : pc[q] = "staffWait" => q # r /\ pc'[q] = "staffWait"
      BY <2>1 DEF Alone
    <2>3. \A q \in Runner : Now(q)' = Now(q)
      BY <2>1 DEF Now
    <2>4. StartingInv'
      <3>1. agent \in [Pane -> Agents]
        BY DEF WorldInv, TypeOK
      <3>2. ASSUME NEW p \in Pane, agent'[p] = "starting", p # Now(r).pane
            PROVE  (GivenUp(p) \/ \E q \in Runner : pc[q] = "staffWait" /\ Now(q).pane = p)'
        BY <1>2, <2>1, <2>2, <2>3, <3>1, <3>2 DEF StartingInv
      <3> QED BY <2>1, <2>3, <3>2 DEF StartingInv
    <2>5. ASSUME agent[Now(r).pane] = "starting" PROVE GivenUp(Now(r).pane)
      <3>1. Now(r).pane \in Pane
        <4>1. Sound(Now(r)) /\ Now(r).kind = "staff"
          BY <2>1, NowIs DEF DoingInv, Doing, StaffAt
        <4> QED BY <4>1 DEF Sound, Pane
      <3>2. ~\E q \in Runner : pc[q] = "staffWait"
        BY <2>1 DEF TurnInv, AtRest
      <3> QED BY <2>5, <3>1, <3>2 DEF StartingInv
    <2>6. DoubledInv'
      BY <1>2, <2>1, <2>5 DEF DoubledInv
    <2> QED BY <2>4, <2>6
  <1> QED BY <1>4, <1>5

LEMMA LaunchOthers ==
  ASSUME WorldInv, StartingInv, DoubledInv, Environment, Elsewhere PROVE StartingInv' /\ DoubledInv'
  <1>1. \A p \in Pane : agent'[p] = "starting" => agent[p] = "starting"
    <2>1. ASSUME UNCHANGED agent PROVE \A p \in Pane : agent'[p] = "starting" => agent[p] = "starting"
      BY <2>1
    <2>2. ASSUME NEW p \in Pane, AgentMoves(p) \/ Launched(p)
          PROVE  \A q \in Pane : agent'[q] = "starting" => agent[q] = "starting"
      <3>1. agent \in [Pane -> Agents] /\ \E next \in {"none", "idle", "working"} :
              agent' = [agent EXCEPT ![p] = next]
        BY <2>2 DEF AgentMoves, Launched, WorldInv, TypeOK
      <3> QED BY <3>1
    <2>3. ASSUME NEW w \in WS, UserCloses(w)
          PROVE  \A q \in Pane : agent'[q] = "starting" => agent[q] = "starting"
      BY <2>3 DEF UserCloses, CloseSpaces
    <2> QED BY <2>1, <2>2, <2>3
        DEF Environment, Edit, Commit, PRMerges, Checkout, UserOpens, WorkerReports, ListCatchesUp,
            herdrVars
  <1>2. UNCHANGED <<pc, run, doubled>>
    BY DEF Elsewhere
  <1> QED BY <1>1, <1>2 DEF StartingInv, DoubledInv, GivenUp, Now

\* Whoever opens a workspace, the listing that does not lag has it, and whoever closes
\* one takes it from both.
LEMMA KnownSteps ==
  ASSUME WorldInv, KnownInv, [Next]_vars, scene' = scene PROVE KnownInv'
  <1>1. HerdrOK /\ Lags' = Lags
    BY TypeParts DEF WorldInv, Lags
  <1>2. CASE UNCHANGED <<held, listed>>
    BY <1>1, <1>2 DEF KnownInv
  <1>3. ASSUME NEW spaces, CloseSpaces(spaces) PROVE KnownInv'
    BY <1>1, <1>3 DEF KnownInv, CloseSpaces
  <1>4. ASSUME NEW w \in WS, NEW t, held' = [held EXCEPT ![w] = t],
               listed' = IF Lags THEN listed ELSE listed \cup {w}
        PROVE  KnownInv'
    BY <1>1, <1>4 DEF KnownInv, HerdrOK
  <1>5. ASSUME NEW r \in Runner, Collect(r) \/ Execute(r) PROVE KnownInv'
    <2>1. CASE Reading \/ AgentStart(r) \/ DropBranch(r)
      BY <1>2, <2>1 DEF Reading, AgentStart, DropBranch, world, herdrVars
    <2>2. CASE WorktreeOpen(r)
      BY <1>2, <1>4, <2>2 DEF WorktreeOpen, herdrVars
    <2>3. CASE RemoveCheckout(r) \/ CloseWorkspace(r)
      BY <1>3, <2>3 DEF RemoveCheckout, CloseWorkspace
    <2> QED BY <1>5, <2>1, <2>2, <2>3, CollectReads, ExecuteReads
  <1>6. CASE Environment
    <2>1. CASE \E w \in WS : UserCloses(w)
      BY <1>3, <2>1 DEF UserCloses
    <2>2. CASE \E t \in Tree : UserOpens(t)
      <3>1. PICK t \in Tree : UserOpens(t)
        BY <2>2
      <3> QED BY <1>4, <3>1 DEF UserOpens
    <2>3. CASE ListCatchesUp
      BY <1>1, <2>3 DEF ListCatchesUp, KnownInv
    <2> QED BY <1>2, <1>6, <2>1, <2>2, <2>3
        DEF Environment, Edit, Commit, PRMerges, Checkout, AgentMoves, WorkerReports, Launched,
            herdrVars
  <1> QED BY <1>2, <1>5, <1>6 DEF Next, vars, world, herdrVars

-----------------------------------------------------------------------------
(* What a plan opens *)

LEMMA AdoptApart ==
  ASSUME NEW state, Genuine(state), TreesApart(state) PROVE AdoptsApart(Adopt(state))
  <1> DEFINE trees == state.worktrees
             all == [i \in DOMAIN trees |-> ActionOn("adopt", trees[i].path, trees[i].branch, NoWS)]
             where == {i \in DOMAIN trees :
                         ~state.herdrAbsent /\ ~trees[i].bare /\ trees[i].workspace = NoWS}
             picked == Picked(all, where)
  <1>1. Adopt(state) = picked
    BY DEF Adopt, Each
  <1>2. Indices(where)
    <2>1. DOMAIN trees = 1..Len(trees) /\ Len(trees) \in Nat
      BY DEF Genuine
    <2> QED BY <2>1 DEF Indices
  <1>3. \A i \in where : i \in DOMAIN trees /\ trees[i].workspace = NoWS /\ all[i].path = trees[i].path
    BY DEF ActionOn
  <1> HIDE DEF where, all
  <1>4. \A m \in DOMAIN picked : \E i \in where : Rank(where, i) = m /\ picked[m] = all[i]
    BY <1>2, PickedIs
  <1> HIDE DEF picked
  <1>5. \A m \in DOMAIN picked : OnTree(picked[m].path) = {}
    BY <1>3, <1>4 DEF TreesApart
  <1>6. ASSUME NEW m \in DOMAIN picked, NEW k \in DOMAIN picked, picked[m].path = picked[k].path
        PROVE  m = k
    <2>1. PICK i \in where : Rank(where, i) = m /\ picked[m] = all[i]
      BY <1>4
    <2>2. PICK j \in where : Rank(where, j) = k /\ picked[k] = all[j]
      BY <1>4
    <2>3. i = j
      BY <1>3, <1>6, <2>1, <2>2 DEF TreesApart
    <2> QED BY <2>1, <2>2, <2>3
  <1> QED BY <1>1, <1>5, <1>6 DEF AdoptsApart

LEMMA StaffKinds ==
  ASSUME NEW state, Genuine(state)
  PROVE  \A m \in DOMAIN Staff(state) : Staff(state)[m].kind = "staff"
  <1> DEFINE spaces == state.workspaces
             all == [i \in DOMAIN spaces |->
                       [ActionOn("staff", spaces[i].path, WorktreeAt(state, spaces[i].path).branch,
                                 spaces[i].id) EXCEPT
                          !.pane = spaces[i].panes[1],
                          !.resume = WorktreeAt(state, spaces[i].path).transcript]]
             where == {i \in DOMAIN spaces :
                         /\ spaces[i].linked /\ spaces[i].panes # <<>>
                         /\ ~Occupied(state, spaces[i]) /\ Live(state, spaces[i].path)}
  <1>1. Staff(state) = Picked(all, where)
    BY DEF Staff, Each
  <1>2. Indices(where)
    <2>1. DOMAIN spaces = 1..Len(spaces) /\ Len(spaces) \in Nat
      BY DEF Genuine
    <2> QED BY <2>1 DEF Indices
  <1>3. \A i \in where : all[i].kind = "staff"
    BY DEF ActionOn
  <1> HIDE DEF where, all
  <1>4. \A m \in DOMAIN Picked(all, where) : Picked(all, where)[m].kind = "staff"
    BY <1>2, <1>3, PickedIs
  <1> QED BY <1>1, <1>4

LEMMA ConcatApart ==
  ASSUME NEW a, NEW b, IsSeq(a), IsSeq(b), AdoptsApart(a), \A i \in DOMAIN b : b[i].kind # "adopt"
  PROVE  AdoptsApart(a \o b)
  <1>1. /\ DOMAIN a = 1..Len(a) /\ DOMAIN b = 1..Len(b) /\ Len(a) \in Nat /\ Len(b) \in Nat
        /\ DOMAIN (a \o b) = 1..(Len(a) + Len(b))
    BY DEF IsSeq
  <1>2. \A i \in DOMAIN (a \o b) : (a \o b)[i] = IF i <= Len(a) THEN a[i] ELSE b[i - Len(a)]
    BY DEF IsSeq
  <1>3. ASSUME NEW i \in DOMAIN (a \o b), (a \o b)[i].kind = "adopt"
        PROVE  i \in DOMAIN a /\ (a \o b)[i] = a[i]
    <2>1. ASSUME ~(i <= Len(a)) PROVE FALSE
      <3>1. i - Len(a) \in DOMAIN b /\ (a \o b)[i] = b[i - Len(a)]
        BY <1>1, <1>2, <2>1
      <3> QED BY <1>3, <3>1
    <2> QED BY <1>1, <1>2, <2>1
  <1> QED BY <1>3 DEF AdoptsApart

LEMMA OnlyApart ==
  ASSUME NEW plan, IsSeq(plan), AdoptsApart(plan), NEW kinds
  PROVE  AdoptsApart(Only(plan, kinds))
  <1> DEFINE where == {i \in DOMAIN plan : plan[i].kind \in kinds}
             picked == Picked(plan, where)
  <1>1. Only(plan, kinds) = picked
    BY DEF Only
  <1>2. Indices(where)
    <2>1. DOMAIN plan = 1..Len(plan) /\ Len(plan) \in Nat
      BY DEF IsSeq
    <2> QED BY <2>1 DEF Indices
  <1>3. \A i \in where : i \in DOMAIN plan
    OBVIOUS
  <1> HIDE DEF where
  <1>4. \A m \in DOMAIN picked : \E i \in where : Rank(where, i) = m /\ picked[m] = plan[i]
    BY <1>2, PickedIs
  <1> HIDE DEF picked
  <1>5. \A m \in DOMAIN picked : picked[m].kind = "adopt" => OnTree(picked[m].path) = {}
    BY <1>3, <1>4 DEF AdoptsApart
  <1>6. ASSUME NEW m \in DOMAIN picked, NEW k \in DOMAIN picked, picked[m].path = picked[k].path,
               picked[m].kind = "adopt", picked[k].kind = "adopt"
        PROVE  m = k
    <2>1. PICK i \in where : Rank(where, i) = m /\ picked[m] = plan[i]
      BY <1>4
    <2>2. PICK j \in where : Rank(where, j) = k /\ picked[k] = plan[j]
      BY <1>4
    <2>3. i = j
      BY <1>3, <1>6, <2>1, <2>2 DEF AdoptsApart
    <2> QED BY <2>1, <2>2, <2>3
  <1> QED BY <1>1, <1>5, <1>6 DEF AdoptsApart

\* A plan with no adopting in it, or made of checkouts that have no workspace.
LEMMA PlanApart ==
  ASSUME NEW state, Genuine(state), NEW kinds, "adopt" \in kinds => TreesApart(state)
  PROVE  AdoptsApart(Only(ReconcileState(state), kinds))
  <1> DEFINE whole == ReconcileState(state)
  <1>1. /\ IsSeq(Adopt(state)) /\ IsSeq(Staff(state)) /\ IsSeq(Prune(state)) /\ IsSeq(Ghosts(state))
        /\ IsSeq(Adopt(state) \o Staff(state)) /\ IsSeq(Adopt(state) \o Staff(state) \o Prune(state))
        /\ IsSeq(whole)
    BY AdoptSound, StaffSound, PruneSound, GhostsSound, ConcatSound DEF SoundPlan, ReconcileState
  <1>2. CASE "adopt" \in kinds
    <2>1. AdoptsApart(Adopt(state))
      BY <1>2, AdoptApart
    <2>2. AdoptsApart(Adopt(state) \o Staff(state))
      BY <1>1, <2>1, StaffKinds, ConcatApart
    <2>3. \A m \in DOMAIN Prune(state) : Prune(state)[m].kind # "adopt"
      BY PruneKinds
    <2>4. AdoptsApart(Adopt(state) \o Staff(state) \o Prune(state))
      BY <1>1, <2>2, <2>3, ConcatApart
    <2>5. \A m \in DOMAIN Ghosts(state) : Ghosts(state)[m].kind # "adopt"
      BY GhostKinds
    <2>6. AdoptsApart(whole)
      BY <1>1, <2>4, <2>5, ConcatApart DEF ReconcileState
    <2> QED BY <1>1, <2>6, OnlyApart
  <1>3. CASE "adopt" \notin kinds
    <2> DEFINE where == {i \in DOMAIN whole : whole[i].kind \in kinds}
    <2>1. Indices(where) /\ \A i \in where : whole[i].kind # "adopt"
      <3>1. DOMAIN whole = 1..Len(whole) /\ Len(whole) \in Nat
        BY <1>1 DEF IsSeq
      <3> HIDE DEF whole
      <3> QED BY <1>3, <3>1 DEF Indices
    <2>2. Only(whole, kinds) = Picked(whole, where)
      BY DEF Only
    <2> HIDE DEF where, whole
    <2>3. \A m \in DOMAIN Picked(whole, where) : Picked(whole, where)[m].kind # "adopt"
      BY <2>1, PickedIs
    <2> QED BY <2>2, <2>3 DEF AdoptsApart, whole
  <1> QED BY <1>2, <1>3

\* A listing that does not lag tells a checkout with a workspace from one without.
LEMMA ListsApart ==
  ASSUME WorldInv, ShapeInv, KnownInv, ~Lags, NEW r \in Runner, WorktreeList(r)
  PROVE  TreesApart(run'[r].snap)
  <1> DEFINE where == {i \in DOMAIN Trees : Trees[i] \in onDisk}
             found == Picked(Trees, where)
  <1>1. PICK open \in [onDisk -> WS \cup {NoWS}] :
          /\ \A t \in onDisk : open[t] \in OpenOn(t)
          /\ run' = [run EXCEPT ![r].snap.worktrees =
                       [i \in DOMAIN found |-> Worktree(found[i], open[found[i]])]]
    BY DEF WorktreeList
  <1>2. Indices(where)
    <2>1. DOMAIN Trees = 1..Len(Trees) /\ Len(Trees) \in Nat
      BY WorldAssumption
    <2> QED BY <2>1 DEF Indices
  <1>3. \A i \in where : i \in DOMAIN Trees /\ Trees[i] \in onDisk
    OBVIOUS
  <1> HIDE DEF where
  <1>4. \A m \in DOMAIN found : \E i \in where : Rank(where, i) = m /\ found[m] = Trees[i]
    BY <1>2, PickedIs
  <1> HIDE DEF found
  <1>5. ASSUME NEW m \in DOMAIN found, NEW k \in DOMAIN found, found[m] = found[k] PROVE m = k
    <2>1. PICK i \in where : Rank(where, i) = m /\ found[m] = Trees[i]
      BY <1>4
    <2>2. PICK j \in where : Rank(where, j) = k /\ found[k] = Trees[j]
      BY <1>4
    <2>3. i = j
      BY <1>3, <1>5, <2>1, <2>2, ListingAssumption DEF IsInjective
    <2> QED BY <2>1, <2>2, <2>3
  <1>6. ASSUME NEW m \in DOMAIN found, open[found[m]] = NoWS PROVE OnTree(found[m]) = {}
    <2>1. found[m] \in onDisk /\ found[m] # NoTree
      BY <1>3, <1>4, WorldAssumption DEF WorldInv, TypeOK
    <2>2. OnTree(found[m]) \subseteq listed /\ NoWS \notin OnTree(found[m])
      BY <2>1, WorldAssumption DEF KnownInv, OnTree
    <2>3. open[found[m]] \in OpenOn(found[m])
      BY <1>1, <2>1
    <2> QED BY <1>6, <2>2, <2>3 DEF OpenOn
  <1> DEFINE trees == [i \in DOMAIN found |-> Worktree(found[i], open[found[i]])]
  <1>7. /\ DOMAIN trees = DOMAIN found /\ run' = [run EXCEPT ![r].snap.worktrees = trees]
        /\ \A i \in DOMAIN trees : trees[i].path = found[i] /\ trees[i].workspace = open[found[i]]
    BY <1>1 DEF Worktree
  <1> HIDE DEF trees
  <1>8. run'[r].snap.worktrees = trees
    BY <1>7 DEF ShapeInv, Fields, SnapFields
  <1> QED BY <1>5, <1>6, <1>7, <1>8 DEF TreesApart

-----------------------------------------------------------------------------
(* Opening *)

\* Nothing is opened: a checkout without a workspace stays without.
HeldLess == \A w \in WS : held'[w] = held[w] \/ held'[w] = NoTree

LEMMA ApartStays ==
  ASSUME WorldInv, HeldLess
  PROVE  /\ ApartInv => ApartInv'
         /\ \A t \in Tree : OnTree(t) = {} => OnTree(t)' = {}
  <1>1. NoTree \notin Tree
    BY WorldAssumption
  <1> QED BY <1>1 DEF HeldLess, ApartInv, OnTree

\* What a runner has read and planned is about checkouts.
OnTrees(m) ==
  /\ \A i \in DOMAIN m.plan : m.plan[i].path \in Tree
  /\ \A i \in DOMAIN m.snap.worktrees : m.snap.worktrees[i].path \in Tree

LEMMA PlanOnTrees == \A r \in Runner : PlanInv(r) => OnTrees(run[r])
  <1> SUFFICES ASSUME NEW r \in Runner, PlanInv(r) PROVE OnTrees(run[r])
    OBVIOUS
  <1>1. run[r].snap.worktrees \in Seq(WorktreeSet)
    BY DEF PlanInv, Genuine
  <1>2. \A i \in DOMAIN run[r].snap.worktrees : run[r].snap.worktrees[i] \in WorktreeSet
    BY <1>1
  <1> QED BY <1>2 DEF OnTrees, WorktreeSet, PlanInv, SoundPlan, Sound

LEMMA PlanOnTreesNext == \A r \in Runner : PlanInv(r)' => OnTrees(run'[r])
  <1>1. (\A r \in Runner : PlanInv(r) => OnTrees(run[r]))'
    BY PlanOnTrees, PTL
  <1> QED BY <1>1 DEF OnTrees

LEMMA OpeningStays ==
  ASSUME WorldInv, HeldLess, NEW at, NEW m, NEW kind, OnTrees(m), OpeningInv(at, m, kind)
  PROVE  OpeningInv(at, m, kind)'
  <1>1. AdoptsApart(m.plan)'
    BY ApartStays DEF OnTrees, OpeningInv, AdoptsApart
  <1>2. TreesApart(m.snap) => TreesApart(m.snap)'
    BY ApartStays DEF OnTrees, TreesApart
  <1> QED BY <1>1, <1>2 DEF OpeningInv

LEMMA OpeningComes ==
  ASSUME NEW r \in Runner, NEW at, NEW m, NEW kind, at = pc'[r], m = run'[r],
         kind = scene'.kind[r], OpeningInv(at, m, kind)'
  PROVE  OpeningInv(pc[r], run[r], Kind[r])'
  <1>1. TreesApart(m.snap)' => TreesApart(run[r].snap)'
    BY DEF TreesApart, OnTree
  <1>2. AdoptsApart(m.plan)' => AdoptsApart(run[r].plan)'
    BY DEF AdoptsApart, OnTree
  <1> QED BY <1>1, <1>2 DEF OpeningInv, Kind, Collecting

LEMMA TailApart ==
  ASSUME NEW plan, IsSeq(plan), plan # <<>>, AdoptsApart(plan)
  PROVE  /\ AdoptsApart(Tail(plan))
         /\ Head(plan).kind = "adopt" =>
              \A i \in DOMAIN Tail(plan) : Tail(plan)[i].kind = "adopt" => Tail(plan)[i].path # Head(plan).path
  <1>1. /\ \A i \in DOMAIN Tail(plan) : Tail(plan)[i] = plan[i+1] /\ i + 1 \in DOMAIN plan
        /\ 1 \in DOMAIN plan /\ Head(plan) = plan[1]
        /\ DOMAIN Tail(plan) = 1..(Len(plan) - 1) /\ Len(plan) \in Nat
    BY TailIs DEF IsSeq
  <1>2. \A i \in DOMAIN Tail(plan) : i \in Nat /\ i + 1 # 1
    BY <1>1
  <1>3. \A i \in DOMAIN Tail(plan) : Tail(plan)[i].kind = "adopt" => OnTree(Tail(plan)[i].path) = {}
    BY <1>1 DEF AdoptsApart
  <1>4. ASSUME NEW i \in DOMAIN Tail(plan), NEW j \in DOMAIN Tail(plan),
               Tail(plan)[i].kind = "adopt", Tail(plan)[j].kind = "adopt",
               Tail(plan)[i].path = Tail(plan)[j].path
        PROVE  i = j
    <2>1. i + 1 = j + 1
      BY <1>1, <1>4 DEF AdoptsApart
    <2> QED BY <1>2, <2>1
  <1>5. ASSUME NEW i \in DOMAIN Tail(plan), Tail(plan)[i].kind = "adopt", Head(plan).kind = "adopt"
        PROVE  Tail(plan)[i].path # Head(plan).path
    BY <1>1, <1>2, <1>5 DEF AdoptsApart
  <1> QED BY <1>3, <1>4, <1>5 DEF AdoptsApart

\* A step that only reads, seen from the world it reads.
LEMMA ReadsApart ==
  ASSUME WorldInv, ShapeInv, TurnInv, KnownInv, Orderly, NEW r \in Runner, PlanInv(r), DoingInv(r),
         Collect(r) \/ Execute(r), OpeningInv(pc[r], run[r], Kind[r])
  PROVE  OpeningInv(pc'[r], run'[r], Kind[r])
  <1>1. AdoptsApart(run[r].plan) /\ IsSeq(run[r].plan)
    BY DEF OpeningInv, PlanInv, SoundPlan
  <1>2. CASE PlanIt(r)
    <2> DEFINE state == [run[r].snap EXCEPT !.release = ReleaseAgents /\ Kind[r] = "apply"]
               plan == Only(ReconcileState(state), Kinds(r))
    <2>1. run' = [run EXCEPT ![r].plan = plan, ![r].snap = EmptyState, ![r].tries = 0]
          /\ pc[r] = "reports" /\ pc'[r] = "next"
      BY <1>2 DEF PlanIt, Goto, ShapeInv
    <2>2. state.worktrees = run[r].snap.worktrees /\ state.workspaces = run[r].snap.workspaces
      BY DEF ShapeInv, SnapFields
    <2> HIDE DEF state
    <2>3. Genuine(state)
      BY <2>2 DEF PlanInv, Genuine
    <2>4. "adopt" \in Kinds(r) => TreesApart(state)
      BY <2>1, <2>2 DEF Kinds, OpeningInv, TreesApart, Collecting
    <2>5. AdoptsApart(plan)
      BY <2>3, <2>4, PlanApart
    <2> HIDE DEF plan
    <2>6. run'[r].plan = plan
      BY <2>1 DEF ShapeInv, Fields
    <2> QED BY <2>1, <2>5, <2>6 DEF OpeningInv, Collecting
  <1>3. CASE Collect(r) /\ ~PlanIt(r)
    <2>1. run'[r].plan = run[r].plan /\ pc[r] \in Collecting \cup {"idle"}
      BY <1>3, CollectTurns
    <2>2. CASE WorktreeList(r)
      <3>1. Kind[r] # "apply" => ~Lags
        BY <2>1 DEF TurnInv, Orderly, ShapeInv, Kind, Lags, Collecting
      <3> QED BY <1>1, <2>1, <2>2, <3>1, ListsApart DEF OpeningInv
    <2>3. CASE CollectFails(r) \/ Begin(r)
      <3>1. pc'[r] \in {"done", "trees"}
        BY <2>3 DEF CollectFails, Begin, Goto, ShapeInv
      <3> QED BY <1>1, <2>1, <3>1 DEF OpeningInv, Collecting
    <2>4. CASE ~WorktreeList(r) /\ ~CollectFails(r) /\ ~Begin(r)
      <3>1. SameTrees(r)
        BY <1>3, <2>4, CollectIs
      <3>2. pc[r] \in Collecting \ {"trees"}
        BY <1>3, <2>4
           DEF Collect, WorkspaceList, AgentList, Resolve, ResolvedAll, PaneList, ListedPanes,
               ReadGhostReport, Collecting
      <3>3. TreesApart(run[r].snap) => TreesApart(run'[r].snap)
        BY <3>1 DEF SameTrees, TreesApart
      <3> QED BY <1>1, <2>1, <3>2, <3>3 DEF OpeningInv
    <2> QED BY <2>2, <2>3, <2>4
  <1>4. CASE PassOver(r)
    BY <1>1, <1>4, PassTurns DEF OpeningInv, Collecting
  <1>5. CASE Execute(r) /\ ~PassOver(r)
    <2>1. Works(r)
      BY <1>5, ExecuteWorks
    <2>2. AdoptsApart(run'[r].plan)
      BY <1>1, <2>1, TailApart DEF Works
    <2> QED BY <2>1, <2>2 DEF Works, OpeningInv
  <1> QED BY <1>2, <1>3, <1>4, <1>5

\* The one step that opens finds the checkout without a workspace, and what is left to
\* open are others.
LEMMA OpensApart ==
  ASSUME WorldInv, ShapeInv, ApartInv, NEW r \in Runner, PlanInv(r), DoingInv(r),
         WorktreeOpen(r), ~UNCHANGED herdrVars, AdoptsApart(run[r].plan)
  PROVE  ApartInv' /\ AdoptsApart(run[r].plan)'
  <1>1. HerdrOK
    BY TypeParts DEF WorldInv
  <1>2. /\ pc[r] = "open" /\ run[r].plan # <<>> /\ Now(r).kind = "adopt" /\ Sound(Now(r))
        /\ IsSeq(run[r].plan) /\ SoundPlan(run[r].plan)
    BY NowIs DEF WorktreeOpen, DoingInv, Doing, PlanInv, SoundPlan
  <1>3. PICK t : t = Now(r).path
    OBVIOUS
  <1>4. PICK w \in WS \ used : held' = [held EXCEPT ![w] = t]
    BY <1>3 DEF WorktreeOpen
  <1>5. OnTree(t) = {}
    BY <1>2, <1>3, TailIs DEF AdoptsApart, Now
  <1>6. ApartInv'
    BY <1>1, <1>4, <1>5 DEF ApartInv, OnTree, HerdrOK
  <1>7. run' = [run EXCEPT ![r].plan = Tail(@), ![r].opened = TRUE]
    BY DEF WorktreeOpen
  <1>8. run'[r].plan = Tail(run[r].plan)
    BY <1>7 DEF ShapeInv, Fields
  <1>9. PICK plan : plan = Tail(run[r].plan)
    OBVIOUS
  <1>10. /\ AdoptsApart(plan)
         /\ \A i \in DOMAIN plan : plan[i].kind = "adopt" => plan[i].path # t
    BY <1>2, <1>3, <1>9, TailApart DEF Now
  <1>11. ASSUME NEW i \in DOMAIN plan, plan[i].kind = "adopt", NEW v \in WS, held'[v] = plan[i].path
         PROVE  FALSE
    <2>1. OnTree(plan[i].path) = {} /\ plan[i].path # t
      BY <1>10, <1>11 DEF AdoptsApart
    <2> QED BY <1>1, <1>4, <1>11, <2>1 DEF OnTree, HerdrOK
  <1>12. AdoptsApart(plan)'
    BY <1>10, <1>11 DEF AdoptsApart, OnTree
  <1>13. AdoptsApart(run[r].plan)'
    BY <1>8, <1>9, <1>12 DEF AdoptsApart, OnTree
  <1> QED BY <1>6, <1>13

LEMMA OpeningSteps ==
  ASSUME WorldInv, ShapeInv, TurnInv, KnownInv, Orderly, ApartInv, NEW r \in Runner,
         PlanInv(r), PlanInv(r)', DoingInv(r),
         Collect(r) \/ Execute(r), OpeningInv(pc[r], run[r], Kind[r]), scene' = scene
  PROVE  ApartInv' /\ OpeningInv(pc[r], run[r], Kind[r])'
  <1>1. CASE WorktreeOpen(r) /\ ~UNCHANGED herdrVars
    <2>1. ApartInv' /\ AdoptsApart(run[r].plan)'
      BY <1>1, OpensApart DEF OpeningInv
    <2>2. pc'[r] \notin Collecting
      BY <1>1, ExecuteWorks DEF Works, Execute, PassOver, WorktreeOpen
    <2> QED BY <2>1, <2>2 DEF OpeningInv, Collecting
  <1>2. CASE ~(WorktreeOpen(r) /\ ~UNCHANGED herdrVars)
    <2>1. HeldLess
      <3>1. ASSUME NEW spaces, CloseSpaces(spaces) PROVE HeldLess
        BY <3>1 DEF CloseSpaces, HeldLess
      <3>2. CASE UNCHANGED held
        BY <3>2 DEF HeldLess
      <3>3. CASE RemoveCheckout(r) \/ CloseWorkspace(r)
        BY <3>1, <3>3 DEF RemoveCheckout, CloseWorkspace
      <3> QED BY <1>2, <3>2, <3>3, CollectReads, ExecuteReads
          DEF Reading, AgentStart, DropBranch, world, herdrVars
    <2>2. PICK b, n, kind : b = pc'[r] /\ n = run'[r] /\ kind = Kind[r]
      OBVIOUS
    <2>3. OpeningInv(b, n, kind)
      BY <2>2, ReadsApart
    <2>4. OnTrees(n)
      BY <2>2, PlanOnTreesNext
    <2>5. OpeningInv(b, n, kind)'
      BY <2>1, <2>3, <2>4, OpeningStays
    <2>6. kind = scene'.kind[r]
      BY <2>2 DEF Kind
    <2> QED BY <2>1, <2>2, <2>5, <2>6, ApartStays, OpeningComes
  <1> QED BY <1>1, <1>2

\* Who waits does not open, and what it has planned stands.
LEMMA OpeningWaits ==
  ASSUME WorldInv, HeldLess, NEW r \in Runner, PlanInv(r), OpeningInv(pc[r], run[r], Kind[r]),
         run'[r] = run[r], pc'[r] = pc[r], scene' = scene
  PROVE  OpeningInv(pc[r], run[r], Kind[r])'
  <1>1. PICK at, m, kind : at = pc[r] /\ m = run[r] /\ kind = Kind[r]
    OBVIOUS
  <1>2. OnTrees(m)
    BY <1>1, PlanOnTrees
  <1>3. OpeningInv(at, m, kind)'
    BY <1>1, <1>2, OpeningStays
  <1> QED BY <1>1, <1>3, OpeningComes DEF Kind

-----------------------------------------------------------------------------
(* The invariant of taking turns *)

LEMMA OnceStarts == Orderly /\ Init => OnceInv
  <1> SUFFICES ASSUME Orderly, Init PROVE OnceInv
    OBVIOUS
  <1>1. PICK s \in scene.worlds : held = s.held /\ agent = s.agent
    BY DEF Init
  <1>2. /\ s.agent \in [Pane -> {"none", "idle", "working"}]
        /\ \A u, v \in WS : s.held[u] = s.held[v] /\ s.held[u] # NoTree => u = v
    BY SceneAssumption DEF Init, Orderly
  <1>3. /\ listed = {w \in WS : held[w] # NoTree} /\ doubled = {}
        /\ run = [q \in Runner |-> Fresh]
        /\ pc = [q \in Runner |-> IF Kind[q] = "none" THEN "done" ELSE "idle"]
    BY DEF Init
  <1> HIDE DEF Init
  <1>4. \A r \in Runner : /\ pc[r] \in AtRest /\ (Kind[r] = "none" => pc[r] = "done")
                          /\ run[r].plan = <<>>
    BY <1>3 DEF AtRest, Fresh
  <1>5. TurnInv
    BY <1>4 DEF TurnInv
  <1>6. StartingInv /\ DoubledInv /\ KnownInv /\ ApartInv
    BY <1>1, <1>2, <1>3 DEF StartingInv, DoubledInv, KnownInv, ApartInv
  <1>7. ASSUME NEW r \in Runner PROVE OpeningInv(pc[r], run[r], Kind[r])
    BY <1>4 DEF OpeningInv, AdoptsApart, AtRest, Collecting
  <1> QED BY <1>5, <1>6, <1>7 DEF OnceInv

LEMMA OnceRuns ==
  ASSUME Orderly, IInv, IInv', OnceInv, NEW r \in Runner, Collect(r) \/ Execute(r)
  PROVE  OnceInv'
  <1>1. WorldInv /\ ShapeInv /\ PlanInv(r) /\ DoingInv(r) /\ PlanInv(r)'
    BY DEF IInv, RunnerInv
  <1>2. Alone(r)
    <2>1. HeldStep
      BY WorldStep DEF IInv, Next
    <2> QED BY <2>1, RunnerMoves DEF IInv
  <1>3. scene' = scene
    BY CollectReads, ExecuteReads
       DEF Reading, Watch, WorktreeOpen, AgentStart, RemoveCheckout, DropBranch, CloseWorkspace
  <1>4. moves' = moves
    BY CollectReads, ExecuteReads
       DEF Reading, world, WorktreeOpen, AgentStart, RemoveCheckout, DropBranch, CloseWorkspace
  <1>5. TurnInv /\ StartingInv /\ DoubledInv /\ KnownInv /\ Serialised
    BY DEF OnceInv, Orderly
  <1>6. TurnInv'
    BY <1>1, <1>2, <1>3, <1>5, TurnSteps
  <1>7. StartingInv' /\ DoubledInv'
    BY <1>1, <1>2, <1>5, LaunchSteps
  <1>8. KnownInv'
    BY <1>1, <1>3, <1>5, KnownSteps DEF Next
  <1>9. ASSUME moves = 0 PROVE ApartInv' /\ \A q \in Runner : OpeningInv(pc[q], run[q], Kind[q])'
    <2>1. ApartInv' /\ OpeningInv(pc[r], run[r], Kind[r])'
      BY <1>1, <1>3, <1>5, <1>9, OpeningSteps DEF OnceInv
    <2>2. ASSUME NEW q \in Runner \ {r} PROVE OpeningInv(pc[q], run[q], Kind[q])'
      <3>1. pc'[q] \in AtRest /\ run'[q].plan = <<>>
        BY <1>1, <1>2, <1>5, OthersRest DEF Alone, TurnInv
      <3> QED BY <3>1 DEF OpeningInv, AdoptsApart, AtRest, Collecting
    <2> QED BY <2>1, <2>2
  <1> QED BY <1>4, <1>6, <1>7, <1>8, <1>9 DEF OnceInv

LEMMA OnceOthers ==
  ASSUME Orderly, IInv, IInv', OnceInv, Environment \/ UNCHANGED vars
  PROVE  OnceInv'
  <1>1. WorldInv /\ ShapeInv /\ scene \in Scenes
    BY DEF IInv, ShapeInv
  <1>2. UNCHANGED <<pc, run, scene, doubled>> /\ (Environment => Elsewhere)
    BY <1>1, OthersAct DEF Elsewhere, Watch, vars
  <1>3. TurnInv'
    <2>1. TurnInv
      BY DEF OnceInv
    <2> QED BY <1>2, <2>1 DEF TurnInv, Kind
  <1>4. StartingInv' /\ DoubledInv'
    <2>1. StartingInv /\ DoubledInv
      BY DEF OnceInv
    <2>2. CASE Environment
      BY <1>1, <1>2, <2>1, <2>2, LaunchOthers
    <2>3. CASE UNCHANGED vars
      BY <2>1, <2>3 DEF vars, world, herdrVars, StartingInv, DoubledInv, GivenUp, Now
    <2> QED BY <2>2, <2>3
  <1>5. KnownInv'
    BY <1>1, <1>2, KnownSteps DEF OnceInv, Next
  <1>6. ASSUME moves' = 0 PROVE moves = 0 /\ HeldLess
    <2>1. moves \in Nat
      BY TypeParts, SceneAssumption DEF IInv, WorldInv, ShapeInv, MaxMoves
    <2>2. ~Move
      BY <1>6, <2>1 DEF Move
    <2>3. UNCHANGED <<moves, held>>
      BY <2>2
         DEF Environment, Edit, Commit, PRMerges, Checkout, UserOpens, AgentMoves, WorkerReports,
             UserCloses, Launched, ListCatchesUp, vars, world, herdrVars
    <2> QED BY <1>6, <2>3 DEF HeldLess
  <1>7. ASSUME moves' = 0 PROVE ApartInv' /\ \A q \in Runner : OpeningInv(pc[q], run[q], Kind[q])'
    <2>1. moves = 0 /\ HeldLess
      BY <1>6, <1>7
    <2>2. ApartInv'
      BY <1>1, <2>1, ApartStays DEF OnceInv
    <2>3. ASSUME NEW q \in Runner PROVE OpeningInv(pc[q], run[q], Kind[q])'
      <3>1. PlanInv(q) /\ OpeningInv(pc[q], run[q], Kind[q])
        BY <2>1 DEF IInv, RunnerInv, OnceInv
      <3> QED BY <1>1, <1>2, <2>1, <3>1, OpeningWaits
    <2> QED BY <2>2, <2>3
  <1> QED BY <1>3, <1>4, <1>5, <1>7 DEF OnceInv

LEMMA OnceSteps == Orderly /\ IInv /\ IInv' /\ OnceInv /\ [Next]_vars => OnceInv'
  BY OnceRuns, OnceOthers DEF Next

\* Left alone, no sync opens a second workspace on a checkout, however many invocations
\* take turns; and no pane is given a second agent during a launch whose runner was not
\* told nothing of it, whatever people and agents do (adopt, staff, and the lock that
\* reconcileOpen holds) - where the scenes are those Orderly describes.
THEOREM NothingOpensTwice == Orderly => (Spec => []NothingTwice)
  <1> SUFFICES ASSUME Orderly PROVE Spec => []NothingTwice
    OBVIOUS
  <1>1. Init => OnceInv
    BY OnceStarts
  <1>2. IInv /\ IInv' /\ OnceInv /\ [Next]_vars => OnceInv'
    BY OnceSteps
  <1>3. OnceInv => NothingTwice
    <2> SUFFICES ASSUME OnceInv PROVE NothingTwice
      OBVIOUS
    <2>1. doubled \subseteq UNION {run[r].gaveUp : r \in Runner}
      BY DEF OnceInv, DoubledInv, GivenUp
    <2>2. ASSUME moves = 0, NEW t \in Tree PROVE Cardinality(OnTree(t)) <= 1
      <3>1. t # NoTree
        BY WorldAssumption
      <3>2. OnTree(t) = {} \/ \E w \in WS : OnTree(t) = {w}
        BY <2>2, <3>1 DEF OnceInv, ApartInv, OnTree
      <3>3. CASE OnTree(t) = {}
        <4>1. Cardinality(OnTree(t)) = 0
          BY <3>3, FS_EmptySet
        <4> QED BY <4>1
      <3>4. CASE \E w \in WS : OnTree(t) = {w}
        <4>1. PICK w \in WS : OnTree(t) = {w}
          BY <3>4
        <4>2. Cardinality({w}) = 1
          BY FS_Singleton
        <4>3. Cardinality(OnTree(t)) = 1
          BY <4>1, <4>2
        <4> QED BY <4>3
      <3> QED BY <3>2, <3>3, <3>4
    <2> QED BY <2>1, <2>2 DEF NothingTwice
  <1> QED BY <1>1, <1>2, <1>3, Invariant, PTL DEF Spec

=============================================================================
