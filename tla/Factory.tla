------------------------------- MODULE Factory -------------------------------
(***************************************************************************)
(* `factory` (factory.go) pulling labelled issues off one GitHub           *)
(* repository from several machines, and `start` (start.go), which turns   *)
(* an issue into a checkout with a briefed agent.  The machines share the  *)
(* issues with their labels and the claim refs on origin; branches,        *)
(* workspaces and agents are each machine's own.                           *)
(*                                                                         *)
(* Every gh, git and herdr call whose answer a pass acts on is a step.     *)
(* One machine runs one pass at a time, as its documentation asks, and     *)
(* passes follow one another without end.                                  *)
(***************************************************************************)
EXTENDS Naturals, FiniteSets

CONSTANTS
  Host,         \* the machines that run `factory`
  Issue,        \* the issues that matter, by number
  Nobody,       \* no claim ref on origin
  MaxWorkers,   \* --max
  Faults,       \* which faults this instance admits
  Scenes        \* what a behavior starts from, and how much may go wrong in it

ASSUME FactoryAssumption ==
  /\ Issue \subseteq Nat \ {0} /\ IsFiniteSet(Issue)
  /\ Nobody \notin Host
  /\ MaxWorkers \in Nat \ {0}
  /\ Scenes \subseteq [open : SUBSET Issue, ready : SUBSET Issue, inProgress : SUBSET Issue,
                       approved : SUBSET Issue, hosts : SUBSET Host, issues : SUBSET Issue,
                       moves : Nat]
  /\ \A s \in Scenes : s.inProgress \cap s.open = {}
  /\ Faults \subseteq {"gh", "git", "red", "herdr", "staff", "brief", "crash"}

VARIABLES
  scene,        \* the scene of this behavior
  open,         \* issues that are open
  ready,        \* those labelled factory:ready
  inProgress,   \* those labelled factory:in-progress
  approved,     \* those whose payload is the one that was approved
  claim,        \* the ref refs/worktender/claims/<issue>, with who pushed it
  branch,       \* on each machine: issues with a local branch and a checkout
  remote,       \*                  issues with a remote-tracking branch
  agent,        \*                  what the agent of each issue is doing
  reported,     \*                  issues whose worker's last report is done
  at,           \*                  where its pass stands
  pass,         \*                  what that pass remembers
  events,       \* faults and moves of people so far
  made,         \* history: who made a checkout for an issue while it was open, and has it
  unbriefed,    \* history: agents whose start failed after they came up
  leftover,     \* history: issues something was left on that no pass clears
  swept         \* history: issues whose claim a pass cleared while they were open or started

boardVars   == <<open, ready, inProgress, approved>>
hostVars    == <<branch, remote, agent, reported>>
historyVars == <<made, unbriefed, leftover, swept>>
vars == <<boardVars, claim, hostVars, at, pass, events, historyVars, scene>>

Fresh == [todo |-> {}, names |-> {}, live |-> {}, free |-> 0, queue |-> {},
          labelled |-> {}, code |-> 0]

Init ==
  /\ scene \in Scenes
  /\ open = scene.open /\ ready = scene.ready
  /\ inProgress = scene.inProgress /\ approved = scene.approved
  /\ claim = [i \in Issue |-> Nobody]
  /\ branch = [h \in Host |-> {}]
  /\ remote = [h \in Host |-> {}]
  /\ agent = [h \in Host |-> [i \in Issue |-> "none"]]
  /\ reported = [h \in Host |-> {}]
  /\ at = [h \in Host |-> "idle"]
  /\ pass = [h \in Host |-> Fresh]
  /\ events = 0
  /\ made = [i \in Issue |-> {}]
  /\ unbriefed = {}
  /\ leftover = {}
  /\ swept = {}

\* Faults and people's moves draw on one bounded supply.
Move == events < scene.moves /\ events' = events + 1
Fault(kind) == kind \in Faults /\ Move
Calm == UNCHANGED events

Goto(h, label) == at' = [at EXCEPT ![h] = label]
Keep(h, record) == pass' = [pass EXCEPT ![h] = record]

\* The pass is over; the next one remembers nothing of it.
Over(h) == Goto(h, "idle") /\ Keep(h, Fresh)

Oldest(S) == CHOOSE i \in S : \A j \in S : i <= j

\* The issue a pass is at.
Current(h) == Oldest(pass[h].queue)

\* Those that passes are starting by now.
Started(i) == \E h \in Host : /\ at[h] \in {"issue", "create", "staff", "brief", "giveBack", "swap"}
                              /\ Current(h) = i

\* On to the next issue of the queue.
NextIssue(h) ==
  /\ Goto(h, "look")
  /\ Keep(h, [pass[h] EXCEPT !.queue = @ \ {Current(h)}, !.code = 0])

Live(h) == {i \in Issue : agent[h][i] # "none"}

Reading == UNCHANGED <<boardVars, claim, hostVars, historyVars>>

-----------------------------------------------------------------------------
(* clearClosedInProgress and redMain *)

Begin(h) ==
  /\ at[h] = "idle" /\ h \in scene.hosts
  /\ Goto(h, "closed")
  /\ Calm /\ UNCHANGED pass /\ Reading

ListClosed(h) ==
  /\ at[h] = "closed"
  /\ \/ /\ Keep(h, [Fresh EXCEPT !.todo = inProgress \ open])
        /\ Goto(h, "release")
        /\ Calm
     \/ Fault("gh") /\ Goto(h, "main") /\ UNCHANGED pass
  /\ Reading

\* releaseClaim names the ref and not who pushed it.  The answer may be lost.
ReleaseClosed(h) ==
  LET i == Oldest(pass[h].todo)
  IN  /\ at[h] = "release"
      /\ IF pass[h].todo = {}
         THEN Goto(h, "main") /\ Calm /\ UNCHANGED <<claim, swept>>
         ELSE /\ \/ Goto(h, "unlabel") /\ Calm /\ claim' = [claim EXCEPT ![i] = Nobody]
                 \/ /\ Fault("git") /\ Goto(h, "main")
                    /\ claim' \in {claim, [claim EXCEPT ![i] = Nobody]}
              /\ swept' = IF claim' # claim /\ (i \in open \/ Started(i)) THEN swept \cup {i}
                          ELSE swept
      /\ UNCHANGED <<boardVars, hostVars, pass, made, unbriefed, leftover>>

Unlabel(h) ==
  LET i == Oldest(pass[h].todo)
  IN  /\ at[h] = "unlabel"
      /\ \/ /\ inProgress' = inProgress \ {i}
            /\ Keep(h, [pass[h] EXCEPT !.todo = @ \ {i}])
            /\ Goto(h, "release")
            /\ Calm
         \/ /\ Fault("gh") /\ Goto(h, "main")
            /\ inProgress' \in {inProgress, inProgress \ {i}}
            /\ UNCHANGED pass
      /\ UNCHANGED <<open, ready, approved, claim, hostVars, historyVars>>

\* A red main ends the pass, a gh that cannot say does not.
CheckMain(h) ==
  /\ at[h] = "main"
  /\ \/ Goto(h, "rows") /\ Keep(h, Fresh) /\ Calm
     \/ Fault("red") /\ Over(h)
  /\ Reading

-----------------------------------------------------------------------------
(* The cap: factoryRows and busyWorkers *)

\* worktree.list and workspace.list.
ListRows(h) ==
  /\ at[h] = "rows"
  /\ \/ /\ Keep(h, [pass[h] EXCEPT !.live = Live(h), !.names = branch[h]])
        /\ Goto(h, "reports")
        /\ Calm
     \/ Fault("herdr") /\ Over(h)
  /\ Reading

\* Mutant: a worker between turns holds no slot.
HeldByTheBusy(h, unread) ==
  {i \in pass[h].live : agent[h][i] = "working"} \ (reported[h] \ unread)

\* Every live worker holds a slot until its last report says done, and one whose
\* report could not be read holds it as well.
SlotsHeld(h, unread) == pass[h].live \ (reported[h] \ unread)

\* PaneGet on each of them; a pass at the cap starts nothing.
ReadReports(h) ==
  /\ at[h] = "reports"
  /\ \E unread \in SUBSET pass[h].live :
       LET held == Cardinality(SlotsHeld(h, unread))
       IN  /\ IF unread = {} THEN Calm ELSE Fault("herdr")
           /\ IF held >= MaxWorkers
              THEN Over(h)
              ELSE /\ Keep(h, [pass[h] EXCEPT !.free = MaxWorkers - held, !.live = {}])
                   /\ Goto(h, "list")
  /\ Reading

-----------------------------------------------------------------------------
(* The queue: readyIssues, takenBranches and alreadyStarted *)

ListReady(h) ==
  /\ at[h] = "list"
  /\ \/ /\ open \cap ready # {}
        /\ Keep(h, [pass[h] EXCEPT !.queue = open \cap ready,
                                   !.labelled = open \cap ready \cap inProgress])
        /\ Goto(h, "names")
        /\ Calm
     \/ open \cap ready = {} /\ Over(h) /\ Calm
     \/ Fault("gh") /\ Over(h)
  /\ Reading

ReadNames(h) ==
  /\ at[h] = "names"
  /\ \/ /\ Keep(h, [pass[h] EXCEPT !.names = @ \cup branch[h] \cup remote[h]])
        /\ Goto(h, "look")
        /\ Calm
     \/ Fault("git") /\ Over(h)
  /\ Reading

AlreadyStarted(h, i) == i \in pass[h].labelled \cup pass[h].names

Look(h) ==
  /\ at[h] = "look"
  /\ IF pass[h].queue = {} \/ pass[h].free = 0 THEN Over(h)
     ELSE IF AlreadyStarted(h, Current(h)) THEN NextIssue(h)
     ELSE Goto(h, "claim") /\ UNCHANGED pass
  /\ Calm /\ Reading

-----------------------------------------------------------------------------
(* claimIssue *)

\* Mutant: a ref that is up to date is taken for one this push created.
ClaimUpToDate(h) ==
  /\ at[h] = "claim"
  /\ claim' = [claim EXCEPT ![Current(h)] = h]
  /\ Goto(h, "issue")
  /\ Calm /\ UNCHANGED <<boardVars, hostVars, pass, historyVars>>

\* A create-only push: it makes the ref, or finds that another has it.  One that
\* fails ends the pass, also when origin took it and only the answer was lost.
Claim(h) ==
  LET i == Current(h)
      taken == [claim EXCEPT ![i] = IF @ = Nobody THEN h ELSE @]
  IN  /\ at[h] = "claim"
      /\ \/ /\ claim[i] = Nobody
            /\ claim' = taken
            /\ Goto(h, "issue") /\ Calm /\ UNCHANGED <<pass, leftover>>
         \/ /\ claim[i] # Nobody
            /\ NextIssue(h) /\ Calm /\ UNCHANGED <<claim, leftover>>
         \/ /\ Fault("git") /\ Over(h)
            /\ claim' \in {claim, taken}
            /\ leftover' = IF claim' # claim THEN leftover \cup {i} ELSE leftover
      /\ UNCHANGED <<boardVars, hostVars, made, unbriefed, swept>>

-----------------------------------------------------------------------------
(* start: startCommand and launchWorker *)

\* 2 is exitEnvironment, also of an error nobody classified; 3 stands for the rest.
Failed(h, code) == Goto(h, "giveBack") /\ Keep(h, [pass[h] EXCEPT !.code = code])

\* issueFor, then factoryApproval of an issue that is labelled ready by now.  A
\* refusal needs a human.
ReadIssue(h) ==
  LET i == Current(h)
  IN  /\ at[h] = "issue"
      /\ \/ /\ i \in ready => i \in approved
            /\ Goto(h, "create") /\ Calm /\ UNCHANGED pass
         \/ i \in ready \ approved /\ Failed(h, 3) /\ Calm
         \/ Fault("gh") /\ Failed(h, 2)
      /\ Reading

\* fetchBase and worktree.create, which refuses a branch that exists.  When only
\* the answer is lost the checkout is there and the start has failed.
Create(h) ==
  LET i == Current(h)
      Made == /\ branch' = [branch EXCEPT ![h] = @ \cup {i}]
              /\ made' = [made EXCEPT ![i] = @ \cup (IF i \in open THEN {h} ELSE {})]
  IN  /\ at[h] = "create"
      /\ \/ i \notin branch[h] /\ Made /\ Goto(h, "staff") /\ Calm /\ UNCHANGED pass
         \/ i \in branch[h] /\ Failed(h, 2) /\ Calm /\ UNCHANGED <<branch, made>>
         \/ /\ Fault("herdr") /\ Failed(h, 2)
            /\ \/ i \notin branch[h] /\ Made
               \/ UNCHANGED <<branch, made>>
      /\ UNCHANGED <<boardVars, claim, remote, agent, reported, unbriefed, leftover, swept>>

\* The issue is pinned and the pane staffed.  A pin that fails is the machine's
\* failure, a pane that is not staffed needs a human; a checkout that is gone by
\* now is either.  A start that fails may leave its agent up all the same.
Staff(h) ==
  LET i == Current(h)
      Up == agent' = [agent EXCEPT ![h][i] = "idle"]
  IN  /\ at[h] = "staff"
      /\ \/ i \in branch[h] /\ Up /\ Goto(h, "brief") /\ Calm /\ UNCHANGED <<pass, unbriefed>>
         \/ /\ i \notin branch[h] /\ Calm
            /\ \E code \in {2, 3} : Failed(h, code)
            /\ UNCHANGED <<agent, unbriefed>>
         \/ /\ Fault("staff")
            /\ \/ /\ i \in branch[h] /\ Up /\ Failed(h, 3)
                  /\ unbriefed' = unbriefed \cup {<<h, i>>}
               \/ /\ \E code \in {2, 3} : Failed(h, code)
                  /\ UNCHANGED <<agent, unbriefed>>
      /\ UNCHANGED <<boardVars, claim, branch, remote, reported, made, leftover, swept>>

\* deliverBrief.  A dialog in the way, or an agent that never takes the brief up,
\* needs a human; a herdr call that fails is the environment's.
Brief(h) ==
  LET i == Current(h)
  IN  /\ at[h] = "brief"
      /\ \/ /\ agent[h][i] # "none"
            /\ agent' = [agent EXCEPT ![h][i] = "working"]
            /\ Keep(h, [pass[h] EXCEPT !.free = @ - 1])
            /\ Goto(h, "swap") /\ Calm /\ UNCHANGED unbriefed
         \/ agent[h][i] = "none" /\ Failed(h, 2) /\ Calm /\ UNCHANGED <<agent, unbriefed>>
         \/ /\ Fault("brief")
            /\ \E code \in {2, 3} : Failed(h, code)
            /\ unbriefed' = unbriefed \cup {<<h, i>>}
            /\ UNCHANGED agent
      /\ UNCHANGED <<boardVars, claim, branch, remote, reported, made, leftover, swept>>

-----------------------------------------------------------------------------
(* After the start: releaseFailedClaim and swapLabel *)

\* A failure of the machine ends the pass, one of the issue does not.
GoOn(h) == IF pass[h].code = 2 THEN Over(h) ELSE NextIssue(h)

Working(h, i) == i \in branch[h] \cup remote[h]

\* Mutant: a failed start keeps its claim.
GiveNothingBack(h) ==
  /\ at[h] = "giveBack"
  /\ GoOn(h) /\ Calm
  /\ UNCHANGED <<boardVars, claim, hostVars, historyVars>>

\* Mutant: any failure of a start ends the pass.
GiveBackAndStop(h) ==
  LET i == Current(h)
  IN  /\ at[h] = "giveBack"
      /\ claim' = IF Working(h, i) THEN claim ELSE [claim EXCEPT ![i] = Nobody]
      /\ Over(h) /\ Calm
      /\ UNCHANGED <<boardVars, hostVars, historyVars>>

\* The claim goes back, unless the start left a branch behind.  Listing the
\* branches may fail, or the push may, or only its answer may be lost.
GiveBack(h) ==
  LET i == Current(h)
  IN  /\ at[h] = "giveBack"
      /\ \/ Working(h, i) /\ Calm /\ UNCHANGED <<claim, leftover>>
         \/ /\ ~Working(h, i) /\ Calm
            /\ claim' = [claim EXCEPT ![i] = Nobody]
            /\ UNCHANGED leftover
         \/ /\ ~Working(h, i) /\ Fault("git")
            /\ claim' \in {claim, [claim EXCEPT ![i] = Nobody]}
            /\ leftover' = leftover \cup {i}
      /\ GoOn(h)
      /\ UNCHANGED <<boardVars, hostVars, made, unbriefed, swept>>

\* One call to gh, which may do half of it.
SwapLabel(h) ==
  LET i == Current(h)
  IN  /\ at[h] = "swap"
      /\ \/ /\ inProgress' = inProgress \cup {i} /\ ready' = ready \ {i}
            /\ NextIssue(h) /\ Calm
         \/ /\ Fault("gh") /\ Over(h)
            /\ inProgress' \in {inProgress, inProgress \cup {i}}
            /\ ready' \in {ready, ready \ {i}}
            /\ i \notin ready' => i \in inProgress'
      /\ UNCHANGED <<open, approved, claim, hostVars, historyVars>>

\* A pass is killed.  The claim of a start that had made nothing stays behind.
Crash(h) ==
  /\ Fault("crash")
  /\ at[h] # "idle"
  /\ Over(h)
  /\ leftover' = IF at[h] \in {"issue", "create", "staff", "giveBack"}
                 THEN leftover \cup {Current(h)} ELSE leftover
  /\ unbriefed' = IF at[h] = "brief" THEN unbriefed \cup {<<h, Current(h)>>} ELSE unbriefed
  /\ UNCHANGED <<boardVars, claim, hostVars, made, swept>>

-----------------------------------------------------------------------------
(* Workers, people and the other commands *)

Elsewhere == UNCHANGED <<claim, at, pass, unbriefed, swept>>

\* A worker that was briefed rests between turns, and works again.
Turn(h, i) ==
  /\ agent[h][i] # "none" /\ ~(at[h] = "brief" /\ Current(h) = i)
  /\ agent' = [agent EXCEPT ![h][i] = IF @ = "idle" THEN "working" ELSE "idle"]
  /\ Calm /\ UNCHANGED <<boardVars, branch, remote, reported, made, leftover>> /\ Elsewhere

\* It pushes its branch and reports done with the pull request.
Finish(h, i) ==
  /\ agent[h][i] = "working" /\ i \notin reported[h]
  /\ remote' = [remote EXCEPT ![h] = @ \cup {i}]
  /\ reported' = [reported EXCEPT ![h] = @ \cup {i}]
  /\ Calm /\ UNCHANGED <<boardVars, branch, agent, made, leftover>> /\ Elsewhere

\* prune-apply, once the issue is closed and the agent is not at work.
Prune(h, i) ==
  /\ i \in branch[h] \ open /\ agent[h][i] # "working"
  /\ branch' = [branch EXCEPT ![h] = @ \ {i}]
  /\ agent' = [agent EXCEPT ![h][i] = "none"]
  /\ reported' = [reported EXCEPT ![h] = @ \ {i}]
  /\ made' = [made EXCEPT ![i] = @ \ {h}]
  /\ Calm /\ UNCHANGED <<boardVars, remote, leftover>> /\ Elsewhere

AgentEnds(h, i) ==
  /\ Move /\ agent[h][i] # "none"
  /\ agent' = [agent EXCEPT ![h][i] = "none"]
  /\ reported' = [reported EXCEPT ![h] = @ \ {i}]
  /\ UNCHANGED <<boardVars, branch, remote, made, leftover>> /\ Elsewhere

\* `approve`: the payload as it stands, and the label.
Approve(i) ==
  /\ Move /\ i \in open /\ (i \notin ready \/ i \notin approved)
  /\ approved' = approved \cup {i} /\ ready' = ready \cup {i}
  /\ UNCHANGED <<open, inProgress, hostVars, made, leftover>> /\ Elsewhere

Edit(i) ==
  /\ Move /\ i \in approved
  /\ approved' = approved \ {i}
  /\ UNCHANGED <<open, ready, inProgress, hostVars, made, leftover>> /\ Elsewhere

\* A merge closes the issue, or a person does.
Close(i) ==
  /\ Move /\ i \in open
  /\ open' = open \ {i}
  /\ made' = [made EXCEPT ![i] = {}]
  /\ UNCHANGED <<ready, inProgress, approved, hostVars, leftover>> /\ Elsewhere

\* What a person reopens carries the claim and label it still had, and those a
\* pass that is starting it adds.
Reopen(i) ==
  /\ Move /\ i \in scene.issues \ open
  /\ open' = open \cup {i}
  /\ leftover' = IF claim[i] # Nobody \/ i \in inProgress \/ Started(i)
                 THEN leftover \cup {i} ELSE leftover
  /\ UNCHANGED <<ready, inProgress, approved, hostVars, made>> /\ Elsewhere

\* A person throws the work of an open issue away.
Abandon(h, i) ==
  /\ Move /\ i \in branch[h] \cap open
  /\ branch' = [branch EXCEPT ![h] = @ \ {i}]
  /\ agent' = [agent EXCEPT ![h][i] = "none"]
  /\ reported' = [reported EXCEPT ![h] = @ \ {i}]
  /\ made' = [made EXCEPT ![i] = @ \ {h}]
  /\ leftover' = leftover \cup {i}
  /\ UNCHANGED <<boardVars, remote>> /\ Elsewhere

World ==
  \/ \E h \in Host, i \in Issue :
       Turn(h, i) \/ Finish(h, i) \/ Prune(h, i) \/ AgentEnds(h, i) \/ Abandon(h, i)
  \/ \E i \in Issue : Approve(i) \/ Edit(i) \/ Close(i) \/ Reopen(i)

-----------------------------------------------------------------------------
Step(h) ==
  /\ \/ Begin(h) \/ ListClosed(h) \/ ReleaseClosed(h) \/ Unlabel(h) \/ CheckMain(h)
     \/ ListRows(h) \/ ReadReports(h) \/ ListReady(h) \/ ReadNames(h) \/ Look(h)
     \/ Claim(h) \/ ReadIssue(h) \/ Create(h) \/ Staff(h) \/ Brief(h)
     \/ GiveBack(h) \/ SwapLabel(h)
  /\ UNCHANGED scene

Next == \/ \E h \in Host : Step(h) \/ (Crash(h) /\ UNCHANGED scene)
        \/ World /\ UNCHANGED scene

Spec == Init /\ [][Next]_vars

\* cron, or a loop, runs the passes; nobody owes a worker's progress.
FairSpec == Spec /\ \A h \in Host : WF_vars(Step(h))

-----------------------------------------------------------------------------
(* Properties *)

Labels ==
  {"idle", "closed", "release", "unlabel", "main", "rows", "reports", "list", "names", "look",
   "claim", "issue", "create", "staff", "brief", "giveBack", "swap"}

Passes ==
  [todo : SUBSET Issue, names : SUBSET Issue, live : SUBSET Issue, free : 0..MaxWorkers,
   queue : SUBSET Issue, labelled : SUBSET Issue, code : {0, 2, 3}]

TypeOK ==
  /\ scene \in Scenes
  /\ open \subseteq Issue /\ ready \subseteq Issue /\ inProgress \subseteq Issue /\ approved \subseteq Issue
  /\ claim \in [Issue -> Host \cup {Nobody}]
  /\ branch \in [Host -> SUBSET Issue] /\ remote \in [Host -> SUBSET Issue]
  /\ agent \in [Host -> [Issue -> {"none", "idle", "working"}]]
  /\ reported \in [Host -> SUBSET Issue]
  /\ \A h \in Host : Live(h) \subseteq branch[h] /\ reported[h] \subseteq Live(h)
  /\ at \in [Host -> Labels] /\ pass \in [Host -> Passes]
  /\ events \in 0..scene.moves
  /\ made \in [Issue -> SUBSET Host] /\ unbriefed \subseteq Host \X Issue
  /\ leftover \subseteq Issue /\ swept \subseteq Issue

\* Two machines never work on one issue: since an issue was last opened only one
\* of them made a checkout for it, unless a pass that had listed it as closed took
\* its claim away after it was reopened, or from under a start that was still
\* under way (clearClosedInProgress, claimIssue, releaseFailedClaim).
OneWorker == \A i \in Issue : Cardinality(made[i]) <= 1 \/ i \in swept

InHand(i) == \E h \in Host : at[h] \in {"issue", "create", "staff", "giveBack"}
                               /\ pass[h].queue # {} /\ Current(h) = i

\* The board tells the truth.  A claim on an open issue stands for work: a pass is
\* starting it, or a machine has its branch; and an open issue labelled in
\* progress has its branch on some machine.  Otherwise something was left that a
\* person has to clear: a killed pass, a push whose answer was lost, work thrown
\* away, an issue reopened with its claim on it (claimIssue, releaseFailedClaim).
ClaimsStandForWork ==
  \A i \in open \ leftover :
    LET worked == \E h \in Host : Working(h, i)
    IN  /\ claim[i] # Nobody => InHand(i) \/ worked
        /\ i \in inProgress => worked

\* However passes, turns and deaths interleave, the workers the queue started and
\* briefed on one machine never hold more than --max slots (busyWorkers).
CapKept ==
  \A h \in Host :
    Cardinality({i \in Live(h) \ reported[h] : <<h, i>> \notin unbriefed}) <= MaxWorkers

\* An issue that nothing stands in the way of.
Waiting(i) ==
  /\ i \in (open \cap ready \cap approved) \ inProgress
  /\ claim[i] = Nobody
  /\ \A h \in Host : ~Working(h, i)

Full(h) == Cardinality(Live(h) \ reported[h]) >= MaxWorkers

\* One bad issue does not hold the queue: an approved issue nothing stands in the
\* way of is taken up, however many older ones are refused, unless a machine's
\* slots are taken (the continue and break of factoryCommand).
QueueMoves ==
  \A i \in Issue : Waiting(i) ~> ~Waiting(i) \/ \E h \in Host : Full(h)

=============================================================================
