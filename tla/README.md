# A TLA+ model of worktender

worktender runs coding agents in git checkouts.  Each agent, a *worker*, sits in a pane of the
terminal multiplexer herdr, in a workspace open on a checkout of its own.  worktender itself keeps
no daemon and no database: it is a command, run by people, by herdr's event hooks, by cron and by
the agents.  Its state lies in git, in herdr, on GitHub and in a few small files, and it is changed
by as many processes at once as happen to run.  What can go wrong is therefore rarely in one
function and nearly always between two calls, and that is what these modules are about.

## Inventory

| Part | State | Operations | Hard because |
|---|---|---|---|
| repository lock, `internal/repolock` | a lock file and a dirty mark per repository | Acquire, AcquireOrMark, AcquireWithin, Repeat, TakeDirty, Release | stale files are unlinked by path, pids are reused, hooks stand down and leave a mark |
| planner, `internal/reconcile/reconcile.go` | none: a function of a snapshot | adopt, staff, prune, keep, ghost, close-ghost | it decides deletions from facts that may be absent or unreadable |
| snapshot and loop, `collect.go`, `main.go`, `events.go`, `startup.go` | the snapshot and the passes of one run | Collect, reconcileOpen, prune-apply | the snapshot is many calls, and old when it is used |
| executor, `internal/execute` | none of its own | adopt, staff, prune, release, each with guards | guards and acts are separate calls; answers get lost after the act |
| git and herdr clients, `gitx`, `herdrapi` | none | find a session that answers; questions about commits and pull requests; one request, one answer | no answer is not "no herdr"; a squash merge leaves no commit to find |
| issue queue, `factory.go` | labels on issues, claim refs on origin | one pass: clear, cap, list, claim, start, label | several machines, several steps that fail halfway |
| start, `start.go`, `trustscreen.go` | a checkout, a workspace, a briefed agent | fetch, create, pin, staff, brief | each step leaves something behind when the next fails; a key may hit a dialog |
| approval, `approval.go`, `approve.go` | hashed comments on an issue | approve, verify | the issue may be edited after it was approved, and between any two reads |
| lessons, `lessons.go` | two files per role: live, proposed | propose, approve, remove; `start` reads | a command holds copies while it waits for a person; two writes, no lock |
| gate, `gate.go` | what it saw on each channel | subscribe, baseline, look, judge | answers of an earlier task, lossy terminal, deaths, several workers |
| reports, `report.go`, `metadata.go`, `envelope.go` | tokens and envelopes of a pane | report, number, deliver, confirm | two channels, neither reliable |
| wake, `wake.go` | a queue file per worker | append, poll, claim by rename, type, put back | several processes and a person at one keyboard |
| review, rework, verify, `review.go`, `rework.go`, `verify.go` | a reviewer's pane, a note, check results | review, rework, verify | no lock between them; the pull request, the checkout and its agents move |
| PR feedback, `prfeedback.go` | a state file of what was said | load, look, type, mark, save | several sessions share the file; typed and saved are two steps |
| inbox, dispatch, draft, dagr, refocus | little | read and print, or create issues | long but sequential |
| ledger, stats | append-only files | record, fold | concurrent appends of whole lines |

The parts meet in five places.  Hooks, `sync`, `startup` and `prune-apply` contend for the
**repository lock** and then plan and execute on the same checkouts and workspaces.  `factory` runs
`start`, which uses the executor to staff a pane and hands it **brief, issue and lessons**.  A
worker's `report` writes **pane tokens** a `gate` subscribes to, and wakes the **coordinator** that
dispatched it.  Its **pull request** is watched by `pr-feedback` and reviewed, sent back and
verified by three more commands, two of which use the workspace on its checkout.  Everything else
goes through herdr, git and gh, where people act at the same time.

What makes each part correct is stated by the properties below.  In short: two processes do not
reconcile at once and no event is dropped; nothing in use is ever deleted and every checkout ends up
staffed; one issue gets one worker, which reads what was approved; a gate is released by its own
task's answer and by no other, and always ends; a report reaches the coordinator once and touches
nobody's typing; a verdict is on the commit that was reviewed; news of a pull request is told once.

`PROJECT.json` lists every component, also those not modelled, with the reason, and every hazard
found in the code at its line.

## Modules

| Module | Models | Extends | Checked from |
|---|---|---|---|
| `RepoLock` | the lock file, the mark and the three kinds of run that take the lock | – | `MCRepoLock` |
| `CommandProofs` | theorems about what every command rests on: the lock, the plan, and prune-apply from its dial to the removal | `RepoLock`, `Degraded` | – |
| `Reconcile` | the planner, as operators on a snapshot record | – | the next four |
| `Planner` | that function under every change of one fact | `Reconcile` | `MCPlanner` |
| `Dial` | which herdr session a command talks to, and for which repository | – | `MCPlanner` |
| `Evidence` | what git and gh say of a branch | – | `MCPlanner` |
| `Degraded` | prune-apply from its first dial to the removal | `Planner`, `Dial`, `Evidence` | `MCPlanner` |
| `Reconciler` | Collect, plan, execute with every git and herdr call a step | `Reconcile` | `MCReconciler` |
| `Factory` | several machines' queue passes with `start` | – | `MCFactory` |
| `Brief` | handing an agent its brief, key by key | – | `MCStart` |
| `Start` | from an issue and its approval to a briefed worker; `approve` | `Brief` | `MCStart` |
| `Lessons` | the two files of lessons and who writes them | – | `MCStart` |
| `Onboarding` | either of the two | `Start`, `Lessons` | `MCStart` |
| `Gate` | `gate` against `report`, deaths and a lossy terminal | – | `MCGate` |
| `ReconcilerProofs`, `GateProofs`, `FactoryProofs`, `OnboardingProofs`, `WakeProofs`, `FeedbackProofs`, `SendBackProofs` | theorems about the module each is named for | that module | – |
| `Outbox` | what a coordinator is promised: the abstract specification of `Wake` | – | `MCWake` |
| `Wake` | the wake queue and the coordinator's composer | `Outbox` by INSTANCE | `MCWake` |
| `Feedback` | the passes of `pr-feedback` over one state file | – | `MCFeedback` |
| `PullRequest` | a pull request, its branch, checkout and workspaces, and how they move | – | `MCSendBack` |
| `Review`, `Rework`, `Verify` | one command each | `PullRequest` | `MCSendBack` |
| `SendBack` | runs of the three beside each other, and the properties | the three | `MCSendBack` |

Operators named in a comment as *Mutant* are alternative bodies that stand for a plausible bug; each
property is shown to fail under one of them.  *History variables* are read by no action of the code.

### RepoLock

`pc[p]` is where an invocation stands in `Acquire`, `AcquireOrMark` or `AcquireWithin`, then in
`Repeat`, then in `Release`; each system call is a step. `lockFile` is whose record the file holds,
`expired` whether it is older than `MaxHold`, `dirty` the mark.  `grant` distinguishes a real lock
from the degraded one a run gets in an unusable state directory.  `Judge` takes the read and the
liveness test of the pid together: between them only the owner's death changes the answer, and that
is what a later judgement sees.  `Remove` and `Release` unlink a *path*, so they remove whatever is
there by then; `Victims` says whom that robs.  Faults: a kill, expiry, an unusable directory, a
failing pass, a reused pid, a failing unlink, a file left from an earlier boot.

History: `covered` is the hooks whose event precedes the snapshot of some pass, `robbed` the holders
whose file somebody else removed, `lossy` that a mark was dropped with no pass to follow: a kill or
failure after the mark was taken, a mark that could not be written, or the cap of `Repeat`.

### Reconcile, Planner, Reconciler

`Reconcile` follows `reconcile.go` rule by rule; a path stands for the checkout it resolves to, and
reasons shown to the user are left out.  In `Planner` the variable is the snapshot, and a step
changes one fact, gives `--release-agents`, or carries the plan out.

`Reconciler` has the world (`onDisk`, `dirty`, `ahead`, `held`, `agent`, `report` and so on) and,
for each runner, what it remembers (`run`: the snapshot so far, the plan, what the guards saw).
`Collect` reads that world call by call; `Execute` carries the plan out, and every guard is its own
step before the act.  Calls of herdr may fail, or take effect and lose their answer.  People and
agents edit, commit, merge, open, close, start and stop between any two steps.  `Serialised` says
that the repository lock excludes, which is what `RepoLock` shows where nobody is robbed.

What is run, on what, and how much may happen meanwhile is a `scene`, a variable that never changes;
`Scenes` gives the instance its list.  `Kind`, `MaxPasses` and the like are operators of it, so that
one run answers for prune-apply and for sync, which have most of their code in common.  `Factory`
has scenes too.

History: `since[r]` is what has held ever since the guards of the action runner `r` is carrying out
began; `lost` is those of them the act destroyed, with a busy agent in another workspace on the
checkout than the one the guards looked into told apart (`beside`). So a change between guard and
act, which no program without a herdr-side transaction can exclude, is not counted; a change before
the guards is. `doubled` is panes given a second agent while the first was coming up.

### Dial, Evidence, Degraded

`Dial` follows `Probe`: the socket a command was told to use, then the default session and each
named one that has a folder; every dial is a step, and at each endpoint a session is `live`, `busy`
(there, and too slow to accept), `stale` (a socket with nobody behind it) or absent, and changes in
between.  `Root` is which repository the command then works in.  `Evidence` is a small git history:
a commit has parents and *brings* changes, and a squash brings changes whose commits the trunk never
gets; what people do is commit, push, fetch, squash, merge, open, close, reopen and delete, and what
the code asks is `IsAncestor`, `OffTrunk`, `UpstreamGone` and the state of the pull request
(`GhPRState`).  `Degraded` runs prune-apply on both, one question a step, and
plans with the operators of `Reconcile`.  A behavior is either one of `Planner`'s or one command's,
whose snapshot becomes `Planner`'s state: the properties of the planner hold of it too.

`IsState` says what a Collector may hand over: git lists a checkout once, herdr a workspace once, and
the workspace a checkout is listed with is on that checkout.  It is an `ASSUME` of the States a
behavior starts from, and is proved of every later one, the snapshot of prune-apply among them.

History: `there` is the sessions whose agent has been in the checkout all along, `first` the tip
when the first question about commits was asked, `merged` that the pull request was merged when it
was looked up.

### Factory

Machines share `open`, `ready`, `inProgress`, `approved` and `claim`, which is the refs under
`refs/worktender/claims/`; `branch`, `remote`, `agent`, `reported` are each machine's own.  `at[h]`
follows `factoryCommand` from `clearClosedInProgress` through the red gate, the cap, the listing and
the loop to `start`, `releaseFailedClaim` and `swapLabel`; `pass[h]` is its local variables.  A step
is one call whose answer the pass acts on, and it can fail, lose its answer, or, for the label swap,
happen by half. `start` is four steps, after each of which it can fail and leave a checkout, an
agent, or an agent with no brief.  Exit codes are reduced to 2, which stops the pass, and 3, which
stands for the rest.  A machine runs one pass at a time, as `docs/dispatch.md` asks (one loop, or
`flock`).

Exceptions: `leftover` is issues something was left on that no pass clears: a killed pass between
claim and checkout, a claim or its deletion whose answer was lost, an abandoned checkout, an issue
reopened with its claim.  `swept` is an issue whose claim a pass cleared while it was open, or while a
start of it was under way, see below.  `unbriefed` is agents whose start failed after they came up.

### Brief, Start, Lessons, Onboarding

`Brief` is `deliverBrief`: wait until herdr says the pane takes input, look at the screen, type,
press Enter and look again.  `screen` is what the pane really shows and `box` whose text is in it;
the agent comes up, puts up a dialog, works, asks, exits, and a person types, between any two calls.
`echoed` is whose prompts the transcript still shows, which is all the code has to tell an agent
that took its brief and finished from one that never saw it.  History: `taken` is whose brief was
taken, `blind` the keys that hit something other than a composer, with whether a look could have
seen it, `judged` what the code concluded and from what.

In `Start` each delivery is of a kind: a `start` that looks for an approval, a `start --sha256`
that was given one, and the prompt of a `rework` (`start`, `hash`, `live`). A text stands for an
issue's title and body, for its canonical form and for its hash, which determine one another.  The
issue, its label, its comments and who may write change at any time; `approve` shows the text, waits
for a person, and posts.  History: `confirmed` is who said yes to what, `lacked[d]` the accounts
which lacked write access at some time during the start.

`Lessons` has one role's two files, each read whole and replaced whole, and `hand`, the copies a
command holds while it waits for a person.  People edit both files, break their format, and days
pass; a command may die between its two writes.  History: `agreed` is the lessons a person said yes
to as they were shown, `fate` what last became of each, `clobbered` those that a stale copy of a
file overwrote, `anew` the approvals whose lesson was proposed again after they published it.
`Onboarding` puts the two behind one next-state relation: the only thing they share is the command
that pins both for a worker, one file after the other, so a behavior moves one of them.

### Gate

`tokens` and `screen` are the two channels of a pane; a report carries whether it is `new` (came
after the gate's baseline of that channel), which the gate itself cannot see.  `stream` is the
frames herdr has pushed and the gate has not read; a new subscriber is handed a backlog, in any
order.  `gate.todo` is the channels left to read after a frame, which are read in the order the
workers were named, and `gate.fresh` what was news there; both are sets, and `First` says which
report decides.  A report is written and confirmed step by step by each `writer`.  A timeout may
happen at any wait.

History: `judged` is whose reports the gate weighed, `lastWords` what a pane's channels had when its
worker ended.  The others name what the code cannot see: `spoiled`, a report that took a number
already taken, was cleared or scrolled away, or was covered by another's after its own worker had
ended; `unread`, a channel that could not be read at some look, and `blind`, at the baseline;
`early`, a death before the subscription.

### Outbox, Wake

`Outbox` is the promise, with no file, pane or process in it: an entry is new, owed, told or
dropped; it is owed until a line that says it and nothing else was submitted; once that is known it
is not said again; and it is dropped only where there is an excuse.  `Wake` is how that is done.
Every file operation is a step: opening and writing the queue are two, so a process may hold an open
file that was renamed away (`fd`).  `composer` is the coordinator's input box: wake lines and human
text.  The refinement mapping (`Box`) reads the status of an entry off the files and hands it may be
in: it is `owed` where the queue, a claim or a process that means to type it or put it back has it,
and it is `lost`, which `Outbox` does not know, where nobody has it and nothing excuses that.
`excused` is entries nothing in the code keeps (the process died with them, they were written to a
file already claimed, the coordinator is gone), `old` those past the age the queue keeps, `slipped`
processes behind whose last check the composer changed.

### Feedback

A pass loads the state file (`file`) into `mem`, looks each branch up, asks herdr whether the worker
is at its prompt, types the notice, marks it in memory, and saves at the end through one `tmp` name
and a rename, `fd` being what a pass has open.  Two sessions' passes share the file with no lock.
History: `told` counts what the worker has read of each item, `notices` the rounds, `held` and
`redTold` what was printed for a person once the rounds were used up or told of a check, `warned`
where the last notice was announced as such; `spoiled` is the branches of which a mark was lost: a
kill, a failed save or a lost answer after the typing, or two passes over one another; `forgotten`
those whose pull request was looked up while closed.

### PullRequest, Review, Rework, Verify, SendBack

A commit is the set of changes it contains, so an ancestor is a subset; branches are pushed
fast-forward only.  `PullRequest` has what GitHub says (`prOpen`, `head`, `checks`, `text`,
`approved`), the disk (`checkout`, `dirty`, `local`, `tracking`) and herdr (`spaces`, `agents`,
`busy`), and how people, workers and CI change them.  `Review`, `Rework` and `Verify` are the three
commands call by call; `at[r]` is where a run stands, and by where it begins it is told which
command it is.  A reviewer is an agent in the worker's workspace, in the model as in herdr.
`SendBack` starts any two together.  `Watch` keeps the histories: `heldOn` and `green` are reviews
whose commit was at the head, and green, at some time after the verdict had arrived, `agreed` the
texts that were the issue's and approved meanwhile, `known` what the branch held when a rework had
looked, `there` the agents it had listed, `offered` the pull request's commit, `lost` what was
destroyed.  In `Verify` `truth` says which checks are met by the base and by the head, and a check
that runs may still time out or not find its dependencies.

## Runs

All are exhaustive for their bounds.  Bounds are named constants, and every property is also shown
to fail under the mutant listed for it in `PROJECT.json`.

| Run | Instance | Shows |
|---|---|---|
| `lock_faults` | two hooks and a prune-apply; kill, expiry, leftover file | `Exclusion`, `NoOrphanLock`, `JudgedFairly` |
| `lock_marks` | a hook, a sync, a prune-apply; unusable directory, failing pass, reused pid, failing unlink | `MarkKept`; every run ends |
| `planner` | every state of one linked checkout and up to two workspaces; and prune-apply beside two sessions that move, or beside a branch that does | `EverythingAnswered`, `DoubtRemovesNothing`, `Idempotent` of the plan; `GroundIsSpared`, `RemovalIsMeant` of the command |
| `prune_silent` | prune-apply beside two sessions | violation: a session that does not answer is taken for absent |
| `reconcile` | four scenes: two syncs; a prune-apply that may release agents with three moves of people; the same called from the checkout; a prune-apply and a sync | `NothingLost`, `CommitsSurvive`, `NothingTwice`, `SyncConverges`; every run ends |
| `gate` | two workers, one answered before; a baseline read, a write, `gh` or the stream may fail, the tokens be cleared | `NotStale`, `NoSleepOnNews`, `HeardBeforeLost`; it ends |
| `wake` | two reports of one worker, one coordinator, a person | `Delivers` (the refinement), `NothingElse`; both end |
| `factory` | three scenes: two machines with one issue; one machine with a queue of two and a cap of one; both, with no fault | `OneWorker`, `ClaimsStandForWork`, `CapKept`, `QueueMoves` |
| `feedback` | two sessions, one branch, up to two pull requests of it | `SaidAsMarked`, `RoundsKept`, `NewsTold` |
| `start` | one delivery of each kind with an approve; or two commands on lessons, an editor and a start | `WorksFromTheApproved`, `RefusedForCause`, `NoBlindKey`, `IdleIsReadRightly`, every start ends; `TaughtAsAgreed`, `LessonsKept` |
| `sendback` | two runs of review and rework, in any pair; or one of verify | `VerdictHolds`, `ReworkLosesNothing`, `WorkersSpared`, `VerifyProves` |
| `sendback_reviewer` | a review, then a rework; no fault | violation: the work goes to the reviewer |

Why these bounds.

- *Lock.*  The interesting cases need one process that judges, one that replaces the file and one
  that holds it: three.  `Repeat` with one pass already reaches its cap, which is where marks are
  dropped; the program's value of three only repeats the loop, and the theorems cover every value.
- *Reconcile.*  Actions on different checkouts meet only through the panes and workspaces of one, so
  one checkout with two workspaces has every conflict; three moves allow one before, one inside and
  one after the guards.  *Planner* needs two workspaces for a ghost beside a live one.  Four commits
  hold a fork, a squash and a commit after it; two pull requests of one branch can be in any order.
- *Factory.*  Two machines on one issue with two faults or moves of people: a reopening and an
  approval, or a fault and its consequence; `OneWorker` fails within them without its exception.
  The second issue matters only for the order of the queue and the cap, which one machine shows,
  with three.
- *Gate.*  One writer and one old report suffice to confuse two answers, and a second target to
  confuse two workers.  A later read fails in the run only on a closed pane; that any read may fail
  is the fault `readFails`, under which the run passes in place of `baselineFails`, and the theorems
  have both.
- *Wake, feedback.*  What goes wrong is between two processes over one file; with one branch each
  mark that is lost can be seen, and a cap of one round is reached by every notice.
- *Start.*  One delivery, since each has a pane of its own; three texts are one that is approved,
  one it is edited into and one that does not parse; a window of two comments is one that pushes
  another out.  Two lessons let two commands differ in what they change of one file; two edits pass
  too.
- *Send-back.*  Two runs, since every conflict is of two; three changes, of which the pull request
  has one or two at first.

Symmetry is used in `lock_faults` (the two hooks) and `sendback` (runs, checks), which check no
liveness.  Deadlock is not checked: every process here ends, or waits for people, and then nothing
need happen.

## Fairness

Weak fairness is asserted of a process's own steps only: a process that was started is scheduled
until it ends.  In `Reconciler` also of a launch under way, which herdr ends.  In `Factory` and
`Feedback` passes repeat, since cron or a loop runs them.  Nothing is assumed of people, of workers,
of reviewers, of the coordinator, of faults or of the clock: a gate ends by its own timeout, a wake
by `wakeWait`, a brief by `agentReadyWait` and `briefConfirmWait`, a pane's wait by its budget.
`SendBack` states no liveness and no fairness.

## Proofs

Eight modules of proofs, for every value of the constants that satisfies the `ASSUME`s of the module
they are about, and from nothing else: all safety properties and action properties of the passing
runs are theorems.  None of them is inductive alone.  Each module
states its inductive invariant `IInv` before the lemmas, as a conjunction of named parts (in
`CommandProofs` there is a second one, `CommandInv`); it was
given to TLC first, and most of its parts are what TLC or the prover refuted the plainer version
with.  The proofs go one action at a time: lemmas say what a step does to the variables a part
reads, one lemma for each part shows that it survives, and PTL joins `Init => IInv` and the step
into the theorem, of which each property is a corollary.

| Module | Theorems | State |
|---|---|---|
| `CommandProofs`, lock | `TypeCorrect`, `MutualExclusion`, `NoLockOutlivesItsHolder`, `NoMarkIsLost`, `StealsAreMisdirected` | `Exclusion`, `NoOrphanLock`, `MarkKept`, `JudgedFairly` |
| `CommandProofs`, plan | `PlansAreWhole`, `DoubtSpares`, `PlansSettle` | `EverythingAnswered`, `DoubtRemovesNothing`, `Idempotent` |
| `CommandProofs`, prune-apply | `GroundSpared`, `RemovalMeant` | `GroundIsSpared`, `RemovalIsMeant` |
| `ReconcilerProofs` | `GuardsHold`, `BranchesKept`, `SyncsConverge`, `NothingOpensTwice` | `NothingLost`, `CommitsSurvive`, `SyncConverges`, `NothingTwice` |
| `FactoryProofs` | `OneMachine`, `BoardIsTrue`, `NeverOverMax` | `OneWorker`, `ClaimsStandForWork`, `CapKept` |
| `OnboardingProofs` | `ReadsTheApproved`, `NotRefusedWithout`, `KeysAreAimed`, `ScreenTells`, `TeachesTheAgreed`, `LessonsStay` | `WorksFromTheApproved`, `RefusedForCause`, `NoBlindKey`, `IdleIsReadRightly`, `TaughtAsAgreed`, `LessonsKept` |
| `GateProofs` | `EndsOnNews`, `NeverSleepsOnNews`, `HearsFirst` | `NotStale`, `NoSleepOnNews`, `HeardBeforeLost` |
| `WakeProofs` | `QueueDelivers`, `OnlyTheLine`, `Accounted` | `Delivers` (the refinement), `NothingElse` |
| `FeedbackProofs` | `MarksAreTrue`, `RoundsAreKept` | `SaidAsMarked`, `RoundsKept` |
| `SendBackProofs` | `ReviewHolds`, `VerifyIsRight`, `NothingLost`, `AgentsSpared` | `VerdictHolds`, `VerifyProves`, `ReworkLosesNothing`, `WorkersSpared` |

- *Lock.*  `ControlInv`: a grant is held only past the claim, and the pass counter is below its cap
  where a pass is about to run.  `OwnerInv`: an unrobbed holder still owns the file, which makes a
  second successful `link` impossible.  `JudgedInv`: a process about to unlink has judged an owner
  that is past caring or expired.  `MarkInv`: `MarkKept` for every hook that has marked, also before
  it stands down; without that the step in which it stands down proves nothing.
- *Plan.*  A plan is four sequences in a row, each the elements of a list at some of its indices
  (`Picked`).  The lemmas say what that is: each index takes a place of its own and all places are
  taken (`Ranks`), by counting.  From there `PruneIs` and `GhostsAre` have an answer for each
  checkout and each ghost and none twice, `RowOnce` carries that into the row, and `RemovalsAre`
  says which rows take something away.  Then a doubt is one of five changes of a State, none of
  which spares less; and what is left of a State after its plan was carried out is a State in which
  every workspace that was staffed is found as before (`StaysLatest`, `PickedState`), so no rule
  finds anything (`NothingLeft`).  That States stay States (`IsState`) is `ShapeInv`; that herdr
  lists a workspace on the checkout it names is needed: without it, closing one workspace could
  uncover another on the same path.
- *prune-apply.*  `DialInv` accounts for every agent that was there all along: its session is the one
  that was named, or has answered, or kept silent, or is still to be dialled, or had no folder that
  could be read; and the guard before the removal has asked the session that was chosen.  `RootInv`
  keeps what the command was told of its repository.  `HistoryInv`: the trunk as it was last fetched
  is behind the trunk, and the tip that was found in it is behind it too, whoever commits, squashes
  or fetches after that.  What a commit reaches is the least set that has the commit and the parents
  of all it has, so that a history that grows (`ReachGrows`) and a trunk that moves (`TrunkMoves`)
  need no induction along it.  `EvidenceInv`: what prune-apply decides on is a merge.  gh lists the pull
  requests in any order, with dates or without, and `GhPRLookup` passes along the list once; that
  it never leaves a closed one that nothing is newer than for a merged one (`ClosedStays`, by a least
  counterexample) makes its answer `MERGED` mean that the newest one is (`MergedIsNewest`).
- *Reconcile.*  `GuardInv` is one clause a guard: what a runner has looked for and not found is not
  among what has held since its guards began, from the guard to the act.  An agent that was there all
  along is therefore in what it saw (`Sees`), and the panes of the workspace it takes are without one
  (`Vacant`).  For that the workspace must be the checkout's and the pane the workspace's, which is
  `PlanInv`: a snapshot is made of readings that were so when they were made (`Genuine`), a plan made
  from it names no other pairs (`Sound`), and herdr hands no workspace id out twice (`HeldStep`).
  The planner's four rules are covered by `PlanSound`; `Picked` stands where a recursive selection
  would have kept them out of the prover's reach.
- *Reconcile, left alone.*  `SyncConverges` and `NothingTwice` speak of what runs do when nobody
  moves anything, so their invariants stand beside `IInv` and begin with `moves = 0`.  `SyncInv`
  follows one sync: every linked checkout is in the listing or in a workspace of the snapshot, or
  has been left to the trailing pass (`Accounts`); once there is a plan every one has an agent or an
  action that will give it one, now or in that pass (`Serves`); and what other runs do in between
  changes nothing the plan rests on (`Settling`).  `OnceInv` is about all of them: one runs at a
  time (`TurnInv`), a launch under way has somebody waiting for it or given up on it
  (`StartingInv`), the listing has every open workspace (`KnownInv`), no checkout has two
  (`ApartInv`), and what a run read before it opens one is still so (`OpeningInv`).  Both use
  `ListingAssumption`: git lists a checkout once, and a workspace has a pane.  `NothingOpensTwice`
  has the hypothesis `Orderly`: runs serialise, the listing lags only where nobody syncs, and no
  checkout has two workspaces to begin with.  Without the first two it is false, as said below under
  *Reconcile*; the scenes of the run satisfy it, by an `ASSUME` in `MCReconciler`.
- *Queue.*  `OneWorker` counts checkouts; what keeps them apart is `ClaimInv`: whoever starts an
  issue or has a checkout for it has the claim, unless the claim was cleared from under it.
  `BoardInv` carries the board through a start (past the creation there is a branch, or somebody
  did something to the issue since), and `SlotInv` is the arithmetic of the cap: the briefed workers
  other than the one coming up, and the slots the pass believes are free, are at most `--max`,
  whoever died or finished since the pass looked.
- *Start.*  `Stands` is what a delivery has found out at each place it may stand: nothing is pinned
  before the judgement, what is pinned may be read, and whoever could not be shown to have write
  access lacked it all along.  `ConfirmedInv` says that a listed person's comment names what they
  were shown.  `PaneInv`: what the delivery was told of its pane holds until the pane moves;
  `BoxInv`: its brief is in one place.  That a listed person approves by the command alone, and not
  by writing the comment by hand, is an assumption of the model (`CopyApproval` is by others).
- *Lessons.*  `AgreedInv` covers the files and the copies commands hold, but for the lesson somebody
  is just being asked about; `DropInv` is why the second write of `approve` loses nothing.
- *Gate.*  `TakenInv`: what is new in a channel came after its baseline, so before it nothing there
  is.  `NumberInv` and `OldInv`: the number a channel shows, and the mark, are some report's, so what
  is above the mark is new whatever scrolled or was cleared; only a failed baseline leaves a mark
  that says less.  `FreshInv` carries that into the look.  `DueInv` is why it cannot sleep: past the
  subscription a frame is due, or a look is under way, for every death and for every report in the
  metadata that was neither weighed nor lost.  `StayInv` and `LookInv` are why a death is not acted
  on first: nobody writes over the last words of an ended pane without spoiling them, they stay above
  the mark until they are read, and the look that a death causes comes to both channels before it
  weighs anything.
- *Wake.*  `Delivers` says that each step, seen through `Box`, is a step of `Outbox` or none.  The
  mapping reads an entry's status off files and hands, so what has to be invariant is that an entry
  is in one place (`OnePlace`, with `FileInv` and `PlacedInv` for a file opened and then renamed
  away), that what waits is untold, and that what neither waits nor was told has an excuse
  (`OwedInv`).  Then every action moves, adds or removes entries of one hand, and the lemma for it
  names the action of `Outbox` it is.  `NothingElse` needs only `EnterInv`.
- *Feedback.*  `Marks` says a record, wherever it is, marks nothing that was not said; that is
  `SaidAsMarked`.  That nothing is said twice is the converse, `CoverInv`: the memory of the pass
  that runs, and the file until that pass types, have everything that was typed.  Two passes at a
  time break it, which `AloneInv` turns into `spoiled`.
- *Send-back.*  `ReviewInv`: what a review carries from one read to the next.  `LooksInv`: all a
  rework knew of is pushed before it closes anything, and what the pull request held is fetched
  before it is needed; `BranchInv` is what git keeps true meanwhile.  `SpaceInv`: the workspace
  about to be closed holds no agent the rework had listed.

Assumed of the constants, and evaluated by TLC on the instances: of the lock, kinds, names and
bounds; of the planner `InitialAssumption`; of prune-apply `EndpointAssumption` (the endpoints are
those of a list that is not empty), `MachineAssumption` (a commit's parents are in the history and a
list of pull requests is in the order of their opening, agents are in sessions that are up) and
`SnapshotAssumption` (the main checkout is another than the one to be removed); of the others, what
the bullets above name.

Left to TLC: liveness, which needs fairness and ENABLED (`StartEnds`, `QueueMoves`, `NewsTold`,
`GateEnds`, `ReportsEnd`, `RunnerEnds`, `EveryRunEnds`); and what is violated, since one behavior
shows it.

## Disagreements with the code's own words

Two have a run: `prune_silent` and `sendback_reviewer`, both in `PROJECT.json` under "findings" with
the lines.  The others are stated as operators, below the heading *What the repository says and the
code does not do* of their modules where TLC can show them, with the instance named here; or are
named in a comment as the exception of a property.

*Lock.*
- A stood-down hook can be dropped: `Repeat` looks for the mark before the lock is released; a hook
  that fails its second `Acquire` between the two is covered by nobody (`StandDownIsNeverDropped`,
  with `Kind <- ThreeHooks`).
- With three hooks and no fault a hook may unlink the file of a live holder it never judged
  (`Exclusion` names this case, `robbed`).
- prune-apply does not take a mark it finds, as its own comment says.

*Reconcile.*
- A second workspace's agent is not seen: `workspacesByPath` keeps one workspace per path
  (`GroundKept`, with `Scenes <- Doubled`).
- Two syncs that do not serialise may both launch an agent, and a second pass adopts twice where
  `worktree.list` lags.
- An unreadable folder of sessions is taken for none; a named socket means that other sessions are
  not asked; called by herdr with no directory in its context, a command falls back to the plugin's
  own checkout if herdr is gone at the dial.  `GroundIsSpared` and `RemovalIsMeant` except these.
- `IsMergedInto` reads ancestry and tip at different times, so a commit made between them can make a
  branch look merged: the checkout goes, the branch stays.

*Queue and start.*
- A start that fails after its agent came up takes no slot in its own pass, so the pass may exceed
  `--max` (`docs/dispatch.md` says every live worker holds a slot).
- Clearing the claim of an issue that was reopened since it was listed as closed lets a second
  machine claim it; so does clearing it while a start of the issue is under way, if the issue is
  reopened afterwards (`swept`).  The second case came out of the proof of `OneWorker`.
- `start` does not look at whether the issue is still open.
- `submitBrief` returns success on a done or blocked agent whether or not it took the brief
  (`BriefedIsTaken`, in the instance of `start`); an echo of an earlier brief that reads the same
  counts as taken; and `rework` types into the prompt of a worker that is blocked on a question.
- `launchWorker` does not count a `staff` that was skipped as a failure.

*Lessons.*
- `approve` holds copies of both files while it waits for a yes, so a lesson removed meanwhile comes
  back, and drafts edited or added meanwhile are overwritten (`RemovedStaysRemoved`, in the
  instance of `start`; the head of `lessons.go` says there is nothing cached anywhere to resurrect
  it).
- `approve` publishes and then takes the draft out in a second write.  If between the two somebody
  removes the lesson, drops its draft and proposes it again in the same words, the second write
  drops the new draft, and the lesson is in neither file.  `LessonsKept` excepts it (`anew`,
  `clobbered`); the proof found it.

*Gate, reports, wake.*
- `readChannels` drops a channel it could not read, so after a failed baseline read an old report is
  news and can release the wait; `NotStale` excepts such a pane (`blind`), and fails in the run
  without the exception.
- A death between `resolveTargets` and `Subscribe` is waited out (`early`); two overlapping reports
  of one pane take the same number (`spoiled`).
- Two workers' reports both type: the queue is per worker, the composer per coordinator; neither line
  is then alone, and both are put back (`OneTypes`, with `Of <- Apart` and two workers).
- An entry appended to a queue already claimed is lost (`excused`).

*Pull requests.*
- A check that recovers and fails again while its news is deferred is not told
  (`RecoveredIsForgotten`, with `MaxRounds = 2`); closing and reopening a pull request resets its
  rounds; two passes share one `.tmp`.
- `verify` counts a check as failing on the base when the base's dependencies did not install and it
  exited with a code (`VerifyProves` excepts it).
- `review` does not look again at whether the pull request is open; a second review of the same
  commit wants the name of the first reviewer, whose pane is left open.
- Two reworks at once can remove the checkout under the first one's new worker and overwrite each
  other's pinned note.  A commit made between `checkNothingOnlyLocal` and `branch -D` is lost, and
  an agent started between `liveWorker` and the close of its workspace is killed; the properties
  count what was there when the rework looked.

*Read, not modelled.*  After `reset --hard` a failed rebuild leaves the checkout of `update` at the
new commit, and the next `update` says it is already current.

## Not modelled

The inbox and `agents`, dispatch, draft and dagr, refocus, the ledger and statistics, doctor, update
and version: they read and print, or take one sequence of steps by one process over state that no
other part acts on.  Roles and configuration are pure functions over text, read once a run.  The
listing is modelled as far as the queue counts slots by it.  Of the executor, per-owner tokens and
rendering are left out; of the loop, `prune` and `plan`, which print.  Parsing, rendering and JSON
are left out everywhere, and the generated types of the herdr client with them: a call is a step
that answers, fails, or loses its answer.  Of lessons, a hand edit of an expiry date and `list`; of
verify, its scratch directories.  `PROJECT.json` has the reason with each component.

## Plan

The plan was: the lock and the reconcilers first, since every command goes through them; then the
parts in which several processes or machines share state (queue, start and approval, gate, wake,
feedback, send-back); then the facts a removal rests on; and for each its proofs.  All of that is
done: every safety property a run checks is a theorem.  Worth doing next, in this order:

1. `update`: that a failed rebuild leaves a checkout the next run takes for current is read, and no
   module has it.
2. The other readers of the snapshot, `prune` and `plan`, as refinements of what `prune-apply` plans.
3. The inbox, as one more consumer of the tokens `Gate` has.

The liveness properties stay with TLC, for as long as its fairness is out of the prover's reach.
