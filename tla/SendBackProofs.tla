--------------------------- MODULE SendBackProofs ---------------------------
(***************************************************************************)
(* Theorems about SendBack for any number of runs beside each other, any     *)
(* checks and texts, every set of faults and all bounds.                     *)
(***************************************************************************)
EXTENDS SendBack, TLAPS

ReviewLabels ==
  {"view", "checks", "place", "issue", "live", "split", "await", "reread", "recheck", "post"}
ReworkLabels ==
  {"approval", "pr", "spaces", "agents", "pin", "tell", "fetch", "status", "ancestor", "close",
   "remove", "branch", "create", "launch"}
VerifyLabels == {"verify", "base", "head", "judge", "revert"}

-----------------------------------------------------------------------------
(* The inductive invariants *)

\* What a review carries from one read to the next: it vouches for a text only if
\* it was approved meanwhile, its verdict is its reviewer's, and past the two looks
\* at GitHub they have been taken.
ReviewInv ==
  \A r \in Run :
    /\ at[r] \in {"view", "checks", "place", "issue", "live"} => ~vouched[r]
    /\ vouched[r] => judged[r] \in agreed[r]
    /\ at[r] \in {"view", "checks", "place", "issue", "live", "split", "await"} => verdict[r] = "none"
    /\ verdict[r] = "pass" => report[r] = "pass"
    /\ at[r] \in {"recheck", "post"} => r \in heldOn
    /\ at[r] = "post" => r \in green /\ outcome[r] = Decided(r)
    /\ at[r] \in ReviewLabels \ {"post"} => outcome[r] # "verified"

\* What a verify carries: what ran on each commit, and why the tests are run at all.
Discriminates(v) ==
  /\ \A c \in Check : Class(v, c) \in {"discriminating", "guard"}
  /\ \E c \in Check : Class(v, c) = "discriminating"

VerifyInv ==
  \A v \in Run :
    /\ at[v] \in {"head", "judge", "revert"} => onBase[v] \in RunsOf(truth[v].base)
    /\ at[v] \in {"judge", "revert"} => onHead[v] \in RunsOf(truth[v].head)
    /\ at[v] = "revert" => Discriminates(v)
    /\ at[v] \in VerifyLabels => result[v] = "none"

\* The branch: what was fetched was pushed, a worktree is on a branch, and no change
\* has a number not made yet.
BranchInv ==
  /\ tracking \subseteq head
  /\ head \subseteq 1..made
  /\ local = NoBranch \/ local \subseteq 1..made
  /\ checkout => local # NoBranch

\* What a rework has looked at: all it knew of is pushed before it closes anything,
\* and what the pull request held when it looked is fetched before it needs it.
LooksInv ==
  /\ \A x \in lost : at[x[1]] \in {"create", "launch", "over", "failed"}
  /\ \A r \in Run :
       /\ known[r] \subseteq 0..made
       /\ at[r] \in {"close", "remove", "branch"} /\ local # NoBranch => known[r] \cap local \subseteq head
       /\ at[r] \in {"spaces", "agents", "fetch"} => offered[r] \subseteq head
       /\ at[r] \in {"status", "ancestor", "close", "remove", "branch", "create", "launch"}
            => offered[r] \subseteq tracking

\* A workspace about to be closed held nobody the rework saw.
SpaceInv ==
  \A r \in Run :
    /\ at[r] \in {"approval", "pr", "spaces"} => home[r] = 0
    /\ at[r] \in {"fetch", "status", "ancestor", "close"} => \A a \in there[r] : a[1] # home[r]

IInv ==
  /\ TypeOK /\ ReviewInv /\ VerdictHolds /\ VerifyInv /\ VerifyProves
  /\ BranchInv /\ LooksInv /\ ReworkLosesNothing /\ SpaceInv

-----------------------------------------------------------------------------
USE PullRequestAssumption, VerifyAssumption, SendBackAssumption

\* Each command goes its own way: a step of a run moves that run, along its labels.
MovesIn(r, labels) ==
  /\ at[r] \in labels
  /\ \E l \in labels \cup {"over", "failed"} : at' = [at EXCEPT ![r] = l]

LEMMA ReviewMoves == ASSUME NEW r \in Run, ReviewStep(r) PROVE MovesIn(r, ReviewLabels)
  BY DEF ReviewStep, View, Checks, Place, Issue, LiveIssue, StartReviewer, AwaitReviewer, Reread,
         Recheck, PostReview, Ends, Fails, GoTo, MovesIn, ReviewLabels

LEMMA ReworkMoves == ASSUME NEW r \in Run, ReworkStep(r) PROVE MovesIn(r, ReworkLabels)
  <1> USE DEF Fails, GoTo, MovesIn, ReworkLabels
  <1>1. CASE Confirm(r) \/ FindPR(r) \/ ListSpaces(r) \/ PinNote(r) \/ Tell(r)
    BY <1>1 DEF Confirm, FindPR, ListSpaces, PinNote, Tell
  <1>2. CASE ListAgents(r)
    BY <1>2 DEF ListAgents
  <1>3. CASE FetchBranch(r) \/ CleanStatus(r) \/ NothingOnlyLocal(r) \/ CloseSpace(r)
    BY <1>3 DEF FetchBranch, CleanStatus, NothingOnlyLocal, CloseSpace
  <1>4. CASE RemoveWorktree(r) \/ DeleteBranch(r) \/ CreateWorktree(r) \/ LaunchWorker(r)
    BY <1>4 DEF RemoveWorktree, DeleteBranch, CreateWorktree, LaunchWorker
  <1> QED BY <1>1, <1>2, <1>3, <1>4 DEF ReworkStep

LEMMA VerifyMoves == ASSUME NEW r \in Run, VerifyStep(r) PROVE MovesIn(r, VerifyLabels)
  BY DEF VerifyStep, Resolve, RunBase, RunHead, JudgeChecks, RevertTests, Concludes, Fails, GoTo,
         MovesIn, VerifyLabels

LEMMA Labelled == Labels = ReviewLabels \cup ReworkLabels \cup VerifyLabels \cup {"over", "failed"}
  BY DEF Labels, ReviewLabels, ReworkLabels, VerifyLabels

LEMMA AtType ==
  ASSUME at \in [Run -> Labels], NEW r \in Run,
         MovesIn(r, ReviewLabels) \/ MovesIn(r, ReworkLabels) \/ MovesIn(r, VerifyLabels)
  PROVE  at' \in [Run -> Labels]
  BY Labelled DEF MovesIn

\* The reports of a reviewer and the world move no run.
LEMMA WorldStays ==
  ASSUME World PROVE at' = at
  BY DEF World, EditFile, MakeCommit, Push, PushFromElsewhere, CheckMoves, ClosePR, EditIssue,
         Approve, AgentExits, WorkerRests, SyncOpens, SyncStaffs, EnvironmentRest

-----------------------------------------------------------------------------
(* Types *)

LEMMA ReviewTypes ==
  ASSUME TypeOK, NEW r \in Run, ReviewStep(r) \/ Reports(r) PROVE ReviewTypeOK'
  <1> USE DEF TypeOK, ReviewTypeOK, WorldTypeOK
  <1>1. CASE View(r) \/ Place(r)
    BY <1>1 DEF View, Place
  <1>7. CASE Checks(r)
    <2>1. CommitCI(oid[r]) = "green" \/ CommitCI(oid[r]) \in Outcomes
      BY DEF CommitCI, CIState, Outcomes
    <2>2. outcome' \in [Run -> Outcomes]
      BY <1>7, <2>1 DEF Checks, Ends
    <2> QED BY <1>7, <2>2 DEF Checks
  <1>2. CASE Issue(r) \/ LiveIssue(r)
    <2>1. judged' \in [Run -> Text \cup {NoText}]
      BY <1>2 DEF Issue, LiveIssue, Approval
    <2> QED BY <1>2, <2>1 DEF Issue, LiveIssue
  <1>6. CASE StartReviewer(r)
    BY <1>6 DEF StartReviewer, reviewVars
  <1>3. CASE AwaitReviewer(r) \/ Reread(r)
    <2>1. verdict' \in [Run -> {"none", "pass", "fail", "unreadable"}]
      BY <1>3 DEF AwaitReviewer, Reread
    <2>2. outcome' \in [Run -> Outcomes]
      BY <1>3 DEF AwaitReviewer, Reread, Ends, Outcomes
    <2> QED BY <1>3, <2>1, <2>2 DEF AwaitReviewer, Reread
  <1>4. CASE Recheck(r)
    <2>1. Decided(r) \in Outcomes
      BY DEF Decided, Outcomes
    <2>2. outcome' \in [Run -> Outcomes]
      BY <1>4, <2>1 DEF Recheck, Ends, Outcomes
    <2> QED BY <1>4, <2>2 DEF Recheck
  <1>5. CASE PostReview(r) \/ Reports(r)
    BY <1>5 DEF PostReview, Reports
  <1> QED BY <1>1, <1>2, <1>3, <1>4, <1>5, <1>6, <1>7 DEF ReviewStep

LEMMA ReworkTypes ==
  ASSUME TypeOK, NEW r \in Run, ReworkStep(r) PROVE ReworkTypeOK'
  <1> USE DEF TypeOK, ReworkTypeOK, WorldTypeOK
  <1>1. CASE Confirm(r) \/ FindPR(r) \/ PinNote(r) \/ Tell(r)
    BY <1>1 DEF Confirm, FindPR, PinNote, Tell, reworkVars
  <1>2. CASE ListSpaces(r)
    BY <1>2 DEF ListSpaces
  <1>3. CASE ListAgents(r)
    BY <1>3 DEF ListAgents, AgentsIn, Agent
  <1>4. CASE FetchBranch(r) \/ CleanStatus(r) \/ NothingOnlyLocal(r) \/ CloseSpace(r)
    BY <1>4 DEF FetchBranch, CleanStatus, NothingOnlyLocal, CloseSpace, reworkVars
  <1>5. CASE RemoveWorktree(r) \/ DeleteBranch(r) \/ CreateWorktree(r)
    BY <1>5 DEF RemoveWorktree, DeleteBranch, CreateWorktree, reworkVars
  <1>6. CASE LaunchWorker(r)
    BY <1>6 DEF LaunchWorker, Who
  <1> QED BY <1>1, <1>2, <1>3, <1>4, <1>5, <1>6 DEF ReworkStep

LEMMA VerifyTypes ==
  ASSUME TypeOK, NEW v \in Run, VerifyStep(v) PROVE VerifyTypeOK'
  <1>1. \A met : RunsOf(met) \subseteq [Check -> Ending]
    BY DEF RunsOf, Ending
  <1>a. subject \in [Run -> Commit] /\ head \in Commit
    BY DEF TypeOK, VerifyTypeOK, WorldTypeOK
  <1> USE DEF TypeOK, VerifyTypeOK
  <1>2. CASE Resolve(v)
    <2>1. truth' \in [Run -> [base : SUBSET Check, head : SUBSET Check]]
      <3>1. \/ UNCHANGED truth
            \/ \E t \in [base : SUBSET Check, head : SUBSET Check] : truth' = [truth EXCEPT ![v] = t]
        BY <1>2 DEF Resolve
      <3> QED BY <3>1
    <2>2. subject' \in [Run -> Commit]
      <3>1. subject' = subject \/ subject' = [subject EXCEPT ![v] = head]
        BY <1>2 DEF Resolve
      <3> HIDE DEF TypeOK, VerifyTypeOK
      <3> QED BY <1>a, <3>1
    <2> QED BY <1>2, <2>1, <2>2 DEF Resolve
  <1>3. CASE RunBase(v) \/ RunHead(v)
    <2>1. CASE RunBase(v)
      <3>1. onBase' \in [Run -> [Check -> Ending]]
        <4>1. CASE UNCHANGED onBase
          BY <4>1
        <4>2. CASE \E o \in RunsOf(truth[v].base) : onBase' = [onBase EXCEPT ![v] = o]
          <5>1. PICK o \in [Check -> Ending] : onBase' = [onBase EXCEPT ![v] = o]
            BY <1>1, <4>2
          <5> QED BY <5>1
        <4> QED BY <2>1, <4>1, <4>2 DEF RunBase
      <3> QED BY <2>1, <3>1 DEF RunBase
    <2>2. CASE RunHead(v)
      <3>1. onHead' \in [Run -> [Check -> Ending]]
        <4>1. CASE UNCHANGED onHead
          BY <4>1
        <4>2. CASE \E o \in RunsOf(truth[v].head) : onHead' = [onHead EXCEPT ![v] = o]
          <5>1. PICK o \in [Check -> Ending] : onHead' = [onHead EXCEPT ![v] = o]
            BY <1>1, <4>2
          <5> QED BY <5>1
        <4> QED BY <2>2, <4>1, <4>2 DEF RunHead
      <3> QED BY <2>2, <3>1 DEF RunHead
    <2> QED BY <1>3, <2>1, <2>2
  <1>4. CASE JudgeChecks(v) \/ RevertTests(v)
    BY <1>4 DEF JudgeChecks, RevertTests, Concludes
  <1> QED BY <1>2, <1>3, <1>4 DEF VerifyStep

\* The world keeps its own types, whoever acts in it.
LEMMA WorldTypes ==
  ASSUME WorldTypeOK, BranchInv, World PROVE WorldTypeOK'
  <1> USE DEF WorldTypeOK, EnvironmentRest, Event, hubVars, diskVars, herdrVars
  <1>1. CASE EditFile
    <2>1. dirty' \in BOOLEAN
      BY <1>1 DEF EditFile
    <2>2. UNCHANGED <<hubVars, made, checkout, local, tracking, herdrVars, at>> /\ events' \in Nat
      BY <1>1 DEF EditFile
    <2> QED BY <2>1, <2>2
  <1>12. CASE EditIssue
    BY <1>12 DEF EditIssue
  <1>10. CASE ClosePR
    <2>1. prOpen' \in BOOLEAN
      BY <1>10 DEF ClosePR
    <2>2. UNCHANGED <<head, checks, text, approved, made, diskVars, herdrVars, at>> /\ events' \in Nat
      BY <1>10 DEF ClosePR
    <2> QED BY <2>1, <2>2
  <1>9. CASE Approve
    BY <1>9 DEF Approve
  <1>2. CASE MakeCommit
    <2>1. made' \in Nat /\ made' <= MaxChanges /\ made' \in 1..MaxChanges
      BY <1>2 DEF MakeCommit
    <2>2. local \in Commit
      BY <1>2 DEF MakeCommit, BranchInv
    <2>3. local' \in Commit
      BY <1>2, <2>1, <2>2 DEF MakeCommit, Commit
    <2>4. dirty' \in BOOLEAN
      BY <1>2 DEF MakeCommit
    <2>5. UNCHANGED <<hubVars, checkout, tracking, herdrVars, at>> /\ events' \in Nat
      BY <1>2 DEF MakeCommit
    <2> QED BY <2>1, <2>3, <2>4, <2>5
  <1>11. CASE PushFromElsewhere
    <2>1. made' \in Nat /\ made' <= MaxChanges /\ made' \in 1..MaxChanges
      BY <1>11 DEF PushFromElsewhere
    <2>2. head' \in Commit
      BY <1>11, <2>1 DEF PushFromElsewhere, Commit
    <2> QED BY <1>11, <2>1, <2>2 DEF PushFromElsewhere
  <1>3. CASE Push
    BY <1>3 DEF Push, BranchInv
  <1>4. CASE CheckMoves
    BY <1>4 DEF CheckMoves, CIStates
  <1>5. CASE AgentExits
    BY <1>5 DEF AgentExits
  <1>6. CASE WorkerRests
    BY <1>6 DEF WorkerRests
  <1>7. CASE SyncOpens
    BY <1>7 DEF SyncOpens
  <1>8. CASE SyncStaffs
    BY <1>8 DEF SyncStaffs, Agent, Who
  <1> QED BY <1>1, <1>2, <1>3, <1>4, <1>5, <1>6, <1>7, <1>8, <1>9, <1>10, <1>11, <1>12 DEF World

\* The commands keep the world's types.
LEMMA ReviewWorldTypes ==
  ASSUME WorldTypeOK, NEW r \in Run, ReviewStep(r) \/ Reports(r) PROVE WorldTypeOK'
  <1>1. ASSUME ReviewStep(r) PROVE at' \in [Run -> Labels]
    BY <1>1, ReviewMoves, AtType DEF WorldTypeOK
  <1>2. CASE StartReviewer(r)
    <2>1. UNCHANGED <<hubVars, made, diskVars, spaces, opened>>
      BY <1>2 DEF StartReviewer
    <2>2. events' \in Nat
      BY <1>2 DEF StartReviewer, Fails, Event, WorldTypeOK
    <2>3. busy' \subseteq agents' /\ agents' \subseteq Agent
      <3>1. place[r] \in spaces => Reviewer(r) \in Agent
        BY DEF Reviewer, Agent, Who, WorldTypeOK
      <3>2. \/ UNCHANGED <<agents, busy>>
            \/ /\ place[r] \in spaces /\ agents' = agents \cup {Reviewer(r)}
               /\ busy' = busy \/ busy' = busy \cup {Reviewer(r)}
        BY <1>2 DEF StartReviewer
      <3> QED BY <3>1, <3>2 DEF WorldTypeOK
    <2>4. ReviewStep(r)
      BY <1>2 DEF ReviewStep
    <2> QED BY <1>1, <2>1, <2>2, <2>3, <2>4 DEF WorldTypeOK, hubVars, diskVars
  <1>3. CASE Reports(r)
    BY <1>3 DEF Reports, WorldTypeOK, hubVars, diskVars
  <1>4. CASE ReviewStep(r) /\ ~StartReviewer(r)
    <2>1. UNCHANGED worldVars
      BY <1>4 DEF ReviewStep, View, Checks, Place, Issue, LiveIssue, AwaitReviewer, Reread, Recheck,
                  PostReview
    <2>2. UNCHANGED events \/ events' = events + 1
      BY <1>4 DEF ReviewStep, View, Checks, Place, Issue, LiveIssue, AwaitReviewer, Reread, Recheck,
                  PostReview, Fails, Event, Ends
    <2> QED BY <1>1, <1>4, <2>1, <2>2 DEF WorldTypeOK, worldVars, hubVars, diskVars, herdrVars
  <1> QED BY <1>2, <1>3, <1>4

LEMMA ReworkWorldTypes ==
  ASSUME WorldTypeOK, ReworkTypeOK, NEW r \in Run, ReworkStep(r) PROVE WorldTypeOK'
  <1>1. at' \in [Run -> Labels]
    BY ReworkMoves, AtType DEF WorldTypeOK
  <1>2. events' \in Nat
    <2>1. UNCHANGED events \/ events' = events + 1
      BY DEF ReworkStep, Confirm, FindPR, ListSpaces, ListAgents, PinNote, Tell, FetchBranch, CleanStatus,
             NothingOnlyLocal, CloseSpace, RemoveWorktree, DeleteBranch, CreateWorktree, LaunchWorker,
             Fails, Event
    <2> QED BY <2>1 DEF WorldTypeOK
  <1> USE DEF WorldTypeOK, worldVars, hubVars, diskVars, herdrVars
  <1>3. CASE Confirm(r) \/ FindPR(r) \/ ListSpaces(r) \/ ListAgents(r) \/ PinNote(r)
             \/ CleanStatus(r) \/ NothingOnlyLocal(r)
    <2>1. UNCHANGED worldVars
      BY <1>3 DEF Confirm, FindPR, ListSpaces, ListAgents, PinNote, CleanStatus, NothingOnlyLocal
    <2> QED BY <1>1, <1>2, <2>1
  <1>4. CASE Tell(r)
    BY <1>1, <1>2, <1>4 DEF Tell
  <1>5. CASE FetchBranch(r)
    BY <1>1, <1>2, <1>5 DEF FetchBranch
  <1>6. CASE CloseSpace(r)
    BY <1>1, <1>2, <1>6 DEF CloseSpace
  <1>7. CASE RemoveWorktree(r)
    <2>1. checkout' \in BOOLEAN
      BY <1>7 DEF RemoveWorktree
    <2>2. UNCHANGED <<hubVars, made, dirty, local, tracking, herdrVars>>
      BY <1>7 DEF RemoveWorktree
    <2> QED BY <1>1, <1>2, <2>1, <2>2
  <1>8. CASE DeleteBranch(r)
    BY <1>1, <1>2, <1>8 DEF DeleteBranch
  <1>9. CASE CreateWorktree(r)
    <2>1. checkout' \in BOOLEAN
      BY <1>9 DEF CreateWorktree
    <2>2. UNCHANGED <<hubVars, made, dirty, tracking, agents, busy>>
      BY <1>9 DEF CreateWorktree
    <2>3. local' = local \/ local' = tracking
      BY <1>9 DEF CreateWorktree
    <2>4. spaces' \subseteq Nat \ {0} /\ opened' \in Nat
      <3>1. \/ UNCHANGED <<spaces, opened>>
            \/ opened' = opened + 1 /\ spaces' = spaces \cup {opened'}
        BY <1>9 DEF CreateWorktree
      <3>2. opened + 1 \in Nat \ {0} /\ spaces \cup {opened + 1} \subseteq Nat \ {0}
        OBVIOUS
      <3> QED BY <3>1, <3>2
    <2> QED BY <1>1, <1>2, <2>1, <2>2, <2>3, <2>4
  <1>10. CASE LaunchWorker(r)
    <2>1. UNCHANGED <<hubVars, made, diskVars, spaces, opened>>
      BY <1>10 DEF LaunchWorker
    <2>2. \/ UNCHANGED <<agents, busy>>
          \/ /\ home[r] \in spaces /\ agents' = agents \cup {<<home[r], "worker">>}
             /\ busy' = busy \cup {<<home[r], "worker">>}
      BY <1>10 DEF LaunchWorker
    <2>3. home[r] \in spaces => <<home[r], "worker">> \in Agent
      BY DEF Agent, Who
    <2> QED BY <1>1, <1>2, <2>1, <2>2, <2>3
  <1> QED BY <1>3, <1>4, <1>5, <1>6, <1>7, <1>8, <1>9, <1>10 DEF ReworkStep

LEMMA VerifyWorldTypes ==
  ASSUME WorldTypeOK, NEW v \in Run, VerifyStep(v) PROVE WorldTypeOK'
  <1>1. at' \in [Run -> Labels]
    BY VerifyMoves, AtType DEF WorldTypeOK
  <1>2. UNCHANGED worldVars
    BY DEF VerifyStep, Resolve, RunBase, RunHead, JudgeChecks, RevertTests
  <1>3. UNCHANGED events \/ events' = events + 1
    BY DEF VerifyStep, Resolve, RunBase, RunHead, JudgeChecks, RevertTests, Fails, Event
  <1> QED BY <1>1, <1>2, <1>3 DEF WorldTypeOK, worldVars, hubVars, diskVars, herdrVars

LEMMA WatchTypes ==
  ASSUME TypeOK, Watch
  PROVE  /\ agreed' \in [Run -> SUBSET Text]
         /\ heldOn' \subseteq Run /\ green' \subseteq Run
         /\ known' \in [Run -> SUBSET Nat]
         /\ there' \in [Run -> SUBSET Agent]
         /\ offered' \in [Run -> Commit]
         /\ lost' \subseteq Run \X Nat
  <1> USE DEF TypeOK, WorldTypeOK, Watch
  <1>1. local \subseteq Nat
    BY DEF Commit, NoBranch
  <1>2. Destroyed \subseteq Nat
    BY <1>1 DEF Destroyed
  <1>3. agreed' \in [Run -> SUBSET Text]
    BY DEF Approval
  <1>4. known' \in [Run -> SUBSET Nat]
    <2>1. \A r \in Run : known'[r] \in SUBSET Nat
      BY <1>1
    <2> QED BY <2>1
  <1>5. there' \in [Run -> SUBSET Agent]
    <2>1. \A r \in Run : there'[r] \in SUBSET Agent
      OBVIOUS
    <2> QED BY <2>1
  <1>6. offered' \in [Run -> Commit]
    <2>1. {} \in Commit
      BY DEF Commit
    <2>2. \A r \in Run : offered'[r] \in Commit
      BY <2>1
    <2> QED BY <2>2
  <1> QED BY <1>2, <1>3, <1>4, <1>5, <1>6

\* A step of the composition, by who takes it.
Steps ==
  \/ \E r \in Run : (ReviewStep(r) \/ Reports(r)) /\ UNCHANGED <<reworkVars, verifyVars>>
  \/ \E r \in Run : ReworkStep(r) /\ UNCHANGED <<reviewVars, verifyVars>>
  \/ \E r \in Run : VerifyStep(r) /\ UNCHANGED <<reviewVars, reworkVars>>
  \/ World /\ UNCHANGED <<reviewVars, reworkVars, verifyVars>>

LEMMA TypeStep == ASSUME TypeOK, BranchInv, Next PROVE TypeOK'
  <1>1. Watch /\ Steps
    BY DEF Next, Steps
  <1>2. WorldTypeOK'
    BY <1>1, ReviewWorldTypes, ReworkWorldTypes, VerifyWorldTypes, WorldTypes DEF Steps, TypeOK
  <1>3. ReviewTypeOK'
    <2>1. UNCHANGED reviewVars => ReviewTypeOK'
      BY DEF reviewVars, ReviewTypeOK, TypeOK
    <2> QED BY <1>1, <2>1, ReviewTypes DEF Steps
  <1>4. ReworkTypeOK'
    <2>1. UNCHANGED reworkVars => ReworkTypeOK'
      BY DEF reworkVars, ReworkTypeOK, TypeOK
    <2> QED BY <1>1, <2>1, ReworkTypes DEF Steps
  <1>5. VerifyTypeOK'
    <2>1. UNCHANGED verifyVars => VerifyTypeOK'
      BY DEF verifyVars, VerifyTypeOK, TypeOK
    <2> QED BY <1>1, <2>1, VerifyTypes DEF Steps
  <1> QED BY <1>1, <1>2, <1>3, <1>4, <1>5, WatchTypes DEF TypeOK

-----------------------------------------------------------------------------
(* A review's verdict *)

\* A run of another command, or the world, leaves a review as it is.
LEMMA ReviewFrame ==
  ASSUME TypeOK, ReviewInv, VerdictHolds, Watch, UNCHANGED reviewVars,
         \A q \in Run : at'[q] = at[q] \/ at'[q] \notin ReviewLabels
  PROVE  ReviewInv' /\ VerdictHolds'
  <1> USE DEF reviewVars
  <1>1. /\ heldOn \subseteq heldOn' /\ green \subseteq green'
        /\ \A q \in Run : agreed[q] \subseteq agreed'[q]
    BY DEF Watch
  <1>2. \A q \in Run : Decided(q)' = Decided(q)
    BY DEF Decided
  <1>3. ReviewInv'
    BY <1>1, <1>2 DEF ReviewInv, ReviewLabels
  <1>4. VerdictHolds'
    BY <1>1 DEF VerdictHolds
  <1> QED BY <1>3, <1>4

\* A step of a review keeps what it carries, and what the others do.
LEMMA ReviewKept ==
  ASSUME TypeOK, ReviewInv, VerdictHolds, Watch, NEW r \in Run, ReviewStep(r)
  PROVE  ReviewInv' /\ VerdictHolds'
  <1> DEFINE Others == \A q \in Run \ {r} :
        /\ at'[q] = at[q] /\ vouched'[q] = vouched[q] /\ judged'[q] = judged[q]
        /\ verdict'[q] = verdict[q] /\ report'[q] = report[q] /\ outcome'[q] = outcome[q]
        /\ posted'[q] = posted[q] /\ Decided(q)' = Decided(q)
  <1>1. /\ heldOn \subseteq heldOn' /\ green \subseteq green'
        /\ \A q \in Run : agreed[q] \subseteq agreed'[q]
    BY DEF Watch
  <1>2. Others
    <2> USE DEF TypeOK, ReviewTypeOK, WorldTypeOK, GoTo, Ends, Fails, reviewVars
    <2>1. \A q \in Run \ {r} :
        /\ at'[q] = at[q] /\ vouched'[q] = vouched[q] /\ judged'[q] = judged[q]
        /\ verdict'[q] = verdict[q] /\ report'[q] = report[q] /\ outcome'[q] = outcome[q]
        /\ posted'[q] = posted[q]
      BY ZenonT(60) DEF ReviewStep, View, Checks, Place, Issue, LiveIssue, StartReviewer, AwaitReviewer, Reread,
             Recheck, PostReview
    <2> QED BY <2>1 DEF Decided
  <1> DEFINE Mine ==
        /\ at'[r] \in {"view", "checks", "place", "issue", "live"} => ~vouched'[r]
        /\ vouched'[r] => judged'[r] \in agreed'[r]
        /\ at'[r] \in {"view", "checks", "place", "issue", "live", "split", "await"} => verdict'[r] = "none"
        /\ verdict'[r] = "pass" => report'[r] = "pass"
        /\ at'[r] \in {"recheck", "post"} => r \in heldOn'
        /\ at'[r] = "post" => r \in green' /\ outcome'[r] = Decided(r)'
        /\ at'[r] \in ReviewLabels \ {"post"} => outcome'[r] # "verified"
        /\ posted'[r] # "none" => r \in heldOn' /\ r \in green'
        /\ outcome'[r] = "verified" =>
             r \in heldOn' /\ r \in green' /\ report'[r] = "pass" /\ judged'[r] \in agreed'[r]
  <1>3. SUFFICES Mine
    <2>1. ASSUME Mine PROVE ReviewInv'
      BY <1>1, <1>2, <2>1 DEF ReviewInv
    <2>2. ASSUME Mine PROVE VerdictHolds'
      BY <1>1, <1>2, <2>2 DEF VerdictHolds
    <2> QED BY <2>1, <2>2
  <1> HIDE DEF Others
  <1> USE DEF TypeOK, ReviewTypeOK, WorldTypeOK, GoTo, Ends, Fails, ReviewInv, VerdictHolds, ReviewLabels
  <1>4. CASE View(r) \/ Checks(r) \/ Place(r)
    BY <1>1, <1>4 DEF View, Checks, Place, CommitCI, CIState
  <1>5. CASE Issue(r)
    <2>1. \A t \in Approval : t \in agreed'[r]
      BY <1>5 DEF Watch, Under, Issue
    <2> QED BY <1>1, <1>5, <2>1 DEF Issue
  <1>6. CASE LiveIssue(r) \/ StartReviewer(r)
    BY <1>1, <1>6 DEF LiveIssue, StartReviewer, reviewVars
  <1>7. CASE AwaitReviewer(r)
    BY <1>1, <1>7, ZenonT(60) DEF AwaitReviewer
  <1>8. CASE Reread(r)
    <2>1. head = oid[r] => r \in heldOn'
      BY <1>8 DEF Watch, Reread
    <2> QED BY <1>1, <1>8, <2>1 DEF Reread
  <1>9. CASE Recheck(r)
    <2>1. CommitCI(oid[r]) = "green" => r \in green'
      BY <1>9 DEF Watch, Recheck
    <2>2. Decided(r)' = Decided(r)
      BY <1>9 DEF Recheck, Decided
    <2>3. Decided(r) = "verified" => verdict[r] = "pass" /\ vouched[r]
      BY DEF Decided
    <2> QED BY <1>1, <1>9, <2>1, <2>2, <2>3 DEF Recheck
  <1>10. CASE PostReview(r)
    <2>1. Decided(r) = "verified" => verdict[r] = "pass" /\ vouched[r]
      BY DEF Decided
    <2> QED BY <1>1, <1>10, <2>1 DEF PostReview
  <1> QED BY <1>4, <1>5, <1>6, <1>7, <1>8, <1>9, <1>10 DEF ReviewStep

\* A reviewer reports once, before its run reads what it has reported.
LEMMA ReportKept ==
  ASSUME TypeOK, ReviewInv, VerdictHolds, Watch, NEW r \in Run, Reports(r)
  PROVE  ReviewInv' /\ VerdictHolds'
  <1>1. /\ heldOn \subseteq heldOn' /\ green \subseteq green'
        /\ \A q \in Run : agreed[q] \subseteq agreed'[q]
    BY DEF Watch
  <1>2. UNCHANGED <<at, vouched, judged, verdict, outcome, posted>>
    BY DEF Reports
  <1>3. \A q \in Run : report'[q] = report[q] \/ (q = r /\ report[q] = "none")
    BY DEF Reports, TypeOK, ReviewTypeOK
  <1>4. \A q \in Run : Decided(q)' = Decided(q)
    BY <1>2 DEF Decided
  <1>5. ReviewInv'
    BY <1>1, <1>2, <1>3, <1>4 DEF ReviewInv
  <1>6. VerdictHolds'
    BY <1>1, <1>2, <1>3 DEF VerdictHolds
  <1> QED BY <1>5, <1>6

-----------------------------------------------------------------------------
(* What verify concludes *)

\* A run of another command leaves a verify as it is.
LEMMA VerifyFrame ==
  ASSUME VerifyInv, VerifyProves, UNCHANGED verifyVars,
         \A q \in Run : at'[q] = at[q] \/ at'[q] \notin VerifyLabels
  PROVE  VerifyInv' /\ VerifyProves'
  <1> USE DEF verifyVars
  <1>1. \A v \in Run : (Discriminates(v)' <=> Discriminates(v))
    BY DEF Discriminates, Class
  <1>2. VerifyInv'
    BY <1>1 DEF VerifyInv, VerifyLabels
  <1>3. VerifyProves'
    BY DEF VerifyProves
  <1> QED BY <1>2, <1>3

\* Where every check was judged good and one discriminates, they are met on the
\* head, and that one was seen to fail on the base.
LEMMA JudgedRight ==
  ASSUME TypeOK, NEW v \in Run, onBase[v] \in RunsOf(truth[v].base), onHead[v] \in RunsOf(truth[v].head),
         Discriminates(v)
  PROVE  /\ Check \subseteq truth[v].head
         /\ onBase[v] # [c \in Check |-> "not installed"] => ~(Check \subseteq truth[v].base)
  <1>1. ASSUME NEW c \in Check
        PROVE  c \in Readable /\ onHead[v][c] = "passed" /\ onBase[v][c] # "no code"
    <2>1. Class(v, c) = "discriminating" \/ Class(v, c) = "guard"
      BY DEF Discriminates
    <2>2. c \notin Readable \/ onBase[v][c] = "no code" \/ onHead[v][c] = "no code"
            => Class(v, c) = "unjudged"
      BY DEF Class
    <2>3. c \in Readable /\ onBase[v][c] # "no code" /\ onHead[v][c] # "no code" /\ onHead[v][c] # "passed"
            => Class(v, c) = "failing"
      BY DEF Class
    <2> QED BY <2>1, <2>2, <2>3
  <1>2. PICK d \in Check : Class(v, d) = "discriminating"
    BY DEF Discriminates
  <1>3. onBase[v][d] # "passed"
    BY <1>1, <1>2 DEF Class
  <1>4. ASSUME NEW c \in Check PROVE c \in truth[v].head
    <2>1. onHead[v] # [x \in Check |-> "no code"] /\ onHead[v] # [x \in Check |-> "not installed"]
      BY <1>1
    <2>2. onHead[v][c] \in CheckEnds(c, truth[v].head)
      BY <2>1 DEF RunsOf
    <2> QED BY <1>1, <2>2 DEF CheckEnds
  <1>5. ASSUME onBase[v] # [c \in Check |-> "not installed"] PROVE d \notin truth[v].base
    <2>1. onBase[v] # [x \in Check |-> "no code"]
      BY <1>1
    <2>2. onBase[v][d] \in CheckEnds(d, truth[v].base)
      BY <1>5, <2>1 DEF RunsOf
    <2> QED BY <1>1, <1>3, <2>2 DEF CheckEnds
  <1> QED BY <1>4, <1>5

\* A step of verify keeps what it carries.
LEMMA VerifyKept ==
  ASSUME TypeOK, VerifyInv, VerifyProves, NEW v \in Run, VerifyStep(v)
  PROVE  VerifyInv' /\ VerifyProves'
  <1> USE DEF TypeOK, VerifyTypeOK, WorldTypeOK, GoTo, Fails, Concludes
  <1>1. ASSUME NEW q \in Run \ {v}
        PROVE  UNCHANGED <<at[q], truth[q], onBase[q], onHead[q], result[q]>>
    BY DEF VerifyStep, Resolve, RunBase, RunHead, JudgeChecks, RevertTests
  <1>2. ASSUME NEW q \in Run, UNCHANGED <<onBase[q], onHead[q]>> PROVE Discriminates(q)' <=> Discriminates(q)
    <2>1. \A c \in Check : Class(q, c)' = Class(q, c)
      BY <1>2 DEF Class
    <2> QED BY <2>1 DEF Discriminates
  <1> DEFINE Mine ==
        /\ at'[v] \in {"head", "judge", "revert"} => onBase'[v] \in RunsOf(truth'[v].base)
        /\ at'[v] \in {"judge", "revert"} => onHead'[v] \in RunsOf(truth'[v].head)
        /\ at'[v] = "revert" => Discriminates(v)'
        /\ at'[v] \in VerifyLabels => result'[v] = "none"
        /\ result'[v] = "verified" =>
             /\ Check \subseteq truth'[v].head
             /\ onBase'[v] # [c \in Check |-> "not installed"] => ~(Check \subseteq truth'[v].base)
  <1>3. SUFFICES Mine
    <2>1. ASSUME Mine PROVE VerifyInv'
      <3>1. ASSUME NEW q \in Run \ {v} PROVE Discriminates(q)' <=> Discriminates(q)
        BY <1>1, <1>2
      <3> QED BY <1>1, <2>1, <3>1 DEF VerifyInv
    <2>2. ASSUME Mine PROVE VerifyProves'
      BY <1>1, <2>2 DEF VerifyProves
    <2> QED BY <2>1, <2>2
  <1> USE DEF VerifyInv, VerifyProves, VerifyLabels
  <1>4. CASE Resolve(v)
    BY <1>4 DEF Resolve
  <1>5. CASE RunBase(v)
    BY <1>5 DEF RunBase
  <1>6. CASE RunHead(v)
    BY <1>6 DEF RunHead
  <1>7. CASE JudgeChecks(v)
    <2>1. UNCHANGED <<truth, onBase, onHead>> /\ at[v] = "judge"
      BY <1>7 DEF JudgeChecks
    <2>2. at'[v] = "revert" => Discriminates(v) /\ UNCHANGED result
      <3>1. ASSUME at'[v] = "revert"
            PROVE  /\ "discriminating" \in {Class(v, c) : c \in Check}
                   /\ {Class(v, c) : c \in Check} \subseteq {"discriminating", "guard"}
                   /\ UNCHANGED result
        BY <1>7, <3>1 DEF JudgeChecks
      <3> QED BY <3>1 DEF Discriminates
    <2>3. at'[v] = "revert" \/ (at'[v] = "over" /\ result'[v] = "needs a human")
      BY <1>7 DEF JudgeChecks
    <2> QED BY <1>2, <2>1, <2>2, <2>3
  <1>8. CASE RevertTests(v)
    <2>1. UNCHANGED <<truth, onBase, onHead>> /\ at[v] = "revert" /\ at'[v] \in {"over", "failed"}
      BY <1>8 DEF RevertTests
    <2>2. /\ Check \subseteq truth[v].head
          /\ onBase[v] # [c \in Check |-> "not installed"] => ~(Check \subseteq truth[v].base)
      BY <2>1, JudgedRight
    <2> QED BY <2>1, <2>2
  <1> QED BY <1>4, <1>5, <1>6, <1>7, <1>8 DEF VerifyStep

-----------------------------------------------------------------------------
(* What a rework may lose *)

\* What can happen to the branch, here and on GitHub, and to the files nobody has
\* committed, and which of it is a run's own doing.
Deletes == \E q \in Run : at[q] = "branch" /\ at' = [at EXCEPT ![q] = "create"]

BranchMove ==
  /\ made' \in Nat /\ made <= made' /\ head \subseteq head' /\ tracking \subseteq tracking'
  /\ \/ local' = local
     \/ local # NoBranch /\ made' = made + 1 /\ local' = local \cup {made + 1} /\ at' = at
     \/ local' = NoBranch /\ head' = head /\ dirty' = dirty /\ Deletes
     \/ local = NoBranch /\ local' = tracking
  /\ dirty /\ ~dirty' => at' = at

LEMMA ReworkBranch ==
  ASSUME TypeOK, BranchInv, NEW r \in Run, ReworkStep(r) PROVE BranchMove /\ BranchInv'
  <1> USE DEF TypeOK, WorldTypeOK, BranchInv, BranchMove
  <1>1. CASE Confirm(r) \/ FindPR(r) \/ ListSpaces(r) \/ ListAgents(r) \/ PinNote(r) \/ CleanStatus(r)
               \/ NothingOnlyLocal(r)
    BY <1>1 DEF Confirm, FindPR, ListSpaces, ListAgents, PinNote, CleanStatus, NothingOnlyLocal,
                worldVars, hubVars, diskVars
  <1>2. CASE Tell(r) \/ CloseSpace(r) \/ LaunchWorker(r)
    <2>1. UNCHANGED <<made, hubVars, diskVars>>
      BY <1>2 DEF Tell, CloseSpace, LaunchWorker
    <2> QED BY <2>1 DEF hubVars, diskVars
  <1>3. CASE FetchBranch(r)
    <2>1. UNCHANGED <<made, head, local, checkout, dirty>> /\ tracking' \in {tracking, head}
      BY <1>3 DEF FetchBranch, hubVars
    <2> QED BY <2>1
  <1>4. CASE RemoveWorktree(r)
    BY <1>4 DEF RemoveWorktree, hubVars
  <1>5. CASE DeleteBranch(r)
    <2>1. UNCHANGED <<made, head, checkout, dirty, tracking>> /\ at[r] = "branch"
      BY <1>5 DEF DeleteBranch, hubVars
    <2>2. \/ local' = local
          \/ local' = NoBranch /\ at' = [at EXCEPT ![r] = "create"] /\ (local = NoBranch \/ ~checkout)
      BY <1>5 DEF DeleteBranch, GoTo
    <2>3. BranchMove
      <3>1. CASE local' = local
        BY <2>1, <3>1
      <3>2. CASE local' = NoBranch /\ at' = [at EXCEPT ![r] = "create"]
        <4>1. Deletes
          BY <2>1, <3>2 DEF Deletes
        <4> QED BY <2>1, <3>2, <4>1
      <3> QED BY <2>2, <3>1, <3>2
    <2>4. BranchInv'
      BY <2>1, <2>2
    <2> QED BY <2>3, <2>4
  <1>6. CASE CreateWorktree(r)
    <2>1. tracking \subseteq 1..made
      OBVIOUS
    <2>2. tracking # NoBranch
      BY <2>1 DEF NoBranch
    <2>3. /\ UNCHANGED <<made, head, dirty, tracking>>
          /\ \/ UNCHANGED <<local, checkout>>
             \/ local = NoBranch /\ local' = tracking
      BY <1>6 DEF CreateWorktree, hubVars
    <2>4. BranchMove
      BY <2>3
    <2>5. BranchInv'
      <3>1. CASE UNCHANGED <<local, checkout>>
        BY <2>3, <3>1
      <3>2. CASE local' = tracking
        BY <2>1, <2>2, <2>3, <3>2
      <3> QED BY <2>3, <3>1, <3>2
    <2> QED BY <2>4, <2>5
  <1> QED BY <1>1, <1>2, <1>3, <1>4, <1>5, <1>6 DEF ReworkStep

LEMMA WorldBranch == ASSUME TypeOK, BranchInv, World PROVE BranchMove /\ BranchInv'
  <1> USE DEF TypeOK, WorldTypeOK, BranchInv, BranchMove, EnvironmentRest
  <1>1. CASE EditFile \/ CheckMoves \/ ClosePR \/ EditIssue \/ Approve \/ AgentExits \/ WorkerRests
               \/ SyncOpens \/ SyncStaffs
    <2>1. UNCHANGED <<made, head, tracking, local, checkout>> /\ (dirty => dirty')
      BY <1>1 DEF EditFile, CheckMoves, ClosePR, EditIssue, Approve, AgentExits, WorkerRests,
                  SyncOpens, SyncStaffs, hubVars, diskVars
    <2> QED BY <2>1
  <1>2. CASE MakeCommit
    <2>1. 0 \notin local \cup {made + 1} \/ local = NoBranch
      BY <1>2
    <2> QED BY <1>2, <2>1 DEF MakeCommit, hubVars, NoBranch
  <1>3. CASE Push
    BY <1>3 DEF Push
  <1>4. CASE PushFromElsewhere
    BY <1>4 DEF PushFromElsewhere, diskVars
  <1> QED BY <1>1, <1>2, <1>3, <1>4 DEF World

LEMMA BranchStep == ASSUME TypeOK, BranchInv, Steps PROVE BranchMove /\ BranchInv'
  <1>1. ASSUME NEW r \in Run, ReviewStep(r) \/ Reports(r)
        PROVE  UNCHANGED <<made, hubVars, diskVars>>
    BY <1>1 DEF ReviewStep, View, Checks, Place, Issue, LiveIssue, StartReviewer, AwaitReviewer,
         Reread, Recheck, PostReview, Reports, worldVars
  <1>2. ASSUME NEW v \in Run, VerifyStep(v) PROVE UNCHANGED <<made, hubVars, diskVars>>
    BY <1>2 DEF VerifyStep, Resolve, RunBase, RunHead, JudgeChecks, RevertTests, worldVars
  <1>3. UNCHANGED <<made, hubVars, diskVars>> => BranchMove /\ BranchInv'
    BY DEF BranchMove, BranchInv, TypeOK, WorldTypeOK, hubVars, diskVars
  <1> QED BY <1>1, <1>2, <1>3, ReworkBranch, WorldBranch DEF Steps

\* From where to where a step takes a run, and what it has seen to when it does.
Walk(q) ==
  /\ \/ at'[q] = at[q]
     \/ at'[q] \in {"over", "failed"}
     \/ at[q] \notin ReworkLabels /\ at'[q] \notin ReworkLabels
     \/ at[q] = "approval" /\ at'[q] = "pr"
     \/ at[q] \in {"pr", "spaces", "agents"} /\ at'[q] \in {"spaces", "agents", "fetch", "pin"}
     \/ at[q] = "pin" /\ at'[q] = "tell"
     \/ at[q] = "fetch" /\ at'[q] = "status" /\ tracking' = head
     \/ at[q] = "status" /\ at'[q] = "ancestor"
     \/ at[q] = "status" /\ at'[q] = "close" /\ local = NoBranch /\ local' = local
     \/ at[q] = "ancestor" /\ at'[q] = "close" /\ local \subseteq tracking /\ local' = local
     \/ at[q] = "close" /\ at'[q] = "remove"
     \/ at[q] = "remove" /\ at'[q] = "branch" /\ local' = local
     \/ at[q] = "branch" /\ at'[q] = "create"
     \/ at[q] = "create" /\ at'[q] = "launch" /\ local' = tracking
  /\ at[q] \in {"over", "failed"} => at'[q] = at[q]

LEMMA Walks == ASSUME TypeOK, Steps, NEW q \in Run PROVE Walk(q)
  <1>1. at \in [Run -> Labels]
    BY DEF TypeOK, WorldTypeOK
  <1>2. at' = at => Walk(q)
    BY DEF Walk
  <1>3. ASSUME NEW r \in Run, ReviewStep(r) PROVE Walk(q)
    BY <1>1, <1>3, ReviewMoves DEF MovesIn, Walk, ReviewLabels, ReworkLabels
  <1>4. ASSUME NEW r \in Run, VerifyStep(r) PROVE Walk(q)
    BY <1>1, <1>4, VerifyMoves DEF MovesIn, Walk, VerifyLabels, ReworkLabels
  <1>5. ASSUME NEW r \in Run, Reports(r) PROVE at' = at
    BY <1>5 DEF Reports
  <1>6. ASSUME NEW r \in Run, ReworkStep(r) PROVE Walk(q)
    <2>1. MovesIn(r, ReworkLabels)
      BY <1>6, ReworkMoves
    <2>2. CASE q # r
      BY <1>1, <2>1, <2>2 DEF MovesIn, Walk
    <2>3. CASE q = r
      <3> USE <1>1, <2>3 DEF Walk, GoTo, Fails
      <3>1. CASE Confirm(r) \/ FindPR(r) \/ ListSpaces(r)
        BY <3>1 DEF Confirm, FindPR, ListSpaces
      <3>2. CASE ListAgents(r)
        BY <3>2 DEF ListAgents
      <3>3. CASE PinNote(r) \/ Tell(r) \/ FetchBranch(r)
        BY <3>3 DEF PinNote, Tell, FetchBranch
      <3>4. CASE CleanStatus(r)
        BY <3>4 DEF CleanStatus, worldVars, diskVars
      <3>5. CASE NothingOnlyLocal(r)
        BY <3>5 DEF NothingOnlyLocal, worldVars, diskVars
      <3>6. CASE CloseSpace(r) \/ RemoveWorktree(r)
        BY <3>6 DEF CloseSpace, RemoveWorktree
      <3>7. CASE DeleteBranch(r) \/ CreateWorktree(r) \/ LaunchWorker(r)
        BY <3>7 DEF DeleteBranch, CreateWorktree, LaunchWorker
      <3> QED BY <1>6, <3>1, <3>2, <3>3, <3>4, <3>5, <3>6, <3>7 DEF ReworkStep
    <2> QED BY <2>2, <2>3
  <1> QED BY <1>2, <1>3, <1>4, <1>5, <1>6, WorldStays DEF Steps

\* A rework knows of what it looked at, remembers what the pull request offered, and
\* whatever a step of its own destroys is neither uncommitted nor known.
LEMMA LooksKept ==
  ASSUME TypeOK, BranchInv, LooksInv, ReworkLosesNothing, Watch, BranchMove, BranchInv',
         \A q \in Run : Walk(q)
  PROVE  LooksInv' /\ ReworkLosesNothing'
  <1> USE DEF TypeOK, WorldTypeOK
  <1>1. /\ made <= made' /\ head \subseteq head' /\ tracking \subseteq tracking' /\ tracking \subseteq head
        /\ head \subseteq 1..made
    BY DEF BranchMove, BranchInv
  <1>2. \/ local' = local
        \/ local # NoBranch /\ local' = local \cup {made + 1}
        \/ local' = NoBranch
        \/ local = NoBranch /\ local' = tracking
    BY DEF BranchMove
  <1>3. local \subseteq 0..made
    BY DEF BranchInv, NoBranch
  <1>4. ASSUME NEW q \in Run
        PROVE  known'[q] = IF at[q] \in {"pr", "spaces", "agents", "fetch", "status"} THEN local
                           ELSE IF at[q] = "create" THEN {} ELSE known[q]
    BY DEF Watch
  <1>5. ASSUME NEW q \in Run
        PROVE  offered'[q] = IF at[q] = "pr" THEN head
                             ELSE IF at'[q] \in {"over", "failed"} THEN {} ELSE offered[q]
    BY DEF Watch
  <1>6. ASSUME NEW q \in Run, NEW c, <<q, c>> \in lost', <<q, c>> \notin lost
        PROVE  /\ at[q] \in {"remove", "branch"} /\ at'[q] # at[q] /\ local # NoBranch
               /\ c \in local /\ c \notin head' /\ c \notin local' /\ c # 0
    <2>1. at[q] \in {"remove", "branch"} /\ at'[q] # at[q] /\ c \in Destroyed
      BY <1>6 DEF Watch
    <2>2. ~(dirty /\ ~dirty')
      BY <2>1 DEF BranchMove
    <2>3. local # NoBranch /\ c \in local /\ c \notin head' /\ c \notin local'
      BY <2>1, <2>2 DEF Destroyed
    <2>4. c # 0
      BY <2>3 DEF BranchInv
    <2> QED BY <2>1, <2>3, <2>4
  <1>7. ASSUME NEW x \in lost' PROVE at'[x[1]] \in {"create", "launch", "over", "failed"}
    <2>1. PICK q \in Run, c \in Nat : x = <<q, c>>
      BY <1>7, WatchTypes
    <2>2. CASE x \in lost
      BY <2>1, <2>2 DEF LooksInv, Walk, ReworkLabels
    <2>3. CASE x \notin lost
      BY <1>6, <1>7, <2>1, <2>3 DEF Walk, ReworkLabels
    <2> QED BY <2>1, <2>2, <2>3
  <1>8. ASSUME NEW q \in Run PROVE known'[q] \subseteq 0..made'
    <2>1. 0..made \subseteq 0..made'
      BY DEF BranchMove
    <2>2. known[q] \subseteq 0..made
      BY DEF LooksInv
    <2> QED BY <1>3, <1>4, <2>1, <2>2
  <1>9. ASSUME NEW q \in Run, at'[q] \in {"close", "remove", "branch"}, local' # NoBranch
        PROVE  known'[q] \cap local' \subseteq head'
    <2>1. CASE at[q] \in {"close", "remove", "branch"}
      <3>1. known'[q] = known[q] /\ made + 1 \notin known[q]
        BY <1>4, <2>1 DEF LooksInv
      <3> QED BY <1>1, <1>2, <1>9, <2>1, <3>1 DEF LooksInv
    <2>2. CASE at[q] \in {"status", "ancestor"}
      BY <1>1, <1>9, <2>2 DEF Walk, ReworkLabels
    <2> QED BY <1>9, <2>1, <2>2 DEF Walk, ReworkLabels
  <1>10. ASSUME NEW q \in Run, at'[q] \in {"spaces", "agents", "fetch"} PROVE offered'[q] \subseteq head'
    BY <1>1, <1>5, <1>10, ZenonT(60) DEF Walk, ReworkLabels, LooksInv
  <1>11. ASSUME NEW q \in Run,
                at'[q] \in {"status", "ancestor", "close", "remove", "branch", "create", "launch"}
         PROVE  offered'[q] \subseteq tracking'
    <2>1. \/ at[q] \in {"status", "ancestor", "close", "remove", "branch", "create", "launch"}
          \/ at[q] = "fetch" /\ tracking' = head
      BY <1>11 DEF Walk, ReworkLabels
    <2> QED BY <1>1, <1>5, <1>11, <2>1 DEF LooksInv
  <1>12. LooksInv'
    BY <1>7, <1>8, <1>9, <1>10, <1>11 DEF LooksInv
  <1>13. ASSUME NEW q \in Run PROVE <<q, 0>> \notin lost'
    BY <1>6 DEF ReworkLosesNothing
  <1>14. ASSUME NEW q \in Run, NEW c \in known'[q], <<q, c>> \in lost' PROVE FALSE
    <2>1. CASE <<q, c>> \in lost
      <3>1. at[q] \in {"create", "launch", "over", "failed"}
        BY <2>1 DEF LooksInv
      <3> QED BY <1>4, <2>1, <3>1 DEF ReworkLosesNothing
    <2>2. CASE <<q, c>> \notin lost
      <3>1. at[q] \in {"remove", "branch"} /\ local # NoBranch /\ c \in local /\ c \notin head
        BY <1>1, <1>6, <1>14, <2>2
      <3> QED BY <1>4, <3>1 DEF LooksInv
    <2> QED BY <2>1, <2>2
  <1>15. ASSUME NEW q \in Run, at'[q] = "launch", local' # NoBranch PROVE offered'[q] \subseteq local'
    <2>1. offered'[q] = offered[q] /\ at[q] \in {"create", "launch"}
      BY <1>5, <1>15 DEF Walk, ReworkLabels
    <2>2. offered[q] \subseteq tracking
      BY <2>1 DEF LooksInv
    <2>3. at[q] = "create" => local' = tracking
      BY <1>15 DEF Walk, ReworkLabels
    <2>4. at[q] = "launch" /\ local # NoBranch => offered[q] \subseteq local
      BY DEF ReworkLosesNothing
    <2> QED BY <1>2, <1>15, <2>1, <2>2, <2>3, <2>4
  <1> QED BY <1>12, <1>13, <1>14, <1>15 DEF ReworkLosesNothing

-----------------------------------------------------------------------------
(* Whom a rework closes *)

LEMMA SpacesKept == ASSUME TypeOK, SpaceInv, Watch, Steps PROVE SpaceInv'
  <1> USE DEF TypeOK, WorldTypeOK, ReworkTypeOK
  <1>1. ASSUME NEW q \in Run
        PROVE  there'[q] = IF at[q] \in {"pr", "spaces", "agents"} THEN agents
                           ELSE IF at[q] = "close" THEN {} ELSE there[q]
    BY DEF Watch
  <1>2. ASSUME NEW q \in Run, at'[q] = at[q], home'[q] = home[q]
        PROVE  /\ at'[q] \in {"approval", "pr", "spaces"} => home'[q] = 0
               /\ at'[q] \in {"fetch", "status", "ancestor", "close"} =>
                    \A a \in there'[q] : a[1] # home'[q]
    BY <1>1, <1>2 DEF SpaceInv
  <1>3. ASSUME UNCHANGED home, \A q \in Run : at'[q] = at[q] \/ at'[q] \notin ReworkLabels PROVE SpaceInv'
    BY <1>1, <1>3 DEF SpaceInv, ReworkLabels
  <1>4. ASSUME NEW r \in Run, ReviewStep(r) \/ Reports(r) \/ VerifyStep(r), UNCHANGED reworkVars
        PROVE  SpaceInv'
    <2>1. \A q \in Run : at'[q] = at[q] \/ at'[q] \notin ReworkLabels
      BY <1>4, ReviewMoves, VerifyMoves DEF Reports, MovesIn, ReviewLabels, ReworkLabels, VerifyLabels
    <2> QED BY <1>3, <1>4, <2>1 DEF reworkVars
  <1>5. ASSUME World, UNCHANGED reworkVars PROVE SpaceInv'
    BY <1>3, <1>5, WorldStays DEF reworkVars
  <1>6. ASSUME NEW r \in Run, ReworkStep(r) PROVE SpaceInv'
    <2>1. ASSUME NEW q \in Run \ {r} PROVE at'[q] = at[q] /\ home'[q] = home[q]
      <3>1. at'[q] = at[q]
        BY <1>6, ReworkMoves DEF MovesIn
      <3>2. home'[q] = home[q]
        BY <1>6 DEF ReworkStep, Confirm, FindPR, ListSpaces, ListAgents, PinNote, Tell, FetchBranch,
             CleanStatus, NothingOnlyLocal, CloseSpace, RemoveWorktree, DeleteBranch, CreateWorktree,
             LaunchWorker, reworkVars
      <3> QED BY <3>1, <3>2
    <2>2. \A a \in agents : a[1] # 0
      BY DEF Agent
    <2> DEFINE Mine ==
          /\ at'[r] \in {"approval", "pr", "spaces"} => home'[r] = 0
          /\ at'[r] \in {"fetch", "status", "ancestor", "close"} =>
               \A a \in there'[r] : a[1] # home'[r]
    <2>3. Mine
      <3> USE DEF GoTo, Fails
      <3>1. CASE Confirm(r)
        BY <3>1 DEF Confirm, reworkVars, SpaceInv
      <3>2. CASE FindPR(r)
        BY <1>1, <2>2, <3>2 DEF FindPR, SpaceInv
      <3>3. CASE ListSpaces(r)
        BY <1>1, <2>2, <3>3 DEF ListSpaces
      <3>4. CASE ListAgents(r)
        <4>1. at[r] = "agents" /\ home' = home /\ at'[r] \in {"fetch", "failed", "pin"}
          BY <3>4 DEF ListAgents
        <4>2. at'[r] = "fetch" => AgentsIn(home[r]) = {}
          BY <3>4 DEF ListAgents
        <4>3. at'[r] = "fetch" => \A a \in agents : a[1] # home[r]
          BY <4>2 DEF AgentsIn
        <4> QED BY <1>1, <4>1, <4>3
      <3>5. CASE PinNote(r) \/ Tell(r)
        BY <3>5 DEF PinNote, Tell
      <3>6. CASE FetchBranch(r) \/ CleanStatus(r) \/ NothingOnlyLocal(r)
        <4>1. /\ home' = home /\ at[r] \in {"fetch", "status", "ancestor"}
              /\ at'[r] \in {"status", "ancestor", "close", "failed"}
          BY <3>6 DEF FetchBranch, CleanStatus, NothingOnlyLocal, reworkVars
        <4> QED BY <1>1, <4>1 DEF SpaceInv
      <3>7. CASE CloseSpace(r) \/ RemoveWorktree(r) \/ DeleteBranch(r) \/ CreateWorktree(r) \/ LaunchWorker(r)
        BY <3>7 DEF CloseSpace, RemoveWorktree, DeleteBranch, CreateWorktree, LaunchWorker
      <3> QED BY <1>6, <3>1, <3>2, <3>3, <3>4, <3>5, <3>6, <3>7 DEF ReworkStep
    <2> HIDE DEF Mine
    <2>4. SUFFICES ASSUME NEW q \in Run
                   PROVE  /\ at'[q] \in {"approval", "pr", "spaces"} => home'[q] = 0
                          /\ at'[q] \in {"fetch", "status", "ancestor", "close"} =>
                               \A a \in there'[q] : a[1] # home'[q]
      BY DEF SpaceInv
    <2>5. CASE q = r
      BY <2>3, <2>5 DEF Mine
    <2> QED BY <1>2, <2>1, <2>5
  <1> QED BY <1>4, <1>5, <1>6 DEF Steps

-----------------------------------------------------------------------------
(* The theorems.  Of Init they need nothing of Matters, which only spares TLC states *)
(* that differ in what no run of an instance looks at. *)

LEMMA InitHolds == Init => IInv
  <1> SUFFICES ASSUME Init PROVE IInv
    OBVIOUS
  <1> USE DEF Init
  <1>1. at \in [Run -> Labels] /\ \A r \in Run : at[r] \in {"view", "approval", "verify", "over"}
    BY DEF Labels
  <1>2. TypeOK
    <2>1. WorldTypeOK
      <3>1. {1} \in Commit /\ {1, 2} \in Commit /\ {} \in Commit
        BY DEF Commit
      <3>2. checks \in [Commit -> CIStates]
        BY DEF WorldInit, CIStates
      <3>3. spaces \subseteq Nat \ {0} /\ agents \subseteq Agent /\ busy \subseteq agents
        BY DEF WorldInit, Agent, Who
      <3>4. dirty \in BOOLEAN /\ checkout \in BOOLEAN /\ prOpen \in BOOLEAN
        BY DEF WorldInit
      <3>5. head \in Commit /\ tracking \in Commit /\ local \in Commit \cup {NoBranch}
        BY <3>1 DEF WorldInit
      <3>6. text \in Text /\ approved \subseteq Text
        BY DEF WorldInit
      <3>7. made \in Nat /\ made <= MaxChanges /\ opened \in Nat /\ events \in Nat
        BY DEF WorldInit
      <3> QED BY <1>1, <3>2, <3>3, <3>4, <3>5, <3>6, <3>7 DEF WorldTypeOK
    <2>2. ReviewTypeOK
      BY DEF ReviewInit, ReviewTypeOK, Commit, Outcomes
    <2>3. ReworkTypeOK
      BY DEF ReworkInit, ReworkTypeOK, NoAgent, Who
    <2>4. VerifyTypeOK
      BY DEF VerifyInit, VerifyTypeOK, NotRun, Ending, Commit
    <2> QED BY <2>1, <2>2, <2>3, <2>4 DEF TypeOK, Commit
  <1>3. ReviewInv /\ VerdictHolds
    BY <1>1 DEF ReviewInit, ReviewInv, VerdictHolds, ReviewLabels
  <1>4. VerifyInv /\ VerifyProves
    BY <1>1 DEF VerifyInit, VerifyInv, VerifyProves, VerifyLabels
  <1>5. BranchInv
    <2>1. local \in {{1}, {1, 2}, {}, NoBranch} /\ (checkout => local # NoBranch)
      BY DEF WorldInit, NoBranch
    <2> QED BY <2>1 DEF WorldInit, BranchInv
  <1>6. LooksInv /\ ReworkLosesNothing
    BY <1>1 DEF LooksInv, ReworkLosesNothing
  <1>7. SpaceInv
    BY <1>1 DEF ReworkInit, SpaceInv
  <1> QED BY <1>2, <1>3, <1>4, <1>5, <1>6, <1>7 DEF IInv

LEMMA NextHolds == IInv /\ [Next]_vars => IInv'
  <1> SUFFICES ASSUME IInv, [Next]_vars PROVE IInv'
    OBVIOUS
  <1>1. CASE Next
    <2> USE DEF IInv
    <2>1. Watch /\ Steps
      BY <1>1 DEF Next, Steps
    <2>2. at \in [Run -> Labels]
      BY DEF TypeOK, WorldTypeOK
    <2>3. TypeOK'
      BY <1>1, TypeStep
    <2>4. BranchMove /\ BranchInv'
      BY <2>1, BranchStep
    <2>5. LooksInv' /\ ReworkLosesNothing'
      BY <2>1, <2>4, Walks, LooksKept
    <2>6. SpaceInv'
      BY <2>1, SpacesKept
    <2>7. ReviewInv' /\ VerdictHolds'
      <3>1. ASSUME NEW r \in Run, ReworkStep(r) \/ VerifyStep(r)
            PROVE  \A q \in Run : at'[q] = at[q] \/ at'[q] \notin ReviewLabels
        BY <2>2, <3>1, ReworkMoves, VerifyMoves DEF MovesIn, ReviewLabels, ReworkLabels, VerifyLabels
      <3> QED BY <2>1, <3>1, WorldStays, ReviewFrame, ReviewKept, ReportKept DEF Steps
    <2>8. VerifyInv' /\ VerifyProves'
      <3>1. ASSUME NEW r \in Run, ReviewStep(r) \/ ReworkStep(r) \/ Reports(r)
            PROVE  \A q \in Run : at'[q] = at[q] \/ at'[q] \notin VerifyLabels
        BY <2>2, <3>1, ReviewMoves, ReworkMoves
           DEF Reports, MovesIn, ReviewLabels, ReworkLabels, VerifyLabels
      <3> QED BY <2>1, <3>1, WorldStays, VerifyFrame, VerifyKept DEF Steps
    <2> QED BY <2>3, <2>4, <2>5, <2>6, <2>7, <2>8
  <1>2. CASE UNCHANGED vars
    <2> USE <1>2 DEF vars, worldVars, hubVars, diskVars, herdrVars, reviewVars, reworkVars, verifyVars, history
    <2>1. TypeOK'
      BY DEF IInv, TypeOK, WorldTypeOK, ReviewTypeOK, ReworkTypeOK, VerifyTypeOK
    <2>2. ReviewInv' /\ VerdictHolds'
      BY DEF IInv, ReviewInv, VerdictHolds, Decided
    <2>3. VerifyInv' /\ VerifyProves'
      BY VerifyFrame DEF IInv
    <2>4. BranchInv' /\ LooksInv' /\ ReworkLosesNothing' /\ SpaceInv'
      BY DEF IInv, BranchInv, LooksInv, ReworkLosesNothing, SpaceInv
    <2> QED BY <2>1, <2>2, <2>3, <2>4 DEF IInv
  <1> QED BY <1>1, <1>2

\* The inductive invariant: types, what each command carries from one look to the
\* next, and what the branch, its workspaces and the pull request allow of each other.
THEOREM Invariant == Spec => []IInv
  BY InitHolds, NextHolds, PTL DEF Spec

\* A review posts only about a commit that was the pull request's, and green, after its
\* reviewer's verdict, and verified only for a pass against text approved while it ran,
\* whatever is pushed, edited, approved or run again in between (reviewCommand).
THEOREM ReviewHolds == Spec => []VerdictHolds
  <1>1. IInv => VerdictHolds
    BY DEF IInv
  <1> QED BY Invariant, <1>1, PTL

\* What verify calls verified meets every check, and a check failed on the base for
\* its own sake wherever it could be run there (classifyCheck).
THEOREM VerifyIsRight == Spec => []VerifyProves
  <1>1. IInv => VerifyProves
    BY DEF IInv
  <1> QED BY Invariant, <1>1, PTL

\* A rework destroys neither uncommitted files nor a commit it had seen on the branch,
\* and starts its worker on all the pull request held, with any number of other runs
\* and people at the same worktree (checkNothingOnlyLocal, fetchRemoteBranch).
THEOREM NothingLost == Spec => []ReworkLosesNothing
  <1>1. IInv => ReworkLosesNothing
    BY DEF IInv
  <1> QED BY Invariant, <1>1, PTL

\* Closing the old workspace takes no agent with it that was there when the rework
\* listed agents, for the workspace it closes had none of them (liveWorker).
THEOREM AgentsSpared == Spec => WorkersSpared
  <1>1. ASSUME IInv, Next, NEW r \in Run, CloseSpace(r) PROVE there[r] \cap agents \subseteq agents'
    <2>1. \A a \in there[r] : a[1] # home[r]
      BY <1>1 DEF IInv, SpaceInv, CloseSpace
    <2> QED BY <1>1, <2>1 DEF CloseSpace
  <1>2. IInv /\ [Next]_vars => [\A r \in Run : CloseSpace(r) => there[r] \cap agents \subseteq agents']_vars
    BY <1>1
  <1> QED BY Invariant, <1>2, PTL DEF Spec, WorkersSpared
=============================================================================
