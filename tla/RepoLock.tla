------------------------------ MODULE RepoLock ------------------------------
(***************************************************************************)
(* The repository lock of internal/repolock and the three ways the program *)
(* takes it: an event hook or startup (AcquireOrMark, then reconcileOpen), *)
(* `sync` (AcquireWithin, then reconcileOpen) and `prune-apply`            *)
(* (AcquireWithin, then one pass).  One repository is modelled: the files  *)
(* of two repositories are named apart and never meet.                     *)
(*                                                                         *)
(* Every process is one invocation of the binary, and every system call on *)
(* the lock file or on the dirty mark is a step of its own, because any    *)
(* other process may run between two of them.                              *)
(***************************************************************************)
EXTENDS Naturals

CONSTANTS
  Proc,        \* the invocations of the binary
  Kind,        \* what each one is: "hook", "sync" or "apply"
  NoLock,      \* there is no lock file
  Leftover,    \* owner of a lock file found on disk from an earlier boot
  Faults,      \* which faults this instance admits
  MaxPasses,   \* reconcilePasses of main.go: 3 in the program
  MaxPolls     \* how often AcquireWithin looks again before its deadline

FaultKinds == {"crash", "expire", "unusable", "passError", "recycledPid",
               "releaseFails", "leftover"}

ASSUME KindAssumption == Kind \in [Proc -> {"hook", "sync", "apply"}]
ASSUME NameAssumption ==
  /\ NoLock \notin Proc
  /\ Leftover \notin Proc
  /\ NoLock # Leftover
ASSUME BoundAssumption ==
  /\ MaxPasses \in Nat
  /\ MaxPolls \in Nat
  /\ Faults \subseteq FaultKinds

VARIABLES
  lockFile,    \* whose record is in the lock file, or NoLock
  expired,     \* that record is older than MaxHold
  dirty,       \* the dirty mark is on disk
  pc,          \* where each process stands
  grant,       \* the Lock it was given: "none", "lock" or "degraded"
  evidence,    \* the owner whose record a process judged abandoned
  retried,     \* a hook has marked and is on its second Acquire
  polls,       \* looks AcquireWithin has spent
  passes,      \* passes Repeat has finished
  adopted,     \* some pass of this process opened a workspace
  covered,     \* history: hooks whose event precedes a pass's snapshot
  robbed,      \* history: holders whose lock file somebody else removed
  lossy        \* history: a mark was dropped with no pass to follow it

lockVars    == <<lockFile, expired>>
passVars    == <<passes, adopted>>
historyVars == <<covered, robbed, lossy>>
vars == <<lockFile, expired, dirty, pc, grant, evidence, retried, polls,
          passes, adopted, covered, robbed, lossy>>

Terminal == {"finished", "leaked", "failed", "stoodDown", "gaveUp", "dead"}
Running  == {"claim", "judge", "remove", "reclaim", "mark", "poll",
             "clear", "pass", "act", "take", "trail", "release"}

\* The process exists, so signal 0 finds its pid.
Alive(p) == pc[p] \in Running

Holders == {p \in Proc : Alive(p) /\ grant[p] = "lock"}

Owners == Proc \cup {Leftover}

TypeOK ==
  /\ lockFile \in Owners \cup {NoLock}
  /\ expired \in BOOLEAN
  /\ dirty \in BOOLEAN
  /\ pc \in [Proc -> Running \cup Terminal \cup {"idle"}]
  /\ grant \in [Proc -> {"none", "lock", "degraded"}]
  /\ evidence \in [Proc -> Owners \cup {NoLock}]
  /\ retried \in [Proc -> BOOLEAN]
  /\ polls \in [Proc -> 0..MaxPolls]
  /\ passes \in [Proc -> 0..MaxPasses]
  /\ adopted \in [Proc -> BOOLEAN]
  /\ covered \subseteq Proc
  /\ robbed \subseteq Proc
  /\ lossy \in BOOLEAN

\* The state directory survives a reboot, so a run may start with a lock file
\* whose writer is long gone, fresh or past MaxHold.
Init ==
  /\ lockFile \in {NoLock} \cup (IF "leftover" \in Faults THEN {Leftover} ELSE {})
  /\ expired \in (IF lockFile = NoLock THEN {FALSE} ELSE BOOLEAN)
  /\ dirty \in (IF "leftover" \in Faults THEN BOOLEAN ELSE {FALSE})
  /\ pc = [p \in Proc |-> "idle"]
  /\ grant = [p \in Proc |-> "none"]
  /\ evidence = [p \in Proc |-> NoLock]
  /\ retried = [p \in Proc |-> FALSE]
  /\ polls = [p \in Proc |-> 0]
  /\ passes = [p \in Proc |-> 0]
  /\ adopted = [p \in Proc |-> FALSE]
  /\ covered = {}
  /\ robbed = {}
  /\ lossy = FALSE

Goto(p, label) == pc' = [pc EXCEPT ![p] = label]

-----------------------------------------------------------------------------
(* Acquire *)

\* The program starts, and goes straight to its first claim.
Start(p) ==
  /\ pc[p] = "idle"
  /\ Goto(p, "claim")
  /\ UNCHANGED <<lockVars, dirty, grant, evidence, retried, polls, passVars, historyVars>>

\* Where a process goes with the lock: Repeat clears the mark before its first
\* pass, prune-apply runs its one pass at once.
FirstStep(p) == IF Kind[p] = "apply" THEN "pass" ELSE "clear"

\* Mutant: the record is renamed into place, which replaces a lock somebody holds.
ClaimByRename(p) ==
  /\ pc[p] \in {"claim", "reclaim"}
  /\ lockFile' = p
  /\ expired' = FALSE
  /\ grant' = [grant EXCEPT ![p] = "lock"]
  /\ Goto(p, FirstStep(p))
  /\ UNCHANGED <<dirty, evidence, retried, polls, passVars, historyVars>>

\* os.Link put the record in place: it existed complete from its first instant.
Claim(p) ==
  /\ pc[p] \in {"claim", "reclaim"}
  /\ lockFile = NoLock
  /\ lockFile' = p
  /\ expired' = FALSE
  /\ grant' = [grant EXCEPT ![p] = "lock"]
  /\ Goto(p, FirstStep(p))
  /\ UNCHANGED <<dirty, evidence, retried, polls, passVars, historyVars>>

\* The directory cannot carry a claim: proceed with a lock that excludes nothing.
ClaimUnusable(p) ==
  /\ "unusable" \in Faults
  /\ pc[p] \in {"claim", "reclaim"}
  /\ grant' = [grant EXCEPT ![p] = "degraded"]
  /\ Goto(p, FirstStep(p))
  /\ UNCHANGED <<lockVars, dirty, evidence, retried, polls, passVars, historyVars>>

\* Where a refused Acquire leaves its caller.
AfterRefusal(p) ==
  IF Kind[p] # "hook" THEN "poll" ELSE IF retried[p] THEN "stoodDown" ELSE "mark"

\* os.Link refused because the file exists: look at it once, then give in.
ClaimBusy(p) ==
  /\ lockFile # NoLock
  /\ \/ pc[p] = "claim" /\ Goto(p, "judge")
     \/ pc[p] = "reclaim" /\ Goto(p, AfterRefusal(p))
  /\ UNCHANGED <<lockVars, dirty, grant, evidence, retried, polls, passVars, historyVars>>

\* Signal 0 on the recorded pid.  A pid recycled onto another program answers
\* for a holder that is gone.
ProcessAlive(owner) ==
  \/ owner \in Proc /\ Alive(owner)
  \/ "recycledPid" \in Faults

\* Mutant: the age is compared the wrong way round.
HeldIfOld == lockFile # NoLock /\ expired /\ ProcessAlive(lockFile)

HeldByALiveHolder == lockFile # NoLock /\ ~expired /\ ProcessAlive(lockFile)

\* heldByALiveHolder reads the record and judges it.  A file that vanished since
\* the claim, one that cannot be read, an expired one and one of a dead pid are
\* all abandoned.  With pids recycled the kernel may answer either way.
Judge(p) ==
  /\ pc[p] = "judge"
  /\ \/ /\ HeldByALiveHolder
        /\ Goto(p, AfterRefusal(p))
        /\ UNCHANGED evidence
     \/ /\ \/ ~HeldByALiveHolder
           \/ lockFile \in Proc /\ ~Alive(lockFile)
           \/ lockFile = Leftover
        /\ evidence' = [evidence EXCEPT ![p] = lockFile]
        /\ Goto(p, "remove")
  /\ UNCHANGED <<lockVars, dirty, grant, retried, polls, passVars, historyVars>>

\* Everyone but p who loses its lock when p unlinks the path.
Victims(p) == {q \in Holders : q # p /\ lockFile = q}

\* os.Remove(path): it names the path, not the file that was judged.
Remove(p) ==
  /\ pc[p] = "remove"
  /\ lockFile' = NoLock
  /\ expired' = FALSE
  /\ robbed' = robbed \cup Victims(p)
  /\ Goto(p, "reclaim")
  /\ UNCHANGED <<dirty, grant, evidence, retried, polls, passVars, covered, lossy>>

-----------------------------------------------------------------------------
(* AcquireOrMark and AcquireWithin *)

\* MarkDirty, then the second Acquire.
Mark(p) ==
  /\ pc[p] = "mark"
  /\ dirty' = TRUE
  /\ retried' = [retried EXCEPT ![p] = TRUE]
  /\ Goto(p, "claim")
  /\ UNCHANGED <<lockVars, grant, evidence, polls, passVars, historyVars>>

\* The mark could not be written: either its directory could not be made, which
\* MarkDirty swallows, or the write failed and the hook reports it.
MarkFails(p) ==
  /\ "unusable" \in Faults
  /\ pc[p] = "mark"
  /\ \/ /\ retried' = [retried EXCEPT ![p] = TRUE]
        /\ lossy' = TRUE
        /\ Goto(p, "claim")
     \/ /\ Goto(p, "failed")
        /\ UNCHANGED <<retried, lossy>>
  /\ UNCHANGED <<lockVars, dirty, grant, evidence, polls, passVars, covered, robbed>>

\* Mutant: no deadline is checked between two looks.
PollForever(p) ==
  /\ pc[p] = "poll"
  /\ Goto(p, "claim")
  /\ UNCHANGED <<lockVars, dirty, grant, evidence, retried, polls, passVars, historyVars>>

\* AcquireWithin sleeps 50ms and asks again; MaxPolls bounds the looks that fit
\* before its deadline.
Poll(p) ==
  /\ pc[p] = "poll"
  /\ polls[p] < MaxPolls
  /\ polls' = [polls EXCEPT ![p] = polls[p] + 1]
  /\ Goto(p, "claim")
  /\ UNCHANGED <<lockVars, dirty, grant, evidence, retried, passVars, historyVars>>

\* The deadline has passed: the command tells its user to try again.
GiveUp(p) ==
  /\ pc[p] = "poll"
  /\ Goto(p, "gaveUp")
  /\ UNCHANGED <<lockVars, dirty, grant, evidence, retried, polls, passVars, historyVars>>

-----------------------------------------------------------------------------
(* Repeat and reconcileOpen *)

\* TakeDirty: a degraded lock knows no mark.
MarkSeen(p) == grant[p] = "lock" /\ dirty
TakeDirty(p) == dirty' = (dirty /\ ~MarkSeen(p))

\* The mark is cleared BEFORE the first pass.  With a cap of no pass at all
\* Repeat returns having run nothing.
Clear(p) ==
  /\ pc[p] = "clear"
  /\ TakeDirty(p)
  /\ IF MaxPasses > 0
     THEN Goto(p, "pass") /\ UNCHANGED lossy
     ELSE Goto(p, "release") /\ lossy' = (lossy \/ MarkSeen(p))
  /\ UNCHANGED <<lockVars, grant, evidence, retried, polls, passVars, covered, robbed>>

\* A pass that adopts and staffs, which is what an event asks for.  prune-apply
\* does neither.
Reconciles(p) == Kind[p] # "apply"

\* A whole-repository snapshot: it shows whatever happened before it.
Snapshot(p) ==
  /\ pc[p] = "pass"
  /\ covered' = IF Reconciles(p) THEN {h \in Proc : pc[h] # "idle"} ELSE covered
  /\ Goto(p, "act")
  /\ UNCHANGED <<lockVars, dirty, grant, evidence, retried, polls, passVars, robbed, lossy>>

\* Collect failed: the body's error ends Repeat, and the mark that was cleared
\* for this pass has bought nothing.
SnapshotFails(p) ==
  /\ "passError" \in Faults
  /\ pc[p] = "pass"
  /\ lossy' = (lossy \/ Reconciles(p))
  /\ Goto(p, "release")
  /\ UNCHANGED <<lockVars, dirty, grant, evidence, retried, polls, passVars, covered, robbed>>

\* Mutant: prune-apply returns without the deferred release.
ActReturnsEarly(p) ==
  /\ pc[p] = "act"
  /\ IF ~Reconciles(p)
     THEN Goto(p, "finished") /\ UNCHANGED passVars
     ELSE /\ passes' = [passes EXCEPT ![p] = passes[p] + 1]
          /\ Goto(p, "take")
          /\ UNCHANGED adopted
  /\ UNCHANGED <<lockVars, dirty, grant, evidence, retried, polls, historyVars>>

\* perform carries the plan out, and may have opened a workspace.
Act(p) ==
  /\ pc[p] = "act"
  /\ IF ~Reconciles(p)
     THEN Goto(p, "release") /\ UNCHANGED passVars
     ELSE /\ \E opened \in BOOLEAN : adopted' = [adopted EXCEPT ![p] = @ \/ opened]
          /\ passes' = [passes EXCEPT ![p] = passes[p] + 1]
          /\ Goto(p, "take")
  /\ UNCHANGED <<lockVars, dirty, grant, evidence, retried, polls, historyVars>>

\* An action of the plan failed: perform's error ends Repeat.
ActFails(p) ==
  /\ "passError" \in Faults
  /\ pc[p] = "act"
  /\ Goto(p, "release")
  /\ UNCHANGED <<lockVars, dirty, grant, evidence, retried, polls, passVars, historyVars>>

\* Mutant: the mark is cleared after the work and nothing runs again for it.
TakeAndStop(p) ==
  /\ pc[p] = "take"
  /\ TakeDirty(p)
  /\ Goto(p, IF adopted[p] THEN "trail" ELSE "release")
  /\ UNCHANGED <<lockVars, grant, evidence, retried, polls, passVars, historyVars>>

\* After a pass the mark is taken again.  A mark taken after the last pass the
\* cap allows is gone, and no pass follows it.
Take(p) ==
  /\ pc[p] = "take"
  /\ TakeDirty(p)
  /\ LET another == MarkSeen(p) /\ passes[p] < MaxPasses
     IN  /\ lossy' = (lossy \/ (MarkSeen(p) /\ ~another))
         /\ Goto(p, IF another THEN "pass" ELSE IF adopted[p] THEN "trail" ELSE "release")
  /\ UNCHANGED <<lockVars, grant, evidence, retried, polls, passVars, covered, robbed>>

\* The trailing pass of reconcileOpen: it staffs what the passes opened and
\* adopts nothing, so it answers for no event, and nobody looks at the mark
\* after it.
Trail(p) ==
  /\ pc[p] = "trail"
  /\ Goto(p, "release")
  /\ UNCHANGED <<lockVars, dirty, grant, evidence, retried, polls, passVars, historyVars>>

\* Release unlinks the path, whoever's record is there by now.
Release(p) ==
  /\ pc[p] = "release"
  /\ grant' = [grant EXCEPT ![p] = "none"]
  /\ IF grant[p] = "lock"
     THEN lockFile' = NoLock /\ expired' = FALSE /\ robbed' = robbed \cup Victims(p)
     ELSE UNCHANGED <<lockVars, robbed>>
  /\ Goto(p, "finished")
  /\ UNCHANGED <<dirty, evidence, retried, polls, passVars, covered, lossy>>

\* The unlink failed: releaseLock warns, and the file stays for others to judge.
ReleaseFails(p) ==
  /\ "releaseFails" \in Faults
  /\ pc[p] = "release"
  /\ grant[p] = "lock"
  /\ grant' = [grant EXCEPT ![p] = "none"]
  /\ Goto(p, "leaked")
  /\ UNCHANGED <<lockVars, dirty, evidence, retried, polls, passVars, historyVars>>

-----------------------------------------------------------------------------
(* The environment *)

\* The process is killed between any two steps.  One that dies between taking
\* the mark and its snapshot takes the mark with it.
Crash(p) ==
  /\ "crash" \in Faults
  /\ Alive(p)
  /\ grant' = [grant EXCEPT ![p] = "none"]
  /\ lossy' = (lossy \/ (pc[p] = "pass" /\ Reconciles(p)))
  /\ Goto(p, "dead")
  /\ UNCHANGED <<lockVars, dirty, evidence, retried, polls, passVars, covered, robbed>>

\* MaxHold passes, the holder dead, wedged or merely slow.
Expire ==
  /\ "expire" \in Faults
  /\ lockFile # NoLock
  /\ ~expired
  /\ expired' = TRUE
  /\ UNCHANGED <<lockFile, dirty, pc, grant, evidence, retried, polls, passVars, historyVars>>

-----------------------------------------------------------------------------
Step(p) ==
  \/ Start(p) \/ Claim(p) \/ ClaimUnusable(p) \/ ClaimBusy(p) \/ Judge(p)
  \/ Remove(p) \/ Mark(p) \/ MarkFails(p) \/ Poll(p) \/ GiveUp(p)
  \/ Clear(p) \/ Snapshot(p) \/ SnapshotFails(p) \/ Act(p) \/ ActFails(p)
  \/ Take(p) \/ Trail(p) \/ Release(p) \/ ReleaseFails(p)

Next == (\E p \in Proc : Step(p) \/ Crash(p)) \/ Expire

Spec == Init /\ [][Next]_vars

\* A started process is scheduled until it ends, and AcquireWithin's deadline
\* bounds its polls; nothing is assumed of arrivals, crashes or the clock.
Fairness == \A p \in Proc : WF_vars(Step(p) /\ pc[p] # "idle")

FairSpec == Spec /\ Fairness

-----------------------------------------------------------------------------
(* Properties *)

\* Two processes hold the repository at once only if somebody unlinked the lock
\* file of one of them: os.Link refuses an existing target, so nothing but an
\* os.Remove of a path breaks the exclusion (repolock.go:claim, Acquire, Release).
Exclusion ==
  \A p, q \in Holders : p # q => p \in robbed \/ q \in robbed

\* A lock file never outlives its process by accident: its owner holds the lock
\* still, was killed holding it, or failed to unlink it (Release, releaseLock).
NoOrphanLock ==
  lockFile \in Proc => lockFile \in Holders \/ pc[lockFile] \in {"dead", "leaked"}

\* The lock is never taken from a live, recent holder on a judgement of that
\* holder: it is lost only to a process that judged an EARLIER lock file, or the
\* absence of one (heldByALiveHolder then os.Remove, repolock.go:91-94).
JudgedFairly ==
  [][\A p \in Proc : \A q \in Holders :
       (pc[p] = "remove" /\ pc'[p] = "reclaim" /\ lockFile = q /\ ~expired)
         => evidence[p] # q]_vars

\* A mark is discharged by a later snapshot or is still to be seen: a hook that
\* stood down is covered by an adopting and staffing pass that began after its
\* event, or the mark is on disk, or a process that took it has that snapshot
\* ahead of it.  Only a failed or killed pass, an unwritable mark, or the cap of
\* Repeat drops one (Repeat, TakeDirty, AcquireOrMark).
MarkKept ==
  \A h \in Proc : pc[h] = "stoodDown" =>
     \/ h \in covered
     \/ dirty
     \/ \E p \in Proc : pc[p] = "pass" /\ Reconciles(p)
     \/ lossy

\* Every invocation that starts ends: no chain of refusals, marks and passes
\* keeps one process, or two of them handing marks to each other, going forever.
EveryRunEnds == \A p \in Proc : pc[p] # "idle" ~> pc[p] \in Terminal

-----------------------------------------------------------------------------
(* What the repository says and the code does not do *)

\* events.go says of a hook that stands down: the mark stops the holder finishing
\* on a snapshot older than the event.  With no fault at all: once everything
\* that ran has ended, every hook that stood down is covered.
StandDownIsNeverDropped ==
  (\A p \in Proc : pc[p] \in Terminal) =>
     \A h \in Proc : pc[h] = "stoodDown" => h \in covered
=============================================================================
