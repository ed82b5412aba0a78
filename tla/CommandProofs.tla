---------------------------- MODULE CommandProofs ----------------------------
(***************************************************************************)
(* Theorems about what every command rests on: the lock of the repository, *)
(* for every set of processes, every mix of their kinds, every set of      *)
(* faults and every bound; the plan, for every State a Collector may hand  *)
(* over; and the dial and the evidence prune-apply removes a checkout on,  *)
(* for every machine.                                                      *)
(***************************************************************************)
EXTENDS RepoLock, Degraded, FiniteSetTheorems, SequenceTheorems, NaturalsInduction, TLAPS

-----------------------------------------------------------------------------
(* The repository lock *)

\* Where a process stands while it has a grant, and from there on.
Granted == {"clear", "pass", "act", "take", "trail", "release"}
PastLock == Granted \cup Terminal

\* Only a process past its claim has a grant, and the counters keep their caps.
ControlInv ==
  /\ \A p \in Proc : grant[p] # "none" => pc[p] \in Granted
  /\ \A p \in Proc : pc[p] \in {"clear", "take", "trail"} => Reconciles(p)
  /\ \A p \in Proc : pc[p] = "clear" => passes[p] = 0
  /\ \A p \in Proc : pc[p] \in {"idle", "claim", "judge", "remove", "reclaim", "mark", "poll"}
                       => passes[p] = 0
  /\ \A p \in Proc : pc[p] \in {"pass", "act"} /\ Reconciles(p) => passes[p] < MaxPasses

\* A holder nobody robbed still owns the lock file.
OwnerInv == \A p \in Holders : p \notin robbed => lockFile = p

\* What a process about to unlink the path has judged is past caring, or expired.
JudgedInv ==
  \A p, q \in Proc : pc[p] = "remove" /\ evidence[p] = q =>
    /\ pc[q] \in PastLock
    /\ q \in Holders /\ lockFile = q => expired

\* MarkKept, strengthened to the hooks that have marked and not yet stood down.
Discharged(h) ==
  \/ h \in covered
  \/ dirty
  \/ \E p \in Proc : pc[p] = "pass" /\ Reconciles(p)
  \/ lossy

MarkInv ==
  \A h \in Proc :
    /\ pc[h] = "stoodDown" => retried[h]
    /\ retried[h] => pc[h] # "idle"
    /\ retried[h] => Discharged(h)

IInv == TypeOK /\ ControlInv /\ NoOrphanLock /\ OwnerInv /\ JudgedInv /\ MarkInv

-----------------------------------------------------------------------------
USE KindAssumption, NameAssumption, BoundAssumption

LEMMA InitIInv == Init => IInv
  <1> SUFFICES ASSUME Init PROVE IInv
    OBVIOUS
  <1> USE DEF Init
  <1>1. TypeOK
    <2>1. lockFile \in Owners \cup {NoLock} /\ expired \in BOOLEAN /\ dirty \in BOOLEAN
      BY DEF Owners
    <2>2. pc \in [Proc -> Running \cup Terminal \cup {"idle"}]
      OBVIOUS
    <2>3. /\ polls \in [Proc -> 0..MaxPolls]
          /\ passes \in [Proc -> 0..MaxPasses]
      OBVIOUS
    <2> QED BY <2>1, <2>2, <2>3 DEF TypeOK
  <1>2. ControlInv /\ JudgedInv /\ MarkInv
    BY DEF ControlInv, JudgedInv, MarkInv, Granted
  <1>3. NoOrphanLock /\ OwnerInv
    BY DEF NoOrphanLock, OwnerInv, Holders, Alive
  <1> QED BY <1>1, <1>2, <1>3 DEF IInv

\* One step of one process keeps the types: the counters by ControlInv and the
\* guards, everything else by the shape of the assignments.
LEMMA StepType ==
  ASSUME TypeOK, ControlInv, NEW p \in Proc, Step(p) \/ Crash(p) PROVE TypeOK'
  <1> USE DEF TypeOK, Running, Terminal, Owners, Goto, lockVars, passVars, historyVars
  <1>1. CASE Start(p) \/ Claim(p) \/ ClaimUnusable(p) \/ ClaimBusy(p)
    BY <1>1 DEF Start, Claim, ClaimUnusable, ClaimBusy, FirstStep, AfterRefusal
  <1>2. CASE Judge(p)
    <2>1. pc' = [pc EXCEPT ![p] = AfterRefusal(p)] \/ pc' = [pc EXCEPT ![p] = "remove"]
      BY <1>2 DEF Judge
    <2>2. (pc \in [Proc -> Running \cup Terminal \cup {"idle"}])'
      BY <2>1 DEF AfterRefusal
    <2>3. (evidence \in [Proc -> Owners \cup {NoLock}])'
      BY <1>2 DEF Judge
    <2> QED BY <1>2, <2>2, <2>3 DEF Judge
  <1>3. CASE Remove(p)
    BY <1>3 DEF Remove, Victims, Holders, Alive
  <1>4. CASE Mark(p) \/ MarkFails(p) \/ GiveUp(p)
    BY <1>4 DEF Mark, MarkFails, GiveUp
  <1>5. CASE Poll(p)
    <2>1. polls[p] + 1 \in 0..MaxPolls
      BY <1>5 DEF Poll
    <2> QED BY <1>5, <2>1 DEF Poll
  <1>6. CASE Clear(p)
    <2>1. (dirty \in BOOLEAN /\ lossy \in BOOLEAN)'
      BY <1>6 DEF Clear, TakeDirty, MarkSeen
    <2> QED BY <1>6, <2>1 DEF Clear
  <1>7. CASE Snapshot(p) \/ SnapshotFails(p)
    BY <1>7 DEF Snapshot, SnapshotFails, Reconciles
  <1>8. CASE Act(p)
    <2>1. CASE Reconciles(p)
      <3>1. passes[p] + 1 \in 0..MaxPasses
        BY <1>8, <2>1 DEF Act, ControlInv
      <3> QED BY <1>8, <2>1, <3>1 DEF Act
    <2> QED BY <1>8, <2>1 DEF Act
  <1>9. CASE ActFails(p) \/ Trail(p)
    BY <1>9 DEF ActFails, Trail
  <1>10. CASE Take(p)
    <2>1. (dirty \in BOOLEAN /\ lossy \in BOOLEAN)'
      BY <1>10 DEF Take, TakeDirty, MarkSeen
    <2>2. (pc \in [Proc -> Running \cup Terminal \cup {"idle"}])'
      BY <1>10 DEF Take
    <2> QED BY <1>10, <2>1, <2>2 DEF Take
  <1>11. CASE Release(p) \/ ReleaseFails(p) \/ Crash(p)
    BY <1>11, ZenonT(60) DEF Release, ReleaseFails, Crash, Victims, Holders, Alive, Reconciles
  <1> QED
    BY <1>1, <1>2, <1>3, <1>4, <1>5, <1>6, <1>7, <1>8, <1>9, <1>10, <1>11 DEF Step
\* A grant is given at a claim and gone at the end; a pass is counted once.
LEMMA StepControl ==
  ASSUME TypeOK, ControlInv,
         NEW p \in Proc, Step(p) \/ Crash(p)
  PROVE  ControlInv'
  <1> USE DEF Goto, lockVars, passVars, historyVars, TypeOK, ControlInv, Granted, Reconciles, Terminal, Running
  <1>1. CASE Start(p)
    BY <1>1 DEF Start
  <1>2. CASE Claim(p)
    BY <1>2 DEF Claim, FirstStep
  <1>3. CASE ClaimUnusable(p)
    BY <1>3 DEF ClaimUnusable, FirstStep
  <1>4. CASE ClaimBusy(p)
    BY <1>4 DEF ClaimBusy, AfterRefusal
  <1>5. CASE Judge(p)
    BY <1>5 DEF Judge, AfterRefusal, HeldByALiveHolder, ProcessAlive
  <1>6. CASE Remove(p)
    BY <1>6 DEF Remove, Victims
  <1>7. CASE Mark(p)
    BY <1>7 DEF Mark
  <1>8. CASE MarkFails(p)
    BY <1>8 DEF MarkFails
  <1>9. CASE Poll(p)
    BY <1>9 DEF Poll
  <1>10. CASE GiveUp(p)
    BY <1>10 DEF GiveUp
  <1>11. CASE Clear(p)
    BY <1>11 DEF Clear, TakeDirty, MarkSeen
  <1>12. CASE Snapshot(p)
    BY <1>12 DEF Snapshot
  <1>13. CASE SnapshotFails(p)
    BY <1>13 DEF SnapshotFails
  <1>14. CASE Act(p)
    BY <1>14 DEF Act
  <1>15. CASE ActFails(p)
    BY <1>15 DEF ActFails
  <1>16. CASE Take(p)
    BY <1>16 DEF Take, TakeDirty, MarkSeen
  <1>17. CASE Trail(p)
    BY <1>17 DEF Trail
  <1>18. CASE Release(p)
    BY <1>18 DEF Release, Victims
  <1>19. CASE ReleaseFails(p)
    BY <1>19 DEF ReleaseFails
  <1>20. CASE Crash(p)
    BY <1>20 DEF Crash
  <1> QED
    BY <1>1, <1>2, <1>3, <1>4, <1>5, <1>6, <1>7, <1>8, <1>9, <1>10, <1>11, <1>12, <1>13, <1>14, <1>15, <1>16, <1>17, <1>18, <1>19, <1>20 DEF Step

\* The lock file is written by a claim and survives only a killed or failing release.
LEMMA StepOrphan ==
  ASSUME TypeOK, ControlInv, NoOrphanLock,
         NEW p \in Proc, Step(p) \/ Crash(p)
  PROVE  NoOrphanLock'
  <1> USE DEF Goto, lockVars, passVars, historyVars, TypeOK, ControlInv, NoOrphanLock, Granted, Holders, Alive, Running, Terminal
  <1>1. CASE Start(p)
    BY <1>1 DEF Start
  <1>2. CASE Claim(p)
    BY <1>2 DEF Claim, FirstStep
  <1>3. CASE ClaimUnusable(p)
    BY <1>3 DEF ClaimUnusable, FirstStep
  <1>4. CASE ClaimBusy(p)
    BY <1>4 DEF ClaimBusy, AfterRefusal
  <1>5. CASE Judge(p)
    BY <1>5 DEF Judge, AfterRefusal, HeldByALiveHolder, ProcessAlive
  <1>6. CASE Remove(p)
    BY <1>6 DEF Remove, Victims
  <1>7. CASE Mark(p)
    BY <1>7 DEF Mark
  <1>8. CASE MarkFails(p)
    BY <1>8 DEF MarkFails
  <1>9. CASE Poll(p)
    BY <1>9 DEF Poll
  <1>10. CASE GiveUp(p)
    BY <1>10 DEF GiveUp
  <1>11. CASE Clear(p)
    BY <1>11 DEF Clear, TakeDirty, MarkSeen
  <1>12. CASE Snapshot(p)
    BY <1>12 DEF Snapshot
  <1>13. CASE SnapshotFails(p)
    BY <1>13 DEF SnapshotFails
  <1>14. CASE Act(p)
    BY <1>14 DEF Act
  <1>15. CASE ActFails(p)
    BY <1>15 DEF ActFails
  <1>16. CASE Take(p)
    BY <1>16 DEF Take, TakeDirty, MarkSeen
  <1>17. CASE Trail(p)
    BY <1>17 DEF Trail
  <1>18. CASE Release(p)
    BY <1>18 DEF Release, Victims
  <1>19. CASE ReleaseFails(p)
    BY <1>19 DEF ReleaseFails
  <1>20. CASE Crash(p)
    BY <1>20 DEF Crash
  <1> QED
    BY <1>1, <1>2, <1>3, <1>4, <1>5, <1>6, <1>7, <1>8, <1>9, <1>10, <1>11, <1>12, <1>13, <1>14, <1>15, <1>16, <1>17, <1>18, <1>19, <1>20 DEF Step

\* Whoever unlinks a file that is not its own is recorded as robbing its owner.
LEMMA StepOwner ==
  ASSUME TypeOK, ControlInv, NoOrphanLock, OwnerInv,
         NEW p \in Proc, Step(p) \/ Crash(p)
  PROVE  OwnerInv'
  <1> USE DEF Goto, lockVars, passVars, historyVars, TypeOK, ControlInv, NoOrphanLock, OwnerInv, Granted, Holders, Alive, Running, Terminal
  <1>1. CASE Start(p)
    BY <1>1 DEF Start
  <1>2. CASE Claim(p)
    BY <1>2 DEF Claim, FirstStep
  <1>3. CASE ClaimUnusable(p)
    BY <1>3 DEF ClaimUnusable, FirstStep
  <1>4. CASE ClaimBusy(p)
    BY <1>4 DEF ClaimBusy, AfterRefusal
  <1>5. CASE Judge(p)
    BY <1>5 DEF Judge, AfterRefusal, HeldByALiveHolder, ProcessAlive
  <1>6. CASE Remove(p)
    BY <1>6 DEF Remove, Victims
  <1>7. CASE Mark(p)
    BY <1>7 DEF Mark
  <1>8. CASE MarkFails(p)
    BY <1>8 DEF MarkFails
  <1>9. CASE Poll(p)
    BY <1>9 DEF Poll
  <1>10. CASE GiveUp(p)
    BY <1>10 DEF GiveUp
  <1>11. CASE Clear(p)
    BY <1>11 DEF Clear, TakeDirty, MarkSeen
  <1>12. CASE Snapshot(p)
    BY <1>12 DEF Snapshot
  <1>13. CASE SnapshotFails(p)
    BY <1>13 DEF SnapshotFails
  <1>14. CASE Act(p)
    BY <1>14 DEF Act
  <1>15. CASE ActFails(p)
    BY <1>15 DEF ActFails
  <1>16. CASE Take(p)
    BY <1>16 DEF Take, TakeDirty, MarkSeen
  <1>17. CASE Trail(p)
    BY <1>17 DEF Trail
  <1>18. CASE Release(p)
    BY <1>18 DEF Release, Victims
  <1>19. CASE ReleaseFails(p)
    BY <1>19 DEF ReleaseFails
  <1>20. CASE Crash(p)
    BY <1>20 DEF Crash
  <1> QED
    BY <1>1, <1>2, <1>3, <1>4, <1>5, <1>6, <1>7, <1>8, <1>9, <1>10, <1>11, <1>12, <1>13, <1>14, <1>15, <1>16, <1>17, <1>18, <1>19, <1>20 DEF Step

\* A judgement on a holder stays true: the dead stay dead, an old file stays old.
LEMMA StepJudged ==
  ASSUME TypeOK, ControlInv, NoOrphanLock, JudgedInv,
         NEW p \in Proc, Step(p) \/ Crash(p)
  PROVE  JudgedInv'
  <1> USE DEF Goto, lockVars, passVars, historyVars, TypeOK, ControlInv, NoOrphanLock, JudgedInv, PastLock, Granted, Holders, Alive, Running, Terminal
  <1>1. CASE Start(p)
    BY <1>1 DEF Start
  <1>2. CASE Claim(p)
    BY <1>2 DEF Claim, FirstStep
  <1>3. CASE ClaimUnusable(p)
    BY <1>3 DEF ClaimUnusable, FirstStep
  <1>4. CASE ClaimBusy(p)
    BY <1>4 DEF ClaimBusy, AfterRefusal
  <1>5. CASE Judge(p)
    BY <1>5 DEF Judge, AfterRefusal, HeldByALiveHolder, ProcessAlive
  <1>6. CASE Remove(p)
    BY <1>6 DEF Remove, Victims
  <1>7. CASE Mark(p)
    BY <1>7 DEF Mark
  <1>8. CASE MarkFails(p)
    BY <1>8 DEF MarkFails
  <1>9. CASE Poll(p)
    BY <1>9 DEF Poll
  <1>10. CASE GiveUp(p)
    BY <1>10 DEF GiveUp
  <1>11. CASE Clear(p)
    BY <1>11 DEF Clear, TakeDirty, MarkSeen
  <1>12. CASE Snapshot(p)
    BY <1>12 DEF Snapshot
  <1>13. CASE SnapshotFails(p)
    BY <1>13 DEF SnapshotFails
  <1>14. CASE Act(p)
    BY <1>14 DEF Act
  <1>15. CASE ActFails(p)
    BY <1>15 DEF ActFails
  <1>16. CASE Take(p)
    BY <1>16 DEF Take, TakeDirty, MarkSeen
  <1>17. CASE Trail(p)
    BY <1>17 DEF Trail
  <1>18. CASE Release(p)
    BY <1>18 DEF Release, Victims
  <1>19. CASE ReleaseFails(p)
    BY <1>19 DEF ReleaseFails
  <1>20. CASE Crash(p)
    BY <1>20 DEF Crash
  <1> QED
    BY <1>1, <1>2, <1>3, <1>4, <1>5, <1>6, <1>7, <1>8, <1>9, <1>10, <1>11, <1>12, <1>13, <1>14, <1>15, <1>16, <1>17, <1>18, <1>19, <1>20 DEF Step

\* Only a process with its snapshot ahead of it takes a mark from the disk.
LEMMA StepMark ==
  ASSUME TypeOK, ControlInv, MarkInv,
         NEW p \in Proc, Step(p) \/ Crash(p)
  PROVE  MarkInv'
  <1> USE DEF Goto, lockVars, passVars, historyVars, TypeOK, ControlInv, MarkInv, Discharged, Reconciles
  <1>1. CASE Start(p)
    BY <1>1 DEF Start
  <1>2. CASE Claim(p)
    BY <1>2 DEF Claim, FirstStep
  <1>3. CASE ClaimUnusable(p)
    BY <1>3 DEF ClaimUnusable, FirstStep
  <1>4. CASE ClaimBusy(p)
    BY <1>4 DEF ClaimBusy, AfterRefusal
  <1>5. CASE Judge(p)
    BY <1>5 DEF Judge, AfterRefusal, HeldByALiveHolder, ProcessAlive
  <1>6. CASE Remove(p)
    BY <1>6 DEF Remove, Victims
  <1>7. CASE Mark(p)
    BY <1>7 DEF Mark
  <1>8. CASE MarkFails(p)
    BY <1>8 DEF MarkFails
  <1>9. CASE Poll(p)
    BY <1>9 DEF Poll
  <1>10. CASE GiveUp(p)
    BY <1>10 DEF GiveUp
  <1>11. CASE Clear(p)
    BY <1>11 DEF Clear, TakeDirty, MarkSeen
  <1>12. CASE Snapshot(p)
    BY <1>12 DEF Snapshot
  <1>13. CASE SnapshotFails(p)
    BY <1>13 DEF SnapshotFails
  <1>14. CASE Act(p)
    BY <1>14 DEF Act
  <1>15. CASE ActFails(p)
    BY <1>15 DEF ActFails
  <1>16. CASE Take(p)
    BY <1>16 DEF Take, TakeDirty, MarkSeen
  <1>17. CASE Trail(p)
    BY <1>17 DEF Trail
  <1>18. CASE Release(p)
    BY <1>18 DEF Release, Victims
  <1>19. CASE ReleaseFails(p)
    BY <1>19 DEF ReleaseFails
  <1>20. CASE Crash(p)
    BY <1>20 DEF Crash
  <1> QED
    BY <1>1, <1>2, <1>3, <1>4, <1>5, <1>6, <1>7, <1>8, <1>9, <1>10, <1>11, <1>12, <1>13, <1>14, <1>15, <1>16, <1>17, <1>18, <1>19, <1>20 DEF Step

\* The clock running past MaxHold, and a stutter, disturb nothing.
LEMMA StepQuiet ==
  ASSUME IInv, Expire \/ UNCHANGED vars PROVE IInv'
  <1> USE DEF IInv, TypeOK, ControlInv, NoOrphanLock, OwnerInv, JudgedInv, MarkInv,
              Discharged, Holders, Alive, Reconciles
  <1>1. CASE Expire
    BY <1>1 DEF Expire, passVars, historyVars
  <1>2. CASE UNCHANGED vars
    BY <1>2 DEF vars
  <1> QED BY <1>1, <1>2

\* The invariant is inductive.
LEMMA NextIInv == IInv /\ [Next]_vars => IInv'
  <1> SUFFICES ASSUME IInv, [Next]_vars PROVE IInv'
    OBVIOUS
  <1>1. ASSUME NEW p \in Proc, Step(p) \/ Crash(p) PROVE IInv'
    BY <1>1, StepType, StepControl, StepOrphan, StepOwner, StepJudged, StepMark DEF IInv
  <1>2. CASE Expire \/ UNCHANGED vars
    BY <1>2, StepQuiet
  <1> QED BY <1>1, <1>2 DEF Next

\* Every reachable state satisfies the inductive invariant.
THEOREM Invariance == Spec => []IInv
  BY InitIInv, NextIInv, PTL DEF Spec

-----------------------------------------------------------------------------
\* The types hold in every reachable state; the bound on passes says that Repeat
\* never runs its body more than reconcilePasses times.
THEOREM TypeCorrect == Spec => []TypeOK
  <1>1. IInv => TypeOK
    BY DEF IInv
  <1> QED BY <1>1, Invariance, PTL

\* However many processes meet on the lock, whatever crashes, expires or fails:
\* two hold it together only after somebody unlinked one's lock file.
THEOREM MutualExclusion == Spec => []Exclusion
  <1>1. IInv => Exclusion
    BY DEF IInv, OwnerInv, Exclusion
  <1> QED BY <1>1, Invariance, PTL

\* No lock file is left behind by a process that ended in the ordinary way.
THEOREM NoLockOutlivesItsHolder == Spec => []NoOrphanLock
  <1>1. IInv => NoOrphanLock
    BY DEF IInv
  <1> QED BY <1>1, Invariance, PTL

\* No hook's mark is dropped but by a failed or killed pass, an unwritable mark or
\* the cap of Repeat: clearing before the snapshot is what makes it sound.
THEOREM NoMarkIsLost == Spec => []MarkKept
  <1>1. IInv => MarkKept
    BY DEF IInv, MarkInv, Discharged, MarkKept
  <1> QED BY <1>1, Invariance, PTL

\* A live holder whose lock is recent is never the one that was judged gone by the
\* process that takes its lock.
THEOREM StealsAreMisdirected == Spec => JudgedFairly
  <1>1. IInv /\ [Next]_vars =>
          [\A p \in Proc : \A q \in Holders :
             (pc[p] = "remove" /\ pc'[p] = "reclaim" /\ lockFile = q /\ ~expired)
               => evidence[p] # q]_vars
    BY DEF IInv, JudgedInv, Holders
  <1> QED BY <1>1, Invariance, PTL DEF Spec, JudgedFairly

-----------------------------------------------------------------------------
(* What Picked returns *)

\* The place an index has among those picked: the indices take all places, each its own.
Rank(where, i) == Cardinality({j \in where : j <= i})
Indices(where) == \E n \in Nat : where \subseteq 1..n

LEMMA Ranks ==
  ASSUME NEW where, Indices(where)
  PROVE  /\ Cardinality(where) \in Nat
         /\ \A i \in where : Rank(where, i) \in 1..Cardinality(where)
         /\ \A i, k \in where : Rank(where, i) = Rank(where, k) => i = k
         /\ \A m \in 1..Cardinality(where) : \E i \in where : Rank(where, i) = m
  <1> DEFINE rank(i) == Cardinality({j \in where : j <= i})
  <1>1. IsFiniteSet(where) /\ Cardinality(where) \in Nat /\ where \subseteq Nat
    <2>1. PICK n \in Nat : where \subseteq 1..n
      BY DEF Indices
    <2>2. IsFiniteSet(1..n)
      BY FS_Interval
    <2>3. IsFiniteSet(where)
      BY <2>1, <2>2, FS_Subset
    <2> QED BY <2>1, <2>3, FS_CardinalityType
  <1>2. ASSUME NEW i \in where PROVE rank(i) \in 1..Cardinality(where)
    <2>1. {j \in where : j <= i} \in SUBSET where /\ i \in {j \in where : j <= i}
      BY <1>1
    <2>2. IsFiniteSet({j \in where : j <= i}) /\ rank(i) <= Cardinality(where)
      BY <1>1, <2>1, FS_Subset
    <2>3. rank(i) \in Nat /\ rank(i) # 0
      BY <2>1, <2>2, FS_CardinalityType, FS_EmptySet
    <2> HIDE DEF rank
    <2> QED BY <1>1, <2>2, <2>3
  <1>3. ASSUME NEW i \in where, NEW k \in where, i < k PROVE rank(i) # rank(k)
    <2>0. i \in Nat /\ k \in Nat /\ \A j \in where : j \in Nat /\ (j <= i => j <= k)
      BY <1>1, <1>3
    <2>1. {j \in where : j <= i} \in SUBSET {j \in where : j <= k}
      BY <2>0
    <2>3. k \in {j \in where : j <= k} /\ k \notin {j \in where : j <= i}
      BY <1>3, <2>0
    <2>2. IsFiniteSet({j \in where : j <= k})
      BY <1>1, FS_Subset
    <2> QED BY <2>1, <2>2, <2>3, FS_Subset
  <1>4. ASSUME NEW i \in where, NEW k \in where, rank(i) = rank(k) PROVE i = k
    <2> HIDE DEF rank
    <2>1. i \in Nat /\ k \in Nat /\ (i < k => rank(i) # rank(k)) /\ (k < i => rank(k) # rank(i))
      BY <1>1, <1>3
    <2> QED BY <1>4, <2>1
  <1>5. ASSUME NEW m \in 1..Cardinality(where) PROVE \E i \in where : rank(i) = m
    <2> SUFFICES ASSUME \A i \in where : rank(i) # m PROVE FALSE
      OBVIOUS
    <2> DEFINE rest == (1..Cardinality(where)) \ {m}
               f    == [i \in where |-> rank(i)]
    <2>1. f \in [where -> rest]
      BY <1>2
    <2>2. IsFiniteSet(rest) /\ Cardinality(rest) < Cardinality(where)
      <3>1. IsFiniteSet(1..Cardinality(where)) /\ Cardinality(1..Cardinality(where)) = Cardinality(where)
        BY <1>1, FS_Interval
      <3>2. IsFiniteSet(rest) /\ Cardinality(rest) = Cardinality(1..Cardinality(where)) - 1
        BY <3>1, FS_RemoveElement
      <3> QED BY <1>1, <3>1, <3>2
    <2> HIDE DEF rest
    <2> HIDE DEF f
    <2>3. PICK x, y \in where : x # y /\ f[x] = f[y]
      BY <1>1, <2>1, <2>2, FS_PigeonHole
    <2>4. rank(x) = rank(y)
      BY <2>3 DEF f
    <2> QED BY <1>4, <2>3, <2>4
  <1> QED BY <1>1, <1>2, <1>4, <1>5 DEF Rank

\* In each place Picked has the element whose index takes that place.
LEMMA PickedIs ==
  ASSUME NEW seq, NEW where, Indices(where)
  PROVE  /\ DOMAIN Picked(seq, where) = 1..Cardinality(where)
         /\ \A m \in DOMAIN Picked(seq, where) :
              \E i \in where : Rank(where, i) = m /\ Picked(seq, where)[m] = seq[i]
  <1> DEFINE spot(m) == CHOOSE i \in where : Rank(where, i) = m
             places == 1..Cardinality(where)
  <1>1. Picked(seq, where) = [m \in places |-> seq[spot(m)]]
    BY DEF Picked, Rank
  <1>2. ASSUME NEW m \in places PROVE spot(m) \in where /\ Rank(where, spot(m)) = m
    BY Ranks
  <1> HIDE DEF spot, places
  <1> QED BY <1>1, <1>2 DEF places

\* Every element picked is there, in the place of its index.
LEMMA PickedAll ==
  ASSUME NEW seq, NEW where, Indices(where), NEW i \in where
  PROVE  /\ Rank(where, i) \in DOMAIN Picked(seq, where)
         /\ Picked(seq, where)[Rank(where, i)] = seq[i]
  <1> DEFINE m == Rank(where, i)
  <1>1. m \in 1..Cardinality(where)
    BY Ranks
  <1> HIDE DEF m
  <1>2. m \in DOMAIN Picked(seq, where)
    <2>1. DOMAIN Picked(seq, where) = 1..Cardinality(where)
      BY PickedIs
    <2> QED BY <1>1, <2>1
  <1>3. PICK k \in where : Rank(where, k) = m /\ Picked(seq, where)[m] = seq[k]
    BY <1>2, PickedIs
  <1>4. k = i
    BY <1>3, Ranks DEF m
  <1> QED BY <1>2, <1>3, <1>4 DEF m


IsSeq(s) == s \in Seq(Range(s))

\* Of a sequence, the elements at some indices.
LEMMA PickedOf ==
  ASSUME NEW seq, NEW where \in SUBSET DOMAIN seq, NEW n \in Nat, DOMAIN seq = 1..n
  PROVE  /\ Indices(where)
         /\ IsSeq(Picked(seq, where)) /\ Range(Picked(seq, where)) = {seq[i] : i \in where}
         /\ \A m \in DOMAIN Picked(seq, where) :
              \E i \in where : Rank(where, i) = m /\ Picked(seq, where)[m] = seq[i]
         /\ \A i \in where : Rank(where, i) \in DOMAIN Picked(seq, where)
                             /\ Picked(seq, where)[Rank(where, i)] = seq[i]
  <1>1. Indices(where)
    BY DEF Indices
  <1> DEFINE picked == Picked(seq, where)
  <1>2. /\ DOMAIN picked = 1..Cardinality(where) /\ Cardinality(where) \in Nat
        /\ \A m \in DOMAIN picked : \E i \in where : Rank(where, i) = m /\ picked[m] = seq[i]
    BY <1>1, PickedIs, Ranks
  <1>3. \A i \in where : Rank(where, i) \in DOMAIN picked /\ picked[Rank(where, i)] = seq[i]
    BY <1>1, PickedAll
  <1>4. picked \in [1..Cardinality(where) -> Range(picked)]
    <2>1. picked = [m \in 1..Cardinality(where) |-> picked[m]]
      BY <1>2 DEF Picked
    <2> HIDE DEF picked
    <2> QED BY <1>2, <2>1 DEF Range
  <1>5. IsSeq(picked)
    <2> HIDE DEF picked
    <2> QED BY <1>2, <1>4 DEF IsSeq
  <1> HIDE DEF picked
  <1>6. Range(picked) = {seq[i] : i \in where}
    BY <1>2, <1>3 DEF Range
  <1> QED BY <1>1, <1>2, <1>3, <1>5, <1>6 DEF picked

\* Every element of two sequences in a row is in one of them.
LEMMA RowIs ==
  ASSUME NEW p, NEW q, IsSeq(p), IsSeq(q)
  PROVE  /\ IsSeq(p \o q) /\ Range(p \o q) = Range(p) \cup Range(q)
         /\ Len(p) \in Nat /\ DOMAIN p = 1..Len(p) /\ Len(q) \in Nat /\ DOMAIN q = 1..Len(q)
         /\ DOMAIN (p \o q) = 1..(Len(p) + Len(q))
         /\ \A i \in DOMAIN p : (p \o q)[i] = p[i]
         /\ \A i \in DOMAIN q : (p \o q)[Len(p) + i] = q[i]
  <1> DEFINE S == Range(p) \cup Range(q)
  <1>1. p \in Seq(S) /\ q \in Seq(S)
    <2>1. p \in [1..Len(p) -> Range(p)] /\ Len(p) \in Nat /\ q \in [1..Len(q) -> Range(q)] /\ Len(q) \in Nat
      BY DEF IsSeq
    <2> QED BY <2>1
  <1> HIDE DEF S
  <1>2. /\ Len(p) \in Nat /\ DOMAIN p = 1..Len(p) /\ Len(q) \in Nat /\ DOMAIN q = 1..Len(q)
        /\ p \o q \in Seq(S) /\ Len(p \o q) = Len(p) + Len(q)
        /\ \A i \in 1..(Len(p) + Len(q)) : (p \o q)[i] = IF i <= Len(p) THEN p[i] ELSE q[i - Len(p)]
    BY <1>1
  <1> DEFINE row == p \o q
  <1>3. DOMAIN row = 1..(Len(p) + Len(q)) /\ row \in [1..(Len(p) + Len(q)) -> S]
    <2>1. row \in Seq(S) /\ Len(row) = Len(p) + Len(q)
      BY <1>2
    <2> HIDE DEF row
    <2>2. row \in [1..Len(row) -> S]
      BY <2>1
    <2> QED BY <2>1, <2>2
  <1>4. \A i \in DOMAIN p : row[i] = p[i]
    BY <1>2
  <1>5. ASSUME NEW i \in DOMAIN q PROVE row[Len(p) + i] = q[i]
    <2>1. Len(p) + i \in 1..(Len(p) + Len(q)) /\ ~(Len(p) + i <= Len(p)) /\ Len(p) + i - Len(p) = i
      BY <1>2
    <2> QED BY <1>2, <2>1
  <1>6. \A i \in DOMAIN row : (i \in DOMAIN p /\ row[i] = p[i])
                              \/ (i - Len(p) \in DOMAIN q /\ row[i] = q[i - Len(p)])
    BY <1>2, <1>3
  <1>7. \A i \in DOMAIN p \cup {Len(p) + j : j \in DOMAIN q} : i \in DOMAIN row
    BY <1>2, <1>3
  <1> HIDE DEF row
  <1>8. Range(row) = Range(p) \cup Range(q)
    BY <1>4, <1>5, <1>6, <1>7 DEF Range
  <1>9. row \in [1..(Len(p) + Len(q)) -> Range(row)]
    BY <1>3 DEF Range
  <1>10. IsSeq(row)
    <2> DEFINE n == Len(p) + Len(q)
    <2>1. n \in Nat
      BY <1>2
    <2> HIDE DEF n
    <2>2. \A R : row \in [1..n -> R] => row \in Seq(R)
      BY <2>1
    <2> QED BY <1>9, <2>2 DEF IsSeq, n
  <1> QED BY <1>2, <1>3, <1>4, <1>5, <1>8, <1>10 DEF row

-----------------------------------------------------------------------------
(* What is in a plan *)

Staffable(s, ws) == ws.linked /\ ws.panes # <<>> /\ ~Occupied(s, ws) /\ Live(s, ws.path)
Removable(s, w)  == w.linked /\ ~Spared(s, w)
Closing(s, ws)   == ~Live(s, ws.path) /\ Closable(s, ws) = "close"

\* A sequence has the numbers up to its length for its places.
LEMMA IsRanged == ASSUME NEW x, IsSeq(x) PROVE Len(x) \in Nat /\ DOMAIN x = 1..Len(x)
  BY DEF IsSeq

\* Adopt plans adoptions.
LEMMA AdoptIs ==
  ASSUME NEW s, IsState(s)
  PROVE  IsSeq(Adopt(s)) /\ \A i \in DOMAIN Adopt(s) : Adopt(s)[i].kind = "adopt"
  <1> DEFINE made  == [i \in DOMAIN s.worktrees |->
                         ActionOn("adopt", s.worktrees[i].path, s.worktrees[i].branch, NoWS)]
             where == {i \in DOMAIN s.worktrees :
                         ~s.herdrAbsent /\ ~s.worktrees[i].bare /\ s.worktrees[i].workspace = NoWS}
  <1>1. Adopt(s) = Picked(made, where)
    BY DEF Adopt, Each
  <1>2. \A i \in where : made[i].kind = "adopt"
    BY DEF ActionOn
  <1>3. where \in SUBSET DOMAIN made /\ Len(s.worktrees) \in Nat /\ DOMAIN made = 1..Len(s.worktrees)
    BY IsRanged DEF IsState, IsSeq
  <1> HIDE DEF made, where
  <1>4. /\ IsSeq(Picked(made, where))
        /\ \A m \in DOMAIN Picked(made, where) : \E i \in where : Picked(made, where)[m] = made[i]
    BY <1>3, PickedOf
  <1> QED BY <1>1, <1>2, <1>4

\* Staff plans an agent for every pane that wants one, and for no other.
LEMMA StaffIs ==
  ASSUME NEW s, IsState(s)
  PROVE  /\ IsSeq(Staff(s)) /\ \A i \in DOMAIN Staff(s) : Staff(s)[i].kind = "staff"
         /\ \A i \in DOMAIN Staff(s) : \E ws \in Range(s.workspaces) : Staffable(s, ws)
         /\ \A ws \in Range(s.workspaces) : Staffable(s, ws) =>
              \E i \in DOMAIN Staff(s) : Staff(s)[i].pane = ws.panes[1]
  <1> DEFINE Make(ws) == [ActionOn("staff", ws.path, WorktreeAt(s, ws.path).branch, ws.id) EXCEPT
                            !.pane = ws.panes[1], !.resume = WorktreeAt(s, ws.path).transcript]
             made  == [i \in DOMAIN s.workspaces |-> Make(s.workspaces[i])]
             where == {i \in DOMAIN s.workspaces : Staffable(s, s.workspaces[i])}
  <1>1. Staff(s) = Picked(made, where)
    BY DEF Staff, Each, Staffable
  <1>2. \A i \in where : /\ made[i].kind = "staff" /\ made[i].pane = s.workspaces[i].panes[1]
                         /\ s.workspaces[i] \in Range(s.workspaces)
                         /\ Staffable(s, s.workspaces[i])
    BY DEF ActionOn, Range
  <1>3. /\ where \in SUBSET DOMAIN made /\ Len(s.workspaces) \in Nat
        /\ DOMAIN made = 1..Len(s.workspaces)
    BY IsRanged DEF IsState, IsSeq
  <1>4. \A ws \in Range(s.workspaces) : Staffable(s, ws) => \E i \in where : ws = s.workspaces[i]
    BY DEF Range
  <1> HIDE DEF made, where
  <1>5. /\ IsSeq(Picked(made, where))
        /\ \A m \in DOMAIN Picked(made, where) : \E i \in where : Picked(made, where)[m] = made[i]
        /\ \A i \in where : Rank(where, i) \in DOMAIN Picked(made, where)
                            /\ Picked(made, where)[Rank(where, i)] = made[i]
    BY <1>3, PickedOf
  <1> QED BY <1>1, <1>2, <1>4, <1>5

Judged(s, a, w) ==
  /\ a.kind = (IF Spared(s, w) THEN "keep" ELSE "prune")
  /\ a.path = w.path /\ a.workspace = w.workspace

\* Prune answers for every linked checkout, for no other, and for none twice.
LEMMA PruneIs ==
  ASSUME NEW s, IsState(s)
  PROVE  /\ IsSeq(Prune(s))
         /\ \A m \in DOMAIN Prune(s) :
              \E w \in Range(s.worktrees) : w.linked /\ Judged(s, Prune(s)[m], w)
         /\ \A w \in Range(s.worktrees) : w.linked =>
              \E m \in DOMAIN Prune(s) : Judged(s, Prune(s)[m], w)
         /\ \A m, k \in DOMAIN Prune(s) : Prune(s)[m].path = Prune(s)[k].path => m = k
  <1> DEFINE Make(w) == IF Spared(s, w)
                        THEN ActionOn("keep", w.path, w.branch, w.workspace)
                        ELSE [ActionOn("prune", w.path, w.branch, w.workspace) EXCEPT
                                !.releases = Occupied(s, WorkspaceAt(s, w.path))]
             made  == [i \in DOMAIN s.worktrees |-> Make(s.worktrees[i])]
             where == {i \in DOMAIN s.worktrees : s.worktrees[i].linked}
  <1>1. Prune(s) = Picked(made, where)
    BY DEF Prune, Each
  <1>2. \A i \in where : /\ Judged(s, made[i], s.worktrees[i]) /\ s.worktrees[i].linked
                         /\ s.worktrees[i] \in Range(s.worktrees)
    BY DEF ActionOn, Range, Judged
  <1>3. /\ where \in SUBSET DOMAIN made /\ Len(s.worktrees) \in Nat
        /\ DOMAIN made = 1..Len(s.worktrees)
    BY IsRanged DEF IsState, IsSeq
  <1>4. \A w \in Range(s.worktrees) : w.linked => \E i \in where : w = s.worktrees[i]
    BY DEF Range
  <1>5. \A i, j \in where : made[i].path = made[j].path => i = j
    <2>1. \A i, j \in DOMAIN s.worktrees : s.worktrees[i].path = s.worktrees[j].path => i = j
      BY DEF IsState
    <2>2. \A i \in where : i \in DOMAIN s.worktrees /\ made[i].path = s.worktrees[i].path
      BY <1>2 DEF Judged
    <2> HIDE DEF made, where
    <2> QED BY <2>1, <2>2
  <1> HIDE DEF made, where
  <1>6. /\ IsSeq(Picked(made, where))
        /\ \A m \in DOMAIN Picked(made, where) :
             \E i \in where : Rank(where, i) = m /\ Picked(made, where)[m] = made[i]
        /\ \A i \in where : Rank(where, i) \in DOMAIN Picked(made, where)
                            /\ Picked(made, where)[Rank(where, i)] = made[i]
    BY <1>3, PickedOf
  <1>7. \A m, k \in DOMAIN Picked(made, where) :
          Picked(made, where)[m].path = Picked(made, where)[k].path => m = k
    BY <1>5, <1>6
  <1> QED BY <1>1, <1>2, <1>4, <1>6, <1>7

Answered(s, a, ws) ==
  /\ a.kind = (IF Closable(s, ws) = "close" THEN "close-ghost" ELSE "ghost")
  /\ a.path = ws.path /\ a.workspace = ws.id

\* Ghosts answers for every workspace that outlived its checkout, for no other, and for
\* none twice.
LEMMA GhostsAre ==
  ASSUME NEW s, IsState(s)
  PROVE  /\ IsSeq(Ghosts(s))
         /\ \A m \in DOMAIN Ghosts(s) :
              \E ws \in Range(s.workspaces) : ~Live(s, ws.path) /\ Answered(s, Ghosts(s)[m], ws)
         /\ \A ws \in Range(s.workspaces) : ~Live(s, ws.path) =>
              \E m \in DOMAIN Ghosts(s) : Answered(s, Ghosts(s)[m], ws)
         /\ \A m, k \in DOMAIN Ghosts(s) : Ghosts(s)[m].workspace = Ghosts(s)[k].workspace => m = k
  <1> DEFINE Worker(ws) == CHOOSE p \in Reporting(s, ws) : TRUE
             Make(ws) == IF Closable(s, ws) # "close"
                         THEN ActionOn("ghost", ws.path, NoBranch, ws.id)
                         ELSE [ActionOn("close-ghost", ws.path, s.reports[Worker(ws)].prHead, ws.id) EXCEPT
                                 !.pane = Worker(ws), !.pr = s.reports[Worker(ws)].pr,
                                 !.releases = Occupied(s, ws)]
             made  == [i \in DOMAIN s.workspaces |-> Make(s.workspaces[i])]
             where == {i \in DOMAIN s.workspaces : ~Live(s, s.workspaces[i].path)}
  <1>1. Ghosts(s) = Picked(made, where)
    BY DEF Ghosts, Each
  <1>2. \A i \in where : /\ Answered(s, made[i], s.workspaces[i]) /\ ~Live(s, s.workspaces[i].path)
                         /\ s.workspaces[i] \in Range(s.workspaces)
    BY DEF ActionOn, Range, Answered
  <1>3. /\ where \in SUBSET DOMAIN made /\ Len(s.workspaces) \in Nat
        /\ DOMAIN made = 1..Len(s.workspaces)
    BY IsRanged DEF IsState, IsSeq
  <1>4. \A ws \in Range(s.workspaces) : ~Live(s, ws.path) => \E i \in where : ws = s.workspaces[i]
    BY DEF Range
  <1>5. \A i, j \in where : made[i].workspace = made[j].workspace => i = j
    <2>1. \A i, j \in DOMAIN s.workspaces : s.workspaces[i].id = s.workspaces[j].id => i = j
      BY DEF IsState
    <2>2. \A i \in where : i \in DOMAIN s.workspaces /\ made[i].workspace = s.workspaces[i].id
      BY <1>2 DEF Answered
    <2> HIDE DEF made, where
    <2> QED BY <2>1, <2>2
  <1> HIDE DEF made, where
  <1>6. /\ IsSeq(Picked(made, where))
        /\ \A m \in DOMAIN Picked(made, where) :
             \E i \in where : Rank(where, i) = m /\ Picked(made, where)[m] = made[i]
        /\ \A i \in where : Rank(where, i) \in DOMAIN Picked(made, where)
                            /\ Picked(made, where)[Rank(where, i)] = made[i]
    BY <1>3, PickedOf
  <1>7. \A m, k \in DOMAIN Picked(made, where) :
          Picked(made, where)[m].workspace = Picked(made, where)[k].workspace => m = k
    BY <1>5, <1>6
  <1> QED BY <1>1, <1>2, <1>4, <1>6, <1>7

\* A plan is the row of its four parts.
LEMMA PlanIs ==
  ASSUME NEW s, IsState(s)
  PROVE  /\ IsSeq(ReconcileState(s))
         /\ Range(ReconcileState(s)) =
              Range(Adopt(s)) \cup Range(Staff(s)) \cup Range(Prune(s)) \cup Range(Ghosts(s))
  <1>1. IsSeq(Adopt(s)) /\ IsSeq(Staff(s)) /\ IsSeq(Prune(s)) /\ IsSeq(Ghosts(s))
    BY AdoptIs, StaffIs, PruneIs, GhostsAre
  <1>2. IsSeq(Adopt(s) \o Staff(s)) /\ Range(Adopt(s) \o Staff(s)) = Range(Adopt(s)) \cup Range(Staff(s))
    BY <1>1, RowIs
  <1>3. /\ IsSeq(Adopt(s) \o Staff(s) \o Prune(s))
        /\ Range(Adopt(s) \o Staff(s) \o Prune(s)) =
             Range(Adopt(s)) \cup Range(Staff(s)) \cup Range(Prune(s))
    BY <1>1, <1>2, RowIs
  <1>4. /\ IsSeq(Adopt(s) \o Staff(s) \o Prune(s) \o Ghosts(s))
        /\ Range(Adopt(s) \o Staff(s) \o Prune(s) \o Ghosts(s)) =
             Range(Adopt(s)) \cup Range(Staff(s)) \cup Range(Prune(s)) \cup Range(Ghosts(s))
    BY <1>1, <1>3, RowIs
  <1> QED BY <1>4 DEF ReconcileState

\* A plan removes the checkouts nothing speaks for and closes the ghosts it may close.
LEMMA RemovalsAre ==
  ASSUME NEW s, IsState(s), NEW x
  PROVE  x \in Removals(s) <=>
           \/ \E w \in Range(s.worktrees) :
                Removable(s, w) /\ x = <<"prune", w.path, w.workspace>>
           \/ \E ws \in Range(s.workspaces) :
                Closing(s, ws) /\ x = <<"close-ghost", ws.path, ws.id>>
  <1> DEFINE Out(a) == a.kind \in {"prune", "close-ghost"} /\ x = <<a.kind, a.path, a.workspace>>
  <1>1. x \in Removals(s) <=> \E a \in Range(ReconcileState(s)) : Out(a)
    BY DEF Removals
  <1>2. \A a \in Range(Adopt(s)) \cup Range(Staff(s)) : ~Out(a)
    BY AdoptIs, StaffIs DEF Range
  <1>3. (\E a \in Range(Prune(s)) : Out(a)) <=>
          \E w \in Range(s.worktrees) : Removable(s, w) /\ x = <<"prune", w.path, w.workspace>>
    <2>1. ASSUME NEW m \in DOMAIN Prune(s), Out(Prune(s)[m])
          PROVE  \E w \in Range(s.worktrees) : Removable(s, w) /\ x = <<"prune", w.path, w.workspace>>
      BY <2>1, PruneIs DEF Judged, Removable
    <2>2. ASSUME NEW w \in Range(s.worktrees), Removable(s, w), x = <<"prune", w.path, w.workspace>>
          PROVE  \E m \in DOMAIN Prune(s) : Out(Prune(s)[m])
      BY <2>2, PruneIs DEF Judged, Removable
    <2> QED BY <2>1, <2>2 DEF Range
  <1>4. (\E a \in Range(Ghosts(s)) : Out(a)) <=>
          \E ws \in Range(s.workspaces) : Closing(s, ws) /\ x = <<"close-ghost", ws.path, ws.id>>
    <2>1. ASSUME NEW m \in DOMAIN Ghosts(s), Out(Ghosts(s)[m])
          PROVE  \E ws \in Range(s.workspaces) : Closing(s, ws) /\ x = <<"close-ghost", ws.path, ws.id>>
      BY <2>1, GhostsAre DEF Answered, Closing
    <2>2. ASSUME NEW ws \in Range(s.workspaces), Closing(s, ws), x = <<"close-ghost", ws.path, ws.id>>
          PROVE  \E m \in DOMAIN Ghosts(s) : Out(Ghosts(s)[m])
      BY <2>2, GhostsAre DEF Answered, Closing
    <2> QED BY <2>1, <2>2 DEF Range
  <1> HIDE DEF Out
  <1> QED BY <1>1, <1>2, <1>3, <1>4, PlanIs

\* What one of three sequences has once, and the others lack, their row has once.
HasOnce(s, T) == \E k \in DOMAIN s : \A i \in DOMAIN s : s[i] \in T <=> i = k
HasNone(s, T) == \A i \in DOMAIN s : s[i] \notin T

LEMMA RowOnce ==
  ASSUME NEW p, NEW q, NEW r, NEW T, IsSeq(p), IsSeq(q), IsSeq(r),
         HasNone(p, T), HasOnce(q, T), HasNone(r, T)
  PROVE  HasOnce(p \o q \o r, T)
  <1>0. PICK m \in DOMAIN q : \A i \in DOMAIN q : q[i] \in T <=> i = m
    BY DEF HasOnce
  <1>1. /\ IsSeq(p \o q) /\ Len(p) \in Nat /\ DOMAIN p = 1..Len(p) /\ Len(q) \in Nat /\ DOMAIN q = 1..Len(q)
        /\ DOMAIN (p \o q) = 1..(Len(p) + Len(q))
        /\ \A i \in DOMAIN p : (p \o q)[i] = p[i]
        /\ \A i \in DOMAIN q : (p \o q)[Len(p) + i] = q[i]
    BY RowIs
  <1> DEFINE pq == p \o q
  <1>2. /\ Len(pq) \in Nat /\ DOMAIN pq = 1..Len(pq) /\ Len(r) \in Nat /\ DOMAIN r = 1..Len(r)
        /\ DOMAIN (pq \o r) = 1..(Len(pq) + Len(r))
        /\ \A i \in DOMAIN pq : (pq \o r)[i] = pq[i]
        /\ \A i \in DOMAIN r : (pq \o r)[Len(pq) + i] = r[i]
    BY <1>1, RowIs
  <1>3. Len(p) + m \in DOMAIN pq /\ pq[Len(p) + m] \in T
    BY <1>0, <1>1
  <1>4. ASSUME NEW i \in DOMAIN pq, pq[i] \in T PROVE i = Len(p) + m
    <2>1. CASE i \in DOMAIN p
      BY <1>1, <1>4, <2>1 DEF HasNone
    <2>2. CASE i \notin DOMAIN p
      <3>1. i - Len(p) \in DOMAIN q /\ Len(p) + (i - Len(p)) = i
        BY <1>1, <2>2
      <3>2. q[i - Len(p)] \in T
        BY <1>1, <1>4, <3>1
      <3> QED BY <1>0, <1>1, <3>1, <3>2
    <2> QED BY <2>1, <2>2
  <1> DEFINE row == pq \o r
  <1> HIDE DEF pq
  <1>5. Len(p) + m \in DOMAIN row /\ row[Len(p) + m] \in T
    BY <1>2, <1>3
  <1>6. ASSUME NEW i \in DOMAIN row, row[i] \in T PROVE i = Len(p) + m
    <2>1. CASE i \in DOMAIN pq
      BY <1>2, <1>4, <1>6, <2>1
    <2>2. CASE i \notin DOMAIN pq
      <3>1. i - Len(pq) \in DOMAIN r /\ Len(pq) + (i - Len(pq)) = i
        BY <1>2, <2>2
      <3>2. r[i - Len(pq)] \in T
        BY <1>2, <1>6, <3>1
      <3> QED BY <3>1, <3>2 DEF HasNone
    <2> QED BY <2>1, <2>2
  <1> HIDE DEF row
  <1> QED BY <1>5, <1>6 DEF row, pq, HasOnce

\* Every plan is whole.
LEMMA AllAnswered ==
  ASSUME IsState(state)
  PROVE  EverythingAnswered
  <1> DEFINE p    == Adopt(state) \o Staff(state)
             plan == ReconcileState(state)
             Kept(path) == {a \in Range(plan) : a.kind \in {"keep", "prune"} /\ a.path = path}
             Named(id)  == {a \in Range(plan) : a.kind \in {"ghost", "close-ghost"} /\ a.workspace = id}
  <1>1. /\ IsSeq(Adopt(state)) /\ IsSeq(Staff(state)) /\ IsSeq(Prune(state)) /\ IsSeq(Ghosts(state))
        /\ IsSeq(p) /\ Range(p) = Range(Adopt(state)) \cup Range(Staff(state))
        /\ IsSeq(p \o Prune(state))
    BY AdoptIs, StaffIs, PruneIs, GhostsAre, RowIs
  <1>2. /\ \A i \in DOMAIN p : p[i].kind \in {"adopt", "staff"}
        /\ \A i \in DOMAIN Prune(state) : Prune(state)[i].kind \in {"keep", "prune"}
        /\ \A i \in DOMAIN Ghosts(state) : Ghosts(state)[i].kind \in {"ghost", "close-ghost"}
    <2>1. \A i \in DOMAIN p : p[i] \in Range(p)
      BY DEF Range
    <2>2. \A a \in Range(p) : a.kind \in {"adopt", "staff"}
      BY <1>1, AdoptIs, StaffIs DEF Range
    <2>3. \A i \in DOMAIN Prune(state) : Prune(state)[i].kind \in {"keep", "prune"}
      BY PruneIs DEF Judged
    <2>4. \A i \in DOMAIN Ghosts(state) : Ghosts(state)[i].kind \in {"ghost", "close-ghost"}
      BY GhostsAre DEF Answered
    <2> QED BY <2>1, <2>2, <2>3, <2>4
  <1>3. /\ \A i \in DOMAIN Prune(state) : Prune(state)[i] \in Range(plan)
        /\ \A i \in DOMAIN Ghosts(state) : Ghosts(state)[i] \in Range(plan)
    BY PlanIs DEF Range
  <1>4. plan = p \o Prune(state) \o Ghosts(state)
    BY DEF ReconcileState
  <1> HIDE DEF p, plan
  <1>5. ASSUME NEW w \in Range(state.worktrees), w.linked PROVE HasOnce(plan, Kept(w.path))
    <2>1. PICK m \in DOMAIN Prune(state) : Prune(state)[m].path = w.path
      BY <1>5, PruneIs DEF Judged
    <2>2. HasOnce(Prune(state), Kept(w.path))
      <3>1. \A i \in DOMAIN Prune(state) : Prune(state)[i] \in Kept(w.path) <=> i = m
        BY <1>2, <1>3, <2>1, PruneIs
      <3> HIDE DEF Kept
      <3> QED BY <3>1 DEF HasOnce
    <2>3. HasNone(p, Kept(w.path)) /\ HasNone(Ghosts(state), Kept(w.path))
      BY <1>2 DEF HasNone
    <2> HIDE DEF Kept
    <2> QED BY <1>1, <1>4, <2>2, <2>3, RowOnce
  <1>6. ASSUME NEW ws \in Range(state.workspaces), ~Live(state, ws.path) PROVE HasOnce(plan, Named(ws.id))
    <2> DEFINE q == p \o Prune(state)
    <2>1. PICK m \in DOMAIN Ghosts(state) : Ghosts(state)[m].workspace = ws.id
      BY <1>6, GhostsAre DEF Answered
    <2>2. HasOnce(Ghosts(state), Named(ws.id))
      <3>1. \A i \in DOMAIN Ghosts(state) : Ghosts(state)[i] \in Named(ws.id) <=> i = m
        BY <1>2, <1>3, <2>1, GhostsAre
      <3> HIDE DEF Named
      <3> QED BY <3>1 DEF HasOnce
    <2>3. IsSeq(q) /\ HasNone(q, Named(ws.id))
      <3>1. \A i \in DOMAIN q : q[i] \in Range(p) \cup Range(Prune(state))
        BY <1>1, RowIs DEF Range
      <3>2. \A a \in Range(p) \cup Range(Prune(state)) : a \notin Named(ws.id)
        BY <1>2 DEF Range
      <3> QED BY <1>1, <3>1, <3>2 DEF HasNone
    <2>4. IsSeq(<< >>) /\ HasNone(<< >>, Named(ws.id))
      BY DEF IsSeq, Range, HasNone
    <2>5. plan = q \o Ghosts(state) \o << >>
      <3>1. plan \in Seq(Range(plan))
        BY PlanIs DEF plan, IsSeq
      <3>2. plan \o << >> = plan
        BY <3>1
      <3> QED BY <1>4, <3>2
    <2> HIDE DEF Named, q
    <2>6. HasOnce(q \o Ghosts(state) \o << >>, Named(ws.id))
      BY <1>1, <2>2, <2>3, <2>4, RowOnce
    <2> QED BY <2>5, <2>6
  <1>7. \A w \in Range(state.worktrees) : w.linked =>
          \E k \in {i \in DOMAIN plan : plan[i].kind \in {"keep", "prune"} /\ plan[i].path = w.path} :
             {i \in DOMAIN plan : plan[i].kind \in {"keep", "prune"} /\ plan[i].path = w.path} = {k}
    BY <1>5 DEF Range, HasOnce
  <1>8. \A ws \in Range(state.workspaces) : ~Live(state, ws.path) =>
          \E k \in {i \in DOMAIN plan : plan[i].kind \in {"ghost", "close-ghost"}
                                         /\ plan[i].workspace = ws.id} :
             {i \in DOMAIN plan : plan[i].kind \in {"ghost", "close-ghost"}
                                   /\ plan[i].workspace = ws.id} = {k}
    BY <1>6 DEF Range, HasOnce
  <1> QED BY <1>7, <1>8 DEF EverythingAnswered, plan

-----------------------------------------------------------------------------
(* A fact that speaks for keeping *)

\* Two States with the same checkouts and workspaces, in the second of which more is
\* spared and less may be closed.
LEMMA LessRemoved ==
  ASSUME NEW s, NEW t, IsState(s), IsState(t),
         Len(t.worktrees) = Len(s.worktrees), t.workspaces = s.workspaces,
         \A i \in DOMAIN s.worktrees :
           /\ t.worktrees[i].path = s.worktrees[i].path
           /\ t.worktrees[i].workspace = s.worktrees[i].workspace
           /\ Removable(t, t.worktrees[i]) => Removable(s, s.worktrees[i]),
         \A ws \in Range(s.workspaces) : Closable(t, ws) = "close" => Closable(s, ws) = "close"
  PROVE  Removals(t) \subseteq Removals(s)
  <1>1. DOMAIN t.worktrees = DOMAIN s.worktrees
    BY DEF IsState
  <1>2. \A path : Live(t, path) <=> Live(s, path)
    BY <1>1 DEF Live, Range
  <1>3. \A w \in Range(t.worktrees) : Removable(t, w) =>
          \E v \in Range(s.worktrees) :
            Removable(s, v) /\ v.path = w.path /\ v.workspace = w.workspace
    BY <1>1 DEF Range
  <1>4. \A ws \in Range(t.workspaces) : Closing(t, ws) => Closing(s, ws)
    BY <1>2 DEF Closing
  <1> SUFFICES ASSUME NEW x \in Removals(t) PROVE x \in Removals(s)
    OBVIOUS
  <1>5. CASE \E w \in Range(t.worktrees) : Removable(t, w) /\ x = <<"prune", w.path, w.workspace>>
    BY <1>3, <1>5, RemovalsAre
  <1>6. CASE \E ws \in Range(t.workspaces) : Closing(t, ws) /\ x = <<"close-ghost", ws.path, ws.id>>
    BY <1>4, <1>6, RemovalsAre
  <1> QED BY <1>5, <1>6, RemovalsAre

\* An agent found at work spares checkouts and holds none back.
LEMMA AtWorkKeeps ==
  ASSUME NEW s, IsState(s), NEW p, NEW status \in {"working", "blocked", "unheardOf"}, NEW more,
         DOMAIN more = DOMAIN s.agents \cup {p}, more[p] = status,
         \A q \in DOMAIN s.agents : q # p => more[q] = s.agents[q],
         NEW t, t = [s EXCEPT !.agents = more]
  PROVE  IsState(t) /\ Removals(t) \subseteq Removals(s)
  <1>1. /\ DOMAIN t = DOMAIN s /\ t.agents = more /\ t.worktrees = s.worktrees
        /\ t.workspaces = s.workspaces /\ t.reports = s.reports /\ t.release = s.release
    BY DEF IsState
  <1>2. IsState(t)
    BY <1>1 DEF IsState
  <1>3. ASSUME NEW ws, p \in Range(ws.panes) PROVE AgentBusy(t, ws) /\ Occupied(t, ws)
    <2>1. p \in DOMAIN t.agents /\ t.agents[p] = status
      BY <1>1, <1>3
    <2>2. status \in Occupants(t, ws)
      BY <1>3, <2>1 DEF Occupants
    <2>3. ~Finished(status)
      BY DEF Finished
    <2> QED BY <2>2, <2>3 DEF AgentBusy, Occupied
  <1>4. \A ws : p \notin Range(ws.panes) => Occupants(t, ws) = Occupants(s, ws)
    BY <1>1 DEF Occupants
  <1>5. \A ws : /\ AgentBusy(s, ws) => AgentBusy(t, ws)
                /\ Occupied(s, ws) => Occupied(t, ws)
    BY <1>3, <1>4 DEF AgentBusy, Occupied
  <1>6. \A path : WorkspaceAt(t, path) = WorkspaceAt(s, path)
    BY <1>1 DEF WorkspaceAt
  <1>7. \A w : Removable(t, w) => Removable(s, w)
    BY <1>1, <1>5, <1>6 DEF Removable, Spared
  <1>8. ASSUME NEW ws \in Range(s.workspaces), Closable(t, ws) = "close" PROVE Closable(s, ws) = "close"
    <2>1. ~AgentBusy(t, ws)
      BY <1>8 DEF Closable
    <2>2. p \notin Range(ws.panes)
      BY <1>3, <2>1
    <2>3. Occupants(t, ws) = Occupants(s, ws) /\ Reporting(t, ws) = Reporting(s, ws)
      BY <1>1, <1>4, <2>2 DEF Reporting
    <2>4. \A q \in Range(ws.panes) : q \in DOMAIN t.agents <=> q \in DOMAIN s.agents
      BY <1>1, <2>2
    <2> QED BY <1>1, <1>8, <2>3, <2>4 DEF Closable, AgentBusy, Occupied
  <1> QED BY <1>1, <1>2, <1>7, <1>8, LessRemoved

\* So does a report of progress, or one that could not be read.
LEMMA ReportKeeps ==
  ASSUME NEW s, IsState(s), NEW p \in DOMAIN s.reports, NEW field \in {"status", "unreadable"}, NEW t,
         t = [s EXCEPT !.reports[p] =
                IF field = "status" THEN [@ EXCEPT !.status = "progress", !.found = TRUE]
                                    ELSE [@ EXCEPT !.unreadable = TRUE]]
  PROVE  IsState(t) /\ Removals(t) \subseteq Removals(s)
  <1> DEFINE r == s.reports[p]
             new == IF field = "status" THEN [r EXCEPT !.status = "progress", !.found = TRUE]
                                        ELSE [r EXCEPT !.unreadable = TRUE]
             all == [s.reports EXCEPT ![p] = new]
  <1>1. /\ DOMAIN t = DOMAIN s /\ t.reports = all /\ t.worktrees = s.worktrees
        /\ t.workspaces = s.workspaces /\ t.agents = s.agents /\ t.release = s.release
    BY DEF IsState
  <1>2. /\ DOMAIN new = DOMAIN r
        /\ field = "status" => new.status = "progress" /\ new.found
        /\ field = "unreadable" => new.unreadable
    BY DEF IsState
  <1> HIDE DEF new
  <1>3. /\ DOMAIN all = DOMAIN s.reports /\ all[p] = new
        /\ \A q \in DOMAIN s.reports : q # p => all[q] = s.reports[q]
    OBVIOUS
  <1> HIDE DEF all
  <1>4. IsState(t)
    <2>1. \A q \in DOMAIN t.reports : DOMAIN t.reports[q] = DOMAIN s.reports[q]
      BY <1>1, <1>2, <1>3
    <2> QED BY <1>1, <1>3, <2>1 DEF IsState
  <1>5. \A ws : Occupants(t, ws) = Occupants(s, ws)
    BY <1>1 DEF Occupants
  <1>6. \A path : WorkspaceAt(t, path) = WorkspaceAt(s, path)
    BY <1>1 DEF WorkspaceAt
  <1>7. \A w : Removable(t, w) => Removable(s, w)
    BY <1>1, <1>5, <1>6 DEF Removable, Spared, AgentBusy, Occupied
  <1>8. ASSUME NEW ws \in Range(s.workspaces), Closable(t, ws) = "close" PROVE Closable(s, ws) = "close"
    <2>1. /\ \A q \in Range(ws.panes) : ~t.reports[q].unreadable
          /\ \A q \in Reporting(t, ws) : MergedFinish(t.reports[q], ws)
      BY <1>8 DEF Closable
    <2>2. p \notin Range(ws.panes)
      <3>1. CASE field = "status"
        BY <1>1, <1>2, <1>3, <2>1, <3>1 DEF Reporting, MergedFinish
      <3>2. CASE field = "unreadable"
        BY <1>1, <1>2, <1>3, <2>1, <3>2
      <3> QED BY <3>1, <3>2
    <2>3. /\ \A q \in Range(ws.panes) : q \in DOMAIN t.reports <=> q \in DOMAIN s.reports
          /\ \A q \in Range(ws.panes) \cap DOMAIN s.reports : t.reports[q] = s.reports[q]
      BY <1>1, <1>3, <2>2
    <2>4. Reporting(t, ws) = Reporting(s, ws) /\ Reporting(s, ws) \subseteq Range(ws.panes) \cap DOMAIN s.reports
      BY <2>3 DEF Reporting
    <2> QED BY <1>1, <1>5, <1>8, <2>3, <2>4 DEF Closable, AgentBusy, Occupied
  <1> QED BY <1>1, <1>4, <1>7, <1>8, LessRemoved

\* So does a fact about a checkout that makes it dirtier or less landed.
LEMMA FactKeeps ==
  ASSUME NEW s, IsState(s), NEW i \in DOMAIN s.worktrees, NEW t, NEW w,
         t = [s EXCEPT !.worktrees = [s.worktrees EXCEPT ![i] = w]],
         DOMAIN w = DOMAIN s.worktrees[i], w.path = s.worktrees[i].path,
         w.workspace = s.worktrees[i].workspace, w.linked => s.worktrees[i].linked,
         s.worktrees[i].dirty => w.dirty, Landed(w) => Landed(s.worktrees[i])
  PROVE  IsState(t) /\ Removals(t) \subseteq Removals(s)
  <1> DEFINE all == [s.worktrees EXCEPT ![i] = w]
  <1>1. /\ DOMAIN t = DOMAIN s /\ t.worktrees = all /\ t.workspaces = s.workspaces
        /\ t.reports = s.reports /\ t.agents = s.agents /\ t.release = s.release
    BY DEF IsState
  <1>2. /\ DOMAIN all = DOMAIN s.worktrees /\ all[i] = w
        /\ \A j \in DOMAIN s.worktrees : j # i => all[j] = s.worktrees[j]
    OBVIOUS
  <1>3. Len(s.worktrees) \in Nat /\ DOMAIN s.worktrees = 1..Len(s.worktrees)
    BY IsRanged DEF IsState, IsSeq
  <1>4. all \in [1..Len(s.worktrees) -> Range(all)]
    BY <1>3 DEF Range
  <1> HIDE DEF all
  <1>5. all \in Seq(Range(all)) /\ Len(all) = Len(s.worktrees)
    BY <1>3, <1>4
  <1>6. \A j \in DOMAIN s.worktrees : /\ DOMAIN all[j] = DOMAIN s.worktrees[j]
                                      /\ all[j].path = s.worktrees[j].path
                                      /\ all[j].workspace = s.worktrees[j].workspace
    BY <1>2
  <1>7. IsState(t)
    <2>1. \A v \in Range(all) : \E u \in Range(s.worktrees) : v.path = u.path /\ v.workspace = u.workspace
      BY <1>2, <1>6 DEF Range
    <2>2. \A j, k \in DOMAIN all : all[j].path = all[k].path => j = k
      BY <1>2, <1>6 DEF IsState
    <2>3. \A j \in DOMAIN all : {"path", "workspace", "dirty", "merged", "pr"} \subseteq DOMAIN all[j]
      BY <1>2, <1>6 DEF IsState
    <2>4. \A ws \in Range(s.workspaces) : \A v \in Range(all) : v.workspace = ws.id => v.path = ws.path
      BY <2>1 DEF IsState
    <2>5. /\ DOMAIN t = {"worktrees", "workspaces", "agents", "reports", "herdrAbsent", "release"}
          /\ t.worktrees \in Seq(Range(t.worktrees)) /\ t.workspaces \in Seq(Range(t.workspaces))
      BY <1>1, <1>5 DEF IsState
    <2>6. /\ \A j, k \in DOMAIN t.workspaces : t.workspaces[j].id = t.workspaces[k].id => j = k
          /\ \A p \in DOMAIN t.reports : {"found", "status", "unreadable"} \subseteq DOMAIN t.reports[p]
      BY <1>1 DEF IsState
    <2>7. \A ws \in Range(t.workspaces) :
            /\ ws.id # NoWS /\ ws.panes \in Seq(Range(ws.panes))
            /\ \A v \in Range(t.worktrees) : v.workspace = ws.id => v.path = ws.path
      BY <1>1, <2>4 DEF IsState
    <2>8. /\ \A j, k \in DOMAIN t.worktrees : t.worktrees[j].path = t.worktrees[k].path => j = k
          /\ \A j \in DOMAIN t.worktrees :
               {"path", "workspace", "dirty", "merged", "pr"} \subseteq DOMAIN t.worktrees[j]
      BY <1>1, <2>2, <2>3
    <2> QED BY <2>5, <2>6, <2>7, <2>8, Zenon DEF IsState
  <1>8. \A ws : Occupants(t, ws) = Occupants(s, ws) /\ Reporting(t, ws) = Reporting(s, ws)
    BY <1>1 DEF Occupants, Reporting
  <1>9. \A path : WorkspaceAt(t, path) = WorkspaceAt(s, path)
    BY <1>1 DEF WorkspaceAt
  <1>10. ASSUME NEW j \in DOMAIN s.worktrees PROVE Removable(t, all[j]) => Removable(s, s.worktrees[j])
    <2>1. \A v : Removable(t, v) => Removable(s, v)
      BY <1>1, <1>8, <1>9 DEF Removable, Spared, AgentBusy, Occupied
    <2>2. CASE j = i
      <3>1. WorkspaceAt(s, w.path) = WorkspaceAt(s, s.worktrees[i].path)
        OBVIOUS
      <3>2. Removable(s, w) => Removable(s, s.worktrees[i])
        BY <3>1 DEF Removable, Spared
      <3> QED BY <1>2, <2>1, <2>2, <3>2
    <2>3. CASE j # i
      BY <1>2, <2>1, <2>3
    <2> QED BY <2>2, <2>3
  <1>11. \A ws : Closable(t, ws) = Closable(s, ws)
    BY <1>1, <1>8 DEF Closable, AgentBusy, Occupied
  <1> QED BY <1>1, <1>5, <1>6, <1>7, <1>10, <1>11, LessRemoved

\* So does every fact that speaks for keeping.
LEMMA DoubtKeeps ==
  ASSUME IsState(state), Doubt
  PROVE  IsState(state') /\ Removals(state') \subseteq Removals(state)
  <1>1. ASSUME NEW p, AgentAtWork(p)
        PROVE  IsState(state') /\ Removals(state') \subseteq Removals(state)
    <2>1. PICK status \in {"working", "blocked", "unheardOf"} :
            state' = [state EXCEPT !.agents = [q \in DOMAIN state.agents \cup {p} |->
                                                 IF q = p THEN status ELSE state.agents[q]]]
      BY <1>1 DEF AgentAtWork
    <2> DEFINE more == [q \in DOMAIN state.agents \cup {p} |-> IF q = p THEN status ELSE state.agents[q]]
    <2>2. /\ DOMAIN more = DOMAIN state.agents \cup {p} /\ more[p] = status
          /\ \A q \in DOMAIN state.agents : q # p => more[q] = state.agents[q]
      OBVIOUS
    <2>3. state' = [state EXCEPT !.agents = more]
      BY <2>1
    <2> HIDE DEF more
    <2> QED BY <2>2, <2>3, AtWorkKeeps
  <1>2. ASSUME NEW p, ReportsAgain(p)
        PROVE  IsState(state') /\ Removals(state') \subseteq Removals(state)
    BY <1>2, ReportKeeps DEF ReportsAgain
  <1>3. ASSUME NEW i \in DOMAIN state.worktrees,
               WorkAppears(i) \/ CommitsAppear(i) \/ Reopened(i)
        PROVE  IsState(state') /\ Removals(state') \subseteq Removals(state)
    <2> DEFINE old == state.worktrees[i]
    <2>0. {"path", "workspace", "dirty", "merged", "pr"} \subseteq DOMAIN old
      BY DEF IsState
    <2>1. CASE WorkAppears(i)
      <3> DEFINE w == [old EXCEPT !.dirty = TRUE]
      <3>1. state' = [state EXCEPT !.worktrees = [state.worktrees EXCEPT ![i] = w]]
        BY <2>1 DEF WorkAppears
      <3>2. /\ DOMAIN w = DOMAIN old /\ w.path = old.path /\ w.workspace = old.workspace
            /\ w.linked = old.linked /\ w.dirty /\ w.pr = old.pr /\ w.merged = old.merged /\ w.gone = old.gone
        BY <2>0
      <3> HIDE DEF w
      <3>3. Landed(w) => Landed(old)
        BY <3>2 DEF Landed
      <3> QED BY <3>1, <3>2, <3>3, FactKeeps
    <2>2. CASE CommitsAppear(i)
      <3> DEFINE w == [old EXCEPT !.merged = FALSE]
      <3>1. state' = [state EXCEPT !.worktrees = [state.worktrees EXCEPT ![i] = w]] /\ old.pr = ""
        BY <2>2 DEF CommitsAppear
      <3>2. /\ DOMAIN w = DOMAIN old /\ w.path = old.path /\ w.workspace = old.workspace
            /\ w.linked = old.linked /\ w.dirty = old.dirty /\ w.pr = old.pr /\ ~w.merged
        BY <2>0
      <3> HIDE DEF w
      <3>3. Landed(w) => Landed(old)
        BY <3>1, <3>2 DEF Landed
      <3> QED BY <3>1, <3>2, <3>3, FactKeeps
    <2>3. CASE Reopened(i)
      <3>0. PICK answer \in {"OPEN", "CLOSED"} :
              state' = [state EXCEPT !.worktrees[i].pr = answer]
        BY <2>3 DEF Reopened
      <3> DEFINE w == [old EXCEPT !.pr = answer]
      <3>1. state' = [state EXCEPT !.worktrees = [state.worktrees EXCEPT ![i] = w]]
        BY <3>0
      <3>2. /\ DOMAIN w = DOMAIN old /\ w.path = old.path /\ w.workspace = old.workspace
            /\ w.linked = old.linked /\ w.dirty = old.dirty /\ w.pr = answer
        BY <2>0
      <3> HIDE DEF w
      <3>3. ~Landed(w)
        BY <3>2 DEF Landed
      <3> QED BY <3>1, <3>2, <3>3, FactKeeps
    <2> QED BY <1>3, <2>1, <2>2, <2>3
  <1> QED BY <1>1, <1>2, <1>3 DEF Doubt

-----------------------------------------------------------------------------
(* The plan carried out *)

\* The last of some places in a list.
LEMMA LatestIs ==
  ASSUME NEW n \in Nat, NEW where \in SUBSET (1..n), where # {}
  PROVE  Latest(where) \in where /\ \A j \in where : j <= Latest(where)
  <1> DEFINE Less == OpToRel(<, Nat)
             rest == {n - i : i \in where}
  <1>1. IsWellFoundedOn(Less, Nat)
    BY NatLessThanWellFounded
  <1>2. rest \subseteq Nat /\ rest # {}
    <2>1. \A i \in where : i \in 1..n /\ n - i \in Nat
      OBVIOUS
    <2> QED BY <2>1
  <1>3. \A x, y \in Nat : x < y => <<x, y>> \in Less
    BY DEF OpToRel
  <1> HIDE DEF Less, rest
  <1>4. PICK x \in rest : \A y \in rest : ~(<<y, x>> \in Less)
    BY <1>1, <1>2, WFMin
  <1>5. \A y \in rest : x <= y
    <2>1. ASSUME NEW y \in rest PROVE x <= y
      <3>1. x \in Nat /\ y \in Nat
        BY <1>2
      <3>2. ~(y < x)
        BY <1>3, <1>4, <3>1
      <3> QED BY <3>1, <3>2
    <2> QED BY <2>1
  <1>6. PICK i \in where : x = n - i
    BY DEF rest
  <1>7. \A j \in where : j <= i
    <2>1. \A j \in where : n - j \in rest
      BY DEF rest
    <2> QED BY <1>5, <1>6, <2>1
  <1> QED BY <1>7 DEF Latest

\* Latest of places is the one no other is after.
LEMMA LatestOf ==
  ASSUME NEW n \in Nat, NEW where \in SUBSET (1..n), NEW m \in where, \A j \in where : j <= m
  PROVE  Latest(where) = m
  <1>1. Latest(where) \in where /\ \A j \in where : j <= Latest(where)
    BY LatestIs
  <1>2. m \in 1..n /\ Latest(where) \in 1..n /\ m <= Latest(where) /\ Latest(where) <= m
    BY <1>1
  <1> QED BY <1>2

\* The later of two indices takes the later place among those picked.
LEMMA RanksOrdered ==
  ASSUME NEW where, Indices(where), NEW i \in where, NEW k \in where, i <= k
  PROVE  Rank(where, i) <= Rank(where, k)
  <1>1. PICK n \in Nat : where \subseteq 1..n
    BY DEF Indices
  <1>2. IsFiniteSet(1..n) /\ \A j \in where : j \in 1..n
    BY <1>1, FS_Interval
  <1>3. IsFiniteSet(where)
    BY <1>1, <1>2, FS_Subset
  <1>4. \A j \in where : j <= i => j <= k
    BY <1>2
  <1>5. {j \in where : j <= i} \in SUBSET {j \in where : j <= k} /\ {j \in where : j <= k} \in SUBSET where
    BY <1>4
  <1>6. IsFiniteSet({j \in where : j <= k})
    BY <1>3, <1>5, FS_Subset
  <1> QED BY <1>5, <1>6, FS_Subset DEF Rank

\* A workspace whose fellows on its checkout all stay is found in its checkout's place.
LEMMA StaysLatest ==
  ASSUME NEW s, NEW t, IsState(s), NEW where \in SUBSET DOMAIN s.workspaces, NEW path,
         t.workspaces = Picked(s.workspaces, where),
         \A i \in DOMAIN s.workspaces : s.workspaces[i].path = path => i \in where
  PROVE  WorkspaceAt(t, path) = WorkspaceAt(s, path)
  <1> DEFINE at0 == {i \in DOMAIN s.workspaces : s.workspaces[i].path = path}
             at1 == {i \in DOMAIN t.workspaces : t.workspaces[i].path = path}
             n   == Len(s.workspaces)
  <1>1. n \in Nat /\ DOMAIN s.workspaces = 1..n
    BY IsRanged DEF IsState, IsSeq
  <1>2. /\ Indices(where) /\ IsSeq(t.workspaces)
        /\ \A m \in DOMAIN t.workspaces :
             \E i \in where : Rank(where, i) = m /\ t.workspaces[m] = s.workspaces[i]
        /\ \A i \in where : Rank(where, i) \in DOMAIN t.workspaces
                            /\ t.workspaces[Rank(where, i)] = s.workspaces[i]
    BY <1>1, PickedOf
  <1>3. Len(t.workspaces) \in Nat /\ DOMAIN t.workspaces = 1..Len(t.workspaces)
    BY <1>2, IsRanged
  <1>4. CASE at0 = {}
    <2>1. at1 = {}
      BY <1>2, <1>4
    <2> QED BY <1>4, <2>1 DEF WorkspaceAt
  <1>5. CASE at0 # {}
    <2> DEFINE last == Latest(at0)
    <2>1. last \in at0 /\ \A j \in at0 : j <= last
      <3>1. at0 \in SUBSET (1..n)
        BY <1>1
      <3> HIDE DEF at0
      <3> QED BY <1>1, <1>5, <3>1, LatestIs
    <2> HIDE DEF last
    <2>2. last \in where /\ Rank(where, last) \in at1
      BY <1>2, <2>1
    <2>3. ASSUME NEW m \in at1 PROVE m <= Rank(where, last)
      <3>1. PICK i \in where : Rank(where, i) = m /\ t.workspaces[m] = s.workspaces[i]
        BY <1>2
      <3>2. i \in at0
        BY <3>1
      <3> QED BY <1>2, <2>1, <2>2, <3>1, <3>2, RanksOrdered
    <2>4. Latest(at1) = Rank(where, last)
      <3>1. at1 \in SUBSET (1..Len(t.workspaces))
        BY <1>3
      <3> HIDE DEF at1
      <3> QED BY <1>3, <2>2, <2>3, <3>1, LatestOf
    <2>5. t.workspaces[Latest(at1)] = s.workspaces[Latest(at0)]
      BY <1>2, <2>2, <2>4 DEF last
    <2>6. at1 # {}
      BY <2>2
    <2> QED BY <1>5, <2>5, <2>6 DEF WorkspaceAt
  <1> QED BY <1>4, <1>5

\* A State of which some checkouts and some workspaces are left.
IsLeft(s, t, stay, open) ==
  /\ DOMAIN t = DOMAIN s /\ t.reports = s.reports
  /\ stay \subseteq DOMAIN s.worktrees /\ t.worktrees = Picked(s.worktrees, stay)
  /\ open \subseteq DOMAIN s.workspaces /\ t.workspaces = Picked(s.workspaces, open)

\* What is left of a State is one a Collector may hand over.
LEMMA PickedState ==
  ASSUME NEW s, NEW t, NEW stay, NEW open, IsState(s), IsLeft(s, t, stay, open)
  PROVE  /\ IsState(t)
         /\ Range(t.worktrees) = {s.worktrees[i] : i \in stay}
         /\ Range(t.workspaces) = {s.workspaces[i] : i \in open}
  <1>1. /\ Len(s.worktrees) \in Nat /\ DOMAIN s.worktrees = 1..Len(s.worktrees)
        /\ Len(s.workspaces) \in Nat /\ DOMAIN s.workspaces = 1..Len(s.workspaces)
    BY IsRanged DEF IsState, IsSeq
  <1>2. /\ IsSeq(t.worktrees) /\ Range(t.worktrees) = {s.worktrees[i] : i \in stay}
        /\ \A m \in DOMAIN t.worktrees :
             \E i \in stay : Rank(stay, i) = m /\ t.worktrees[m] = s.worktrees[i]
    BY <1>1, PickedOf DEF IsLeft
  <1>3. /\ IsSeq(t.workspaces) /\ Range(t.workspaces) = {s.workspaces[i] : i \in open}
        /\ \A m \in DOMAIN t.workspaces :
             \E i \in open : Rank(open, i) = m /\ t.workspaces[m] = s.workspaces[i]
    BY <1>1, PickedOf DEF IsLeft
  <1>4. /\ \A i, j \in DOMAIN s.worktrees : s.worktrees[i].path = s.worktrees[j].path => i = j
        /\ \A i, j \in DOMAIN s.workspaces : s.workspaces[i].id = s.workspaces[j].id => i = j
    BY DEF IsState
  <1>5. \A m, k \in DOMAIN t.worktrees : t.worktrees[m].path = t.worktrees[k].path => m = k
    <2>1. SUFFICES ASSUME NEW m \in DOMAIN t.worktrees, NEW k \in DOMAIN t.worktrees,
                          t.worktrees[m].path = t.worktrees[k].path
                   PROVE  m = k
      OBVIOUS
    <2>2. PICK i \in stay : Rank(stay, i) = m /\ t.worktrees[m] = s.worktrees[i]
      BY <1>2
    <2>3. PICK j \in stay : Rank(stay, j) = k /\ t.worktrees[k] = s.worktrees[j]
      BY <1>2
    <2>4. i \in DOMAIN s.worktrees /\ j \in DOMAIN s.worktrees
      BY DEF IsLeft
    <2>5. i = j
      BY <1>4, <2>1, <2>2, <2>3, <2>4
    <2> QED BY <2>2, <2>3, <2>5
  <1>6. \A m, k \in DOMAIN t.workspaces : t.workspaces[m].id = t.workspaces[k].id => m = k
    <2>1. SUFFICES ASSUME NEW m \in DOMAIN t.workspaces, NEW k \in DOMAIN t.workspaces,
                          t.workspaces[m].id = t.workspaces[k].id
                   PROVE  m = k
      OBVIOUS
    <2>2. PICK i \in open : Rank(open, i) = m /\ t.workspaces[m] = s.workspaces[i]
      BY <1>3
    <2>3. PICK j \in open : Rank(open, j) = k /\ t.workspaces[k] = s.workspaces[j]
      BY <1>3
    <2>4. i \in DOMAIN s.workspaces /\ j \in DOMAIN s.workspaces
      BY DEF IsLeft
    <2>5. i = j
      BY <1>4, <2>1, <2>2, <2>3, <2>4
    <2> QED BY <2>2, <2>3, <2>5
  <1>7. Range(t.worktrees) \subseteq Range(s.worktrees) /\ Range(t.workspaces) \subseteq Range(s.workspaces)
    BY <1>2, <1>3 DEF Range, IsLeft
  <1>8. \A m \in DOMAIN t.worktrees :
          {"path", "workspace", "dirty", "merged", "pr"} \subseteq DOMAIN t.worktrees[m]
    <2>1. \A i \in stay : {"path", "workspace", "dirty", "merged", "pr"} \subseteq DOMAIN s.worktrees[i]
      BY DEF IsState, IsLeft
    <2> QED BY <1>2, <2>1
  <1>9. /\ DOMAIN t = {"worktrees", "workspaces", "agents", "reports", "herdrAbsent", "release"}
        /\ \A p \in DOMAIN t.reports : {"found", "status", "unreadable"} \subseteq DOMAIN t.reports[p]
    BY DEF IsState, IsLeft
  <1>10. \A ws \in Range(t.workspaces) :
           /\ ws.id # NoWS /\ ws.panes \in Seq(Range(ws.panes))
           /\ \A w \in Range(t.worktrees) : w.workspace = ws.id => w.path = ws.path
    BY <1>7 DEF IsState
  <1>11. t.worktrees \in Seq(Range(t.worktrees)) /\ t.workspaces \in Seq(Range(t.workspaces))
    BY <1>2, <1>3 DEF IsSeq
  <1>12. IsState(t)
    BY <1>5, <1>6, <1>8, <1>9, <1>10, <1>11, Zenon DEF IsState
  <1> QED BY <1>2, <1>3, <1>12

\* Of a plan that was carried out, nothing is left to start or to remove.
LEMMA NothingLeft ==
  ASSUME NEW s, IsState(s), NEW t, t = Performed(s)
  PROVE  /\ IsState(t)
         /\ {a \in Range(ReconcileState(t)) : a.kind \in {"staff", "prune"}} = {}
  <1> DEFINE plan    == Range(ReconcileState(s))
             started == {a.pane : a \in {b \in plan : b.kind = "staff"}}
             removed == {a.path : a \in {b \in plan : b.kind = "prune"}}
             closed  == {a.workspace : a \in {b \in plan : b.kind \in {"prune", "close-ghost"}}}
             stay    == {i \in DOMAIN s.worktrees : s.worktrees[i].path \notin removed}
             open    == {i \in DOMAIN s.workspaces : s.workspaces[i].id \notin closed}
             more    == [p \in DOMAIN s.agents \cup started |->
                           IF p \in DOMAIN s.agents THEN s.agents[p] ELSE "working"]
  <1>1. t = [s EXCEPT !.agents = more, !.worktrees = Picked(s.worktrees, stay),
                      !.workspaces = Picked(s.workspaces, open)]
    BY DEF Performed
  <1>2. \A w \in Range(s.worktrees) : Removable(s, w) => w.path \in removed
    <2> SUFFICES ASSUME NEW w \in Range(s.worktrees), Removable(s, w) PROVE w.path \in removed
      OBVIOUS
    <2>1. <<"prune", w.path, w.workspace>> \in Removals(s)
      BY RemovalsAre
    <2>2. PICK a \in plan : a.kind = "prune" /\ a.path = w.path
      BY <2>1 DEF Removals
    <2> QED BY <2>2
  <1>3. \A id \in closed : \/ \E w \in Range(s.worktrees) : w.path \in removed /\ w.workspace = id
                           \/ \E ws \in Range(s.workspaces) : ~Live(s, ws.path) /\ ws.id = id
    <2> SUFFICES ASSUME NEW a \in plan, a.kind \in {"prune", "close-ghost"}
                 PROVE  \/ \E w \in Range(s.worktrees) : w.path \in removed /\ w.workspace = a.workspace
                        \/ \E ws \in Range(s.workspaces) : ~Live(s, ws.path) /\ ws.id = a.workspace
      OBVIOUS
    <2>1. <<a.kind, a.path, a.workspace>> \in Removals(s)
      BY DEF Removals
    <2> QED BY <1>2, <2>1, RemovalsAre DEF Closing
  <1>4. \A ws \in Range(s.workspaces) : Staffable(s, ws) => ws.panes[1] \in started
    <2> SUFFICES ASSUME NEW ws \in Range(s.workspaces), Staffable(s, ws) PROVE ws.panes[1] \in started
      OBVIOUS
    <2>1. PICK i \in DOMAIN Staff(s) : Staff(s)[i].pane = ws.panes[1] /\ Staff(s)[i].kind = "staff"
      BY StaffIs
    <2>2. Staff(s)[i] \in plan
      BY PlanIs DEF Range
    <2> QED BY <2>1, <2>2
  <1>5. /\ stay \in SUBSET DOMAIN s.worktrees /\ open \in SUBSET DOMAIN s.workspaces
        /\ \A i \in stay : i \in DOMAIN s.worktrees /\ s.worktrees[i].path \notin removed
        /\ \A i \in open : i \in DOMAIN s.workspaces
        /\ \A i \in DOMAIN s.workspaces : s.workspaces[i].id \notin closed => i \in open
        /\ DOMAIN more = DOMAIN s.agents \cup started /\ \A p \in DOMAIN s.agents : more[p] = s.agents[p]
    OBVIOUS
  <1> HIDE DEF plan, started, removed, closed, stay, open, more
  <1>6. /\ DOMAIN t = DOMAIN s /\ t.agents = more /\ t.reports = s.reports /\ t.release = s.release
        /\ t.worktrees = Picked(s.worktrees, stay) /\ t.workspaces = Picked(s.workspaces, open)
    BY <1>1 DEF IsState
  <1>7. /\ IsState(t)
        /\ Range(t.worktrees) = {s.worktrees[i] : i \in stay}
        /\ Range(t.workspaces) = {s.workspaces[i] : i \in open}
    <2>1. IsLeft(s, t, stay, open)
      BY <1>5, <1>6 DEF IsLeft
    <2> QED BY <2>1, PickedState
  <1>8. \A ws : Occupants(s, ws) \subseteq Occupants(t, ws)
    BY <1>5, <1>6 DEF Occupants
  <1>9. ASSUME NEW w \in Range(t.worktrees) PROVE ~Removable(t, w)
    <2>1. w \in Range(s.worktrees) /\ w.path \notin removed
      BY <1>5, <1>7 DEF Range
    <2>2. w.linked => Spared(s, w)
      BY <1>2, <2>1 DEF Removable
    <2>3. ASSUME NEW i \in DOMAIN s.workspaces, s.workspaces[i].path = w.path PROVE i \in open
      <3> DEFINE ws == s.workspaces[i]
      <3>1. ws \in Range(s.workspaces) /\ Live(s, ws.path)
        BY <2>1, <2>3 DEF Range, Live
      <3>2. \A v \in Range(s.worktrees) : v.workspace = ws.id => v.path = ws.path
        BY <3>1 DEF IsState
      <3>3. \A u \in Range(s.workspaces) : u.id = ws.id => u = ws
        BY DEF IsState, Range
      <3>4. ws.id \notin closed
        BY <1>3, <2>1, <2>3, <3>1, <3>2, <3>3
      <3> QED BY <1>5, <3>4
    <2>4. WorkspaceAt(t, w.path) = WorkspaceAt(s, w.path)
      BY <1>5, <1>6, <2>3, StaysLatest
    <2> QED BY <1>6, <1>8, <2>2, <2>4 DEF Removable, Spared, AgentBusy, Occupied
  <1>10. ASSUME NEW ws \in Range(t.workspaces) PROVE ~Staffable(t, ws)
    <2> SUFFICES ASSUME Staffable(t, ws) PROVE FALSE
      OBVIOUS
    <2>1. ws \in Range(s.workspaces) /\ ws.panes \in Seq(Range(ws.panes))
      <3>1. ws \in Range(s.workspaces)
        BY <1>5, <1>7 DEF Range
      <3> QED BY <3>1 DEF IsState
    <2>2. Live(s, ws.path)
      <3>1. PICK w \in Range(t.worktrees) : w.path = ws.path
        BY DEF Staffable, Live
      <3>2. w \in Range(s.worktrees)
        BY <1>5, <1>7 DEF Range
      <3> QED BY <3>1, <3>2 DEF Live
    <2>3. ws.panes[1] \in started
      BY <1>4, <1>8, <2>1, <2>2 DEF Staffable, Occupied
    <2>4. ws.panes[1] \in Range(ws.panes)
      <3>1. ws.panes # <<>>
        BY DEF Staffable
      <3>2. 1 \in DOMAIN ws.panes
        BY <2>1, <3>1
      <3> QED BY <3>2 DEF Range
    <2>5. Occupants(t, ws) # {}
      BY <1>5, <1>6, <2>3, <2>4 DEF Occupants
    <2> QED BY <2>5 DEF Staffable, Occupied
  <1>11. ASSUME NEW a \in Range(ReconcileState(t)) PROVE a.kind \notin {"staff", "prune"}
    <2>1. a \in Range(Adopt(t)) \cup Range(Staff(t)) \cup Range(Prune(t)) \cup Range(Ghosts(t))
      BY <1>7, PlanIs
    <2>2. a \in Range(Adopt(t)) \cup Range(Ghosts(t)) => a.kind \notin {"staff", "prune"}
      BY <1>7, AdoptIs, GhostsAre DEF Range, Answered
    <2>3. a \notin Range(Staff(t))
      BY <1>7, <1>10, StaffIs DEF Range
    <2>4. a \in Range(Prune(t)) => a.kind \notin {"staff", "prune"}
      BY <1>7, <1>9, PruneIs DEF Range, Judged, Removable
    <2> QED BY <2>1, <2>2, <2>3, <2>4
  <1> QED BY <1>7, <1>11

-----------------------------------------------------------------------------
(* prune-apply, from its first dial to the removal *)

\* What a command has and has not found out at each place it may stand.
Looked  == {"resolve", "collect", "dirty", "ancestor", "trunk", "upstream", "pr", "plan",
            "recheck", "holder", "remove", "removed"}
Rooted  == Looked \ {"resolve"}
Asked   == Rooted \ {"collect", "dirty", "ancestor"}
Decided == {"recheck", "holder", "remove", "removed"}

ShapeInv ==
  /\ IsState(state) /\ call \in Calls
  /\ DOMAIN facts = {"dirty", "ancestor", "off", "gone", "pr", "hosts"}

\* Agents live in sessions that are up, and those that were there are still there.
SessionInv ==
  /\ socket \in [Session -> {"none", "live", "busy", "stale"}]
  /\ \A s \in agents : s \in Session /\ Up(s)
  /\ there \subseteq agents

\* An agent's session was named, has answered or kept silent, or is still to be dialled;
\* or it had no folder that could be read.
DialInv ==
  /\ live \subseteq Session /\ todo \subseteq DOMAIN Endpoints
  /\ at = "named" => live = {} /\ mute = {} /\ client = NoSession
  /\ at \in {"list", "search"} => call.named \notin there /\ client = NoSession
  /\ at = "list" => live = {} /\ mute = {}
  /\ at = "search" /\ Default \in there =>
       Default \in live \cup mute \/ \E i \in todo : Endpoints[i] = Default
  /\ at \in Looked =>
       \/ client = call.named /\ client # NoSession
       \/ /\ call.named \notin there
          /\ Default \in there => Default \in live \cup mute
          /\ live = {client} \/ (live = {} /\ mute = {} /\ client = NoSession)
  /\ at \in {"remove", "removed"} /\ client # NoSession => client \notin there

RootInv ==
  at \in Rooted => Told \/ (call.context # "malformed" /\ client = NoSession)

\* Whatever has a commit and the parents of all it has.
Holds(h, c, S) ==
  /\ c # 0 => c \in S
  /\ \A j \in S : /\ h[j].first # 0 => h[j].first \in S
                  /\ h[j].second # 0 => h[j].second \in S
ReachIn(h, c) == {i \in DOMAIN h : \A S \in SUBSET DOMAIN h : Holds(h, c, S) => i \in S}

IsHistory(h) ==
  IsSeq(h) /\ \A i \in DOMAIN h : {h[i].first, h[i].second} \subseteq {0} \cup DOMAIN h

\* The trunk as it was fetched is behind the trunk, and the branch that was found in it
\* stays there.
HistoryInv ==
  /\ IsHistory(history)
  /\ {tip, trunk, base} \subseteq DOMAIN history /\ {remote, tracked} \subseteq {0} \cup DOMAIN history
  /\ base \in ReachIn(history, trunk)
  /\ at \in Asked /\ facts.ancestor => first \in ReachIn(history, base)

\* Pull requests, and a list of them in the order they were opened.
PullRequests == [at : Nat, state : {"OPEN", "CLOSED", "MERGED"}]

Dated(list) ==
  /\ list \in Seq(PullRequests)
  /\ \A i, j \in DOMAIN list : i <= j => list[i].at <= list[j].at

EvidenceInv ==
  /\ Dated(prs)
  /\ at \in {"plan"} \cup Decided /\ facts.pr = "MERGED" => merged
  /\ at \in Decided => facts.pr = "MERGED" \/ (facts.pr = "" /\ facts.ancestor)

CommandInv ==
  ShapeInv /\ SessionInv /\ DialInv /\ RootInv /\ HistoryInv /\ EvidenceInv

-----------------------------------------------------------------------------
(* The parts of the invariant, each under every step *)

\* The invariant holds where it starts.
LEMMA CommandStarts == DegradedInit => CommandInv
  <1> SUFFICES ASSUME DegradedInit PROVE CommandInv
    OBVIOUS
  <1>1. PICK m \in Machines : Machine(m) /\ call \in m.calls /\ at \in {"none", "named"}
    BY DEF DegradedInit, PlannerInit, MachineInit
  <1>2. ShapeInv
    <2>1. IsState(state)
      BY InitialAssumption, SnapshotAssumption DEF DegradedInit, PlannerInit, StateInit
    <2>2. call \in Calls
      BY <1>1, MachineAssumption
    <2> QED BY <1>1, <2>1, <2>2 DEF ShapeInv, Machine, NoFacts
  <1>3. SessionInv
    BY <1>1, MachineAssumption DEF SessionInv, Machine, Up
  <1>4. DialInv
    BY <1>1 DEF DialInv, Machine, Looked
  <1>5. RootInv
    BY <1>1 DEF RootInv, Rooted, Looked
  <1>6. HistoryInv
    <2>1. /\ history = m.history /\ tip = m.tip /\ trunk = m.trunk /\ base = m.trunk
          /\ remote = m.remote /\ tracked = m.remote
      BY <1>1 DEF Machine
    <2>2. /\ IsHistory(m.history) /\ {m.tip, m.trunk} \subseteq DOMAIN m.history
          /\ m.remote \in {0} \cup DOMAIN m.history /\ m.trunk # 0
      <3>1. m.history \in Seq(Range(m.history)) /\ {m.tip, m.trunk} \subseteq DOMAIN m.history
        BY MachineAssumption
      <3>2. m.trunk # 0
        BY <3>1
      <3>3. IsHistory(m.history) /\ m.remote \in {0} \cup DOMAIN m.history
        BY MachineAssumption DEF IsHistory, IsSeq
      <3> QED BY <3>1, <3>2, <3>3
    <2>3. m.trunk \in ReachIn(m.history, m.trunk)
      BY <2>2 DEF ReachIn, Holds
    <2> QED BY <1>1, <2>1, <2>2, <2>3 DEF HistoryInv, Asked, Rooted, Looked
  <1>7. EvidenceInv
    BY <1>1, MachineAssumption DEF EvidenceInv, Machine, Dated, PullRequests, Decided
  <1> QED BY <1>2, <1>3, <1>4, <1>5, <1>6, <1>7 DEF CommandInv

\* Every step keeps the State one that a Collector may hand over.
LEMMA StepShape ==
  ASSUME ShapeInv, [DegradedNext]_<<stateVars, machineVars>>
  PROVE  ShapeInv'
  <1> USE DEF ShapeInv
  <1>1. CASE Planning /\ StateNext /\ UNCHANGED machineVars
    <2>1. CASE Doubt
      BY <1>1, <2>1, DoubtKeeps DEF machineVars
    <2>2. CASE ReleaseGiven
      <3>1. state' = [state EXCEPT !.release = TRUE]
        BY <2>2 DEF ReleaseGiven
      <3>2. /\ DOMAIN state' = DOMAIN state /\ state'.worktrees = state.worktrees
            /\ state'.workspaces = state.workspaces /\ state'.reports = state.reports
        BY <3>1 DEF IsState
      <3>3. IsState(state')
        BY <3>2 DEF IsState
      <3> QED BY <1>1, <3>3 DEF machineVars
    <2>3. CASE Perform
      BY <1>1, <2>3, NothingLeft DEF Perform, machineVars
    <2> QED BY <1>1, <2>1, <2>2, <2>3 DEF StateNext
  <1>2. CASE Command /\ PlanPrune
    <2> DEFINE space  == [id |-> Space, path |-> Path, linked |-> TRUE, panes |-> <<Seat>>]
               linked == [Main EXCEPT !.path = Path, !.branch = Name, !.linked = TRUE,
                            !.workspace = IF facts.hosts THEN Space ELSE NoWS,
                            !.dirty = facts.dirty, !.merged = facts.ancestor /\ facts.off,
                            !.gone = facts.gone, !.pr = facts.pr]
               both   == <<Main, linked>>
               open   == IF facts.hosts THEN <<space>> ELSE <<>>
    <2>1. /\ state'.worktrees = both /\ state'.workspaces = open /\ state'.reports = Nothing.reports
          /\ DOMAIN state' = DOMAIN Nothing
      BY <1>2, SnapshotAssumption DEF PlanPrune, Collected, IsState
    <2>2. /\ linked.path = Path /\ linked.workspace \in {Space, NoWS} /\ DOMAIN linked = DOMAIN Main
      BY SnapshotAssumption
    <2>3. both \in Seq(Range(both)) /\ DOMAIN both = {1, 2} /\ both[1] = Main /\ both[2] = linked
          /\ Range(both) = {Main, linked}
      <3> HIDE DEF linked
      <3>1. both \in Seq({Main, linked}) /\ DOMAIN both = 1..2 /\ both[1] = Main /\ both[2] = linked
        OBVIOUS
      <3>2. DOMAIN both = {1, 2}
        BY <3>1
      <3> HIDE DEF both
      <3>3. Range(both) = {Main, linked}
        BY <3>1, <3>2 DEF Range
      <3> QED BY <3>1, <3>2, <3>3
    <2>4. open \in Seq(Range(open)) /\ \A i \in DOMAIN open : i = 1 /\ open[i] = space
      <3> HIDE DEF space
      <3>1. CASE facts.hosts
        <4>1. open = <<space>>
          BY <3>1
        <4> HIDE DEF open
        <4>2. open \in Seq({space}) /\ DOMAIN open = 1..1 /\ open[1] = space
          BY <4>1
        <4>3. Range(open) = {space}
          BY <4>2 DEF Range
        <4> QED BY <4>2, <4>3
      <3>2. CASE ~facts.hosts
        BY <3>2 DEF Range
      <3> QED BY <3>1, <3>2
    <2>5. \A ws \in Range(open) : ws = space
      BY <2>4 DEF Range
    <2>6. space.id = Space /\ space.path = Path /\ space.panes = <<Seat>>
          /\ <<Seat>> \in Seq(Range(<<Seat>>))
      BY DEF Range
    <2> HIDE DEF both, open, linked, space
    <2>7. /\ \A i, j \in DOMAIN both : both[i].path = both[j].path => i = j
          /\ \A i \in DOMAIN both :
               {"path", "workspace", "dirty", "merged", "pr"} \subseteq DOMAIN both[i]
      BY <2>2, <2>3, SnapshotAssumption
    <2>8. \A ws \in Range(open) :
            /\ ws.id # NoWS /\ ws.panes \in Seq(Range(ws.panes))
            /\ \A w \in Range(both) : w.workspace = ws.id => w.path = ws.path
      BY <2>2, <2>3, <2>5, <2>6, SnapshotAssumption
    <2>9. \A i, j \in DOMAIN open : open[i].id = open[j].id => i = j
      BY <2>4
    <2>10. /\ DOMAIN Nothing = {"worktrees", "workspaces", "agents", "reports", "herdrAbsent", "release"}
           /\ \A p \in DOMAIN Nothing.reports : {"found", "status", "unreadable"} \subseteq DOMAIN Nothing.reports[p]
      BY SnapshotAssumption DEF IsState
    <2>11. IsState(state')
      BY <2>1, <2>3, <2>4, <2>7, <2>8, <2>9, <2>10 DEF IsState
    <2> QED BY <1>2, <2>11 DEF Command, PlanPrune, readVars
  <1>3. CASE Command /\ ~PlanPrune
    BY <1>3 DEF Command, readVars, ReadHerdr, Ask, ReadDirty, ReadAncestor, ReadTrunk, ReadUpstream,
       LookupPR, RecheckDirty, RecheckHolder, RemoveIt
  <1>4. CASE Elsewhere \/ UNCHANGED <<stateVars, machineVars>>
    BY <1>4 DEF Elsewhere, readVars, stateVars, machineVars
  <1> QED BY <1>1, <1>2, <1>3, <1>4 DEF DegradedNext

\* An agent is never in a session that is down, and none joins those there from the start.
LEMMA StepSession ==
  ASSUME SessionInv, [DegradedNext]_<<stateVars, machineVars>>
  PROVE  SessionInv' /\ there' \subseteq there
  <1>1. CASE UNCHANGED <<socket, agents, there>>
    BY <1>1 DEF SessionInv, Up
  <1>2. CASE SessionMoves /\ there' = there \cap agents'
    <2>1. PICK s \in Session :
            SessionStarts(s) \/ SessionEnds(s) \/ Backlog(s) \/ AgentComes(s) \/ AgentGoes(s)
      BY <1>2 DEF SessionMoves
    <2>2. CASE SessionStarts(s)
      BY <1>2, <2>2 DEF SessionStarts, SessionInv, Up
    <2>3. CASE SessionEnds(s)
      BY <1>2, <2>3 DEF SessionEnds, SessionInv, Up
    <2>4. CASE Backlog(s)
      BY <1>2, <2>4 DEF Backlog, SessionInv, Up
    <2>5. CASE AgentComes(s) \/ AgentGoes(s)
      BY <1>2, <2>5 DEF AgentComes, AgentGoes, SessionInv, Up
    <2> QED BY <2>1, <2>2, <2>3, <2>4, <2>5
  <1> QED BY <1>1, <1>2 DEF DegradedNext, Command, Elsewhere, sessionVars, machineVars, stateVars

\* A step that leaves the dial where it was and only takes agents away, or moves the
\* command on from one place to the next.
Onward ==
  \/ at' = at
  \/ at' \in {"over", "refused"}
  \/ at \in Looked \ {"holder"} /\ at' \in Looked \ {"remove"}
     /\ (at' \in {"removed"} => at = "remove")
  \/ at = "holder" /\ at' = "remove" /\ (client # NoSession => client \notin agents)

\* Whom the dial has accounted for stays accounted for.
LEMMA StepDial ==
  ASSUME ShapeInv, SessionInv, DialInv, [DegradedNext]_<<stateVars, machineVars>>
  PROVE  DialInv'
  <1>1. there' \subseteq there /\ \A s \in there : s \in Session /\ ~Absent(s)
    BY StepSession DEF SessionInv, Up, Absent
  <1>2. CASE UNCHANGED <<call, dialVars>> /\ Onward
    <2>1. at' \in {"named", "list", "search"} => at' = at
      BY <1>2 DEF Onward, Looked
    <2>2. at' \in Looked => at \in Looked
      BY <1>2 DEF Onward, Looked
    <2>3. at' \in {"remove", "removed"} /\ client # NoSession => client \notin there
      BY <1>2 DEF Onward, DialInv, SessionInv, Looked
    <2> QED BY <1>1, <1>2, <2>1, <2>2, <2>3 DEF DialInv, dialVars
  <1>3. CASE DialNamed /\ call' = call
    <2>1. call.named = NoSession \/ Absent(call.named) => call.named \notin there
      BY <1>1, EndpointAssumption DEF Session
    <2>2. call.named \in Session \cup {NoSession}
      BY DEF ShapeInv, Calls
    <2> QED BY <1>1, <1>3, <2>1, <2>2 DEF DialNamed, DialInv, Looked
  <1>4. CASE ListSessions /\ call' = call
    <2>1. at' = "search" => \E i \in todo' : Endpoints[i] = Default
      <3>1. 1 \in DOMAIN Endpoints
        BY EndpointAssumption
      <3> QED BY <1>4, <3>1 DEF ListSessions, Default
    <2> QED BY <1>1, <1>4, <2>1 DEF ListSessions, DialInv, Looked
  <1>5. CASE DialNext /\ call' = call /\ there' = there
    <2>1. PICK i \in todo : DialOne(Endpoints[i]) /\ todo' = todo \ {i} /\ UNCHANGED <<at, client>>
      BY <1>5 DEF DialNext
    <2>2. Endpoints[i] \in Session
      BY <2>1 DEF Session, Range, DialInv
    <2>3. live \subseteq live' /\ mute \subseteq mute' /\ live' \subseteq Session
      BY <2>1, <2>2 DEF DialOne, DialInv
    <2>4. Endpoints[i] \in there => Endpoints[i] \in live' \cup mute'
      BY <1>1, <2>1 DEF DialOne
    <2>5. Default \in there => Default \in live' \cup mute' \/ \E j \in todo' : Endpoints[j] = Default
      BY <1>5, <2>1, <2>3, <2>4 DEF DialInv, DialNext
    <2> QED BY <1>5, <2>1, <2>3, <2>5 DEF DialInv, DialNext, Looked
  <1>6. CASE Conclude /\ call' = call
    <2>1. CASE \E s \in live : live = {s} /\ client' = s /\ at' = "resolve"
      BY <1>1, <1>6, <2>1 DEF Conclude, DialInv, Looked
    <2>2. CASE at' = "refused" /\ UNCHANGED client
      BY <1>1, <1>6, <2>2 DEF Conclude, DialInv, Looked
    <2>3. CASE live = {} /\ mute = {} /\ at' = "resolve" /\ UNCHANGED client
      BY <1>1, <1>6, <2>3 DEF Conclude, DialInv, Looked
    <2> QED BY <1>6, <2>1, <2>2, <2>3 DEF Conclude
  <1>7. CASE Command /\ ~DialStep
    <2>1. UNCHANGED <<call, dialVars>>
      BY <1>7 DEF Command
    <2>2. Onward
      BY <1>7 DEF Command, Onward, Looked, ReadHerdr, Ask, ReadDirty, ReadAncestor, ReadTrunk,
         ReadUpstream, LookupPR, PlanPrune, RecheckDirty, RecheckHolder, RemoveIt
    <2> QED BY <1>2, <2>1, <2>2
  <1>8. CASE Command /\ DialStep
    <2>1. call' = call /\ there' = there
      BY <1>8 DEF Command
    <2>2. CASE Resolve
      BY <1>2, <2>1, <2>2 DEF Resolve, Onward, Looked
    <2> QED BY <1>3, <1>4, <1>5, <1>6, <1>8, <2>1, <2>2 DEF DialStep
  <1>9. CASE Elsewhere \/ UNCHANGED machineVars
    BY <1>2, <1>9 DEF Elsewhere, Onward, machineVars
  <1> QED BY <1>7, <1>8, <1>9 DEF DegradedNext

\* What the command was told of its root stays so.
LEMMA StepRoot ==
  ASSUME RootInv, [DegradedNext]_<<stateVars, machineVars>>
  PROVE  RootInv'
  <1>1. CASE UNCHANGED <<call, client>> /\ (at' \in Rooted => at \in Rooted)
    BY <1>1 DEF RootInv, Told
  <1>2. CASE Resolve /\ call' = call
    BY <1>2 DEF Resolve, dialVars, RootInv, Told, MayFallBack, Rooted, Looked
  <1>3. CASE Command /\ DialStep /\ ~Resolve
    BY <1>3 DEF Command, DialStep, DialNamed, ListSessions, DialNext, Conclude, RootInv, Rooted, Looked
  <1>4. CASE Command /\ ~DialStep
    BY <1>1, <1>4 DEF Command, dialVars, Rooted, Looked, ReadHerdr, Ask, ReadDirty, ReadAncestor,
       ReadTrunk, ReadUpstream, LookupPR, PlanPrune, RecheckDirty, RecheckHolder, RemoveIt
  <1>5. CASE Elsewhere \/ UNCHANGED machineVars
    BY <1>1, <1>5 DEF Elsewhere, dialVars, machineVars
  <1> QED BY <1>2, <1>3, <1>4, <1>5 DEF DegradedNext, Command

-----------------------------------------------------------------------------
(* What a commit reaches *)

\* Append adds a last element and leaves the others.
LEMMA Appended ==
  ASSUME NEW h, IsSeq(h), NEW x
  PROVE  /\ Len(h) \in Nat /\ DOMAIN h = 1..Len(h) /\ IsSeq(Append(h, x))
         /\ DOMAIN Append(h, x) = 1..(Len(h) + 1) /\ Append(h, x)[Len(h) + 1] = x
         /\ \A i \in DOMAIN h : Append(h, x)[i] = h[i]
  <1> DEFINE g == Append(h, x)
  <1>1. Len(h) \in Nat /\ DOMAIN h = 1..Len(h)
    BY IsRanged
  <1>2. h \in Seq(Range(h) \cup {x})
    <2>1. h \in [1..Len(h) -> Range(h)]
      BY DEF IsSeq
    <2>2. h \in [1..Len(h) -> Range(h) \cup {x}]
      BY <2>1
    <2> QED BY <1>1, <2>2
  <1>3. g \in Seq(Range(h) \cup {x}) /\ Len(g) = Len(h) + 1
    BY <1>2
  <1>4. g[Len(h) + 1] = x /\ \A i \in DOMAIN h : g[i] = h[i]
    BY <1>1, <1>2
  <1> HIDE DEF g
  <1>5. DOMAIN g = 1..(Len(h) + 1) /\ g \in [1..Len(g) -> Range(g)]
    BY <1>3 DEF Range
  <1>6. IsSeq(g)
    BY <1>1, <1>3, <1>5 DEF IsSeq
  <1> QED BY <1>1, <1>4, <1>5, <1>6 DEF g

\* A commit added to a history takes nothing from what any commit reaches.
LEMMA ReachGrows ==
  ASSUME NEW h, IsHistory(h), NEW x, {x.first, x.second} \subseteq {0} \cup DOMAIN h,
         NEW g, g = Append(h, x)
  PROVE  /\ IsHistory(g) /\ DOMAIN h \subseteq DOMAIN g
         /\ Len(h) + 1 \in DOMAIN g /\ g[Len(h) + 1] = x
         /\ \A c \in {0} \cup DOMAIN h : ReachIn(h, c) \subseteq ReachIn(g, c)
  <1>1. /\ Len(h) \in Nat /\ DOMAIN h = 1..Len(h) /\ IsSeq(g)
        /\ DOMAIN g = 1..(Len(h) + 1) /\ g[Len(h) + 1] = x
        /\ \A i \in DOMAIN h : g[i] = h[i]
    BY Appended DEF IsHistory
  <1>2. DOMAIN h \subseteq DOMAIN g /\ Len(h) + 1 \in DOMAIN g
    BY <1>1
  <1>3. ASSUME NEW i \in DOMAIN g PROVE {g[i].first, g[i].second} \subseteq {0} \cup DOMAIN g
    <2>1. CASE i \in DOMAIN h
      BY <1>1, <1>2, <2>1 DEF IsHistory
    <2>2. CASE i = Len(h) + 1
      BY <1>1, <1>2, <2>2
    <2> QED BY <1>1, <2>1, <2>2
  <1>4. ASSUME NEW c \in {0} \cup DOMAIN h, NEW y \in ReachIn(h, c), NEW S \in SUBSET DOMAIN g,
               Holds(g, c, S)
        PROVE  y \in S
    <2> DEFINE T == S \cap DOMAIN h
    <2>1. c # 0 => c \in T
      BY <1>4 DEF Holds
    <2>2. ASSUME NEW j \in T
          PROVE  /\ h[j].first # 0 => h[j].first \in T
                 /\ h[j].second # 0 => h[j].second \in T
      BY <1>1, <1>4 DEF Holds, IsHistory
    <2> QED BY <2>1, <2>2 DEF ReachIn, Holds
  <1>5. \A c \in {0} \cup DOMAIN h : ReachIn(h, c) \subseteq ReachIn(g, c)
    BY <1>2, <1>4 DEF ReachIn
  <1> QED BY <1>1, <1>2, <1>3, <1>5 DEF IsHistory

\* What a commit reaches reaches no further than it.
LEMMA ReachOn ==
  ASSUME NEW h, NEW t, NEW b \in ReachIn(h, t)
  PROVE  ReachIn(h, b) \subseteq ReachIn(h, t)
  BY DEF ReachIn, Holds

\* A commit reaches itself and its first parent.
LEMMA ReachSelf ==
  ASSUME NEW h, IsHistory(h), NEW c \in DOMAIN h
  PROVE  c \in ReachIn(h, c) /\ (h[c].first # 0 => h[c].first \in ReachIn(h, c))
  <1>1. c # 0
    BY IsRanged DEF IsHistory
  <1>2. h[c].first # 0 => h[c].first \in DOMAIN h
    BY DEF IsHistory
  <1> QED BY <1>1, <1>2 DEF ReachIn, Holds

\* What Reaches returns is what is in everything that holds the commit.
LEMMA ReachesAre == \A c : Reaches(c) = ReachIn(history, c)
  <1> SUFFICES ASSUME NEW c PROVE Reaches(c) = ReachIn(history, c)
    OBVIOUS
  <1> DEFINE Closed(S) == \A i \in {c} \cup UNION {{history[j].first, history[j].second} : j \in S} :
                            i # 0 => i \in S
  <1>1. Reaches(c) = {i \in DOMAIN history : \A S \in SUBSET DOMAIN history : Closed(S) => i \in S}
    BY DEF Reaches, Reached
  <1>2. ASSUME NEW S \in SUBSET DOMAIN history PROVE Closed(S) <=> Holds(history, c, S)
    BY DEF Holds
  <1> HIDE DEF Closed
  <1> QED BY <1>1, <1>2 DEF ReachIn

\* The history grows by a commit, whose parent it has.
Grows(parent) ==
  /\ IsHistory(history') /\ DOMAIN history \subseteq DOMAIN history'
  /\ Newest \in DOMAIN history' /\ history'[Newest].first = parent
  /\ \A c \in DOMAIN history : ReachIn(history, c) \subseteq ReachIn(history', c)

LEMMA AddGrows ==
  ASSUME IsHistory(history), NEW p \in {0} \cup DOMAIN history, NEW q \in {0} \cup DOMAIN history,
         NEW brings, Add(p, q, brings)
  PROVE  Grows(p)
  <1> DEFINE x == [first |-> p, second |-> q, brings |-> brings]
  <1>1. history' = Append(history, x) /\ x.first = p /\ x.second = q
    BY DEF Add
  <1> HIDE DEF x
  <1>2. {x.first, x.second} \subseteq {0} \cup DOMAIN history
    BY <1>1
  <1>3. /\ IsHistory(history') /\ DOMAIN history \subseteq DOMAIN history'
        /\ Len(history) + 1 \in DOMAIN history' /\ history'[Len(history) + 1] = x
        /\ \A c \in {0} \cup DOMAIN history : ReachIn(history, c) \subseteq ReachIn(history', c)
    BY <1>1, <1>2, ReachGrows
  <1> QED BY <1>1, <1>3 DEF Grows, Newest

\* The trunk moves to a commit that has the old one.
LEMMA TrunkMoves ==
  ASSUME HistoryInv, IsHistory(history'), DOMAIN history \subseteq DOMAIN history',
         \A c \in DOMAIN history : ReachIn(history, c) \subseteq ReachIn(history', c),
         {tip', trunk'} \subseteq DOMAIN history', trunk \in ReachIn(history', trunk'),
         {remote', tracked'} \subseteq {0} \cup DOMAIN history', base' = base,
         UNCHANGED <<at, facts, first>>
  PROVE  HistoryInv'
  <1>1. base \in DOMAIN history /\ trunk \in DOMAIN history
    BY DEF HistoryInv
  <1>2. base \in ReachIn(history', trunk)
    BY <1>1 DEF HistoryInv
  <1>3. base \in ReachIn(history', trunk')
    BY <1>2, ReachOn
  <1>4. at \in Asked /\ facts.ancestor => first \in ReachIn(history', base)
    BY <1>1 DEF HistoryInv
  <1> QED BY <1>1, <1>3, <1>4 DEF HistoryInv

\* Every step keeps the fetched trunk behind the trunk.
LEMMA StepHistory ==
  ASSUME ShapeInv, HistoryInv, [DegradedNext]_<<stateVars, machineVars>>
  PROVE  HistoryInv'
  <1>1. CASE RepoMoves /\ UNCHANGED <<at, facts, first>>
    <2>0. /\ IsHistory(history) /\ {tip, trunk, base} \subseteq DOMAIN history
          /\ {remote, tracked} \subseteq {0} \cup DOMAIN history
          /\ trunk \in ReachIn(history, trunk) /\ base \in ReachIn(history, trunk)
      BY ReachSelf DEF HistoryInv
    <2>1. CASE UNCHANGED <<history, trunk, base, tip>> /\ {remote', tracked'} \subseteq {0} \cup DOMAIN history
      BY <1>1, <2>0, <2>1, TrunkMoves
    <2>2. CASE CommitWork
      <3>1. Grows(tip)
        BY <2>0, <2>2, AddGrows DEF CommitWork
      <3>2. trunk \in ReachIn(history', trunk)
        BY <2>0, <3>1 DEF Grows
      <3> QED BY <1>1, <2>0, <2>2, <3>1, <3>2, TrunkMoves DEF CommitWork, Grows
    <2>3. ASSUME NEW p \in {0} \cup DOMAIN history, NEW brings,
                 Add(trunk, p, brings) \/ Add(trunk, 0, brings), trunk' = Newest,
                 UNCHANGED <<tip, base, remote, tracked>>
          PROVE  HistoryInv'
      <3>1. Grows(trunk)
        BY <2>0, <2>3, AddGrows
      <3>2. trunk \in ReachIn(history', Newest)
        <4>1. trunk # 0
          BY <2>0, IsRanged DEF IsHistory
        <4> QED BY <3>1, <4>1, ReachSelf DEF Grows
      <3> QED BY <1>1, <2>0, <2>3, <3>1, <3>2, TrunkMoves DEF Grows
    <2>4. CASE Land
      <3>1. CASE Add(trunk, remote, {}) /\ trunk' = Newest
        BY <2>0, <2>3, <2>4, <3>1 DEF Land
      <3>2. CASE Add(trunk, 0, Changes(remote) \ Changes(trunk)) /\ trunk' = Newest
        BY <2>0, <2>3, <2>4, <3>2 DEF Land
      <3>3. CASE trunk \in Reaches(remote) /\ trunk' = remote /\ UNCHANGED history
        <4>1. trunk \in ReachIn(history, remote) /\ remote \in DOMAIN history
          BY <2>0, <2>4, <3>3, ReachesAre DEF Land
        <4> QED BY <1>1, <2>0, <2>4, <3>3, <4>1, TrunkMoves DEF Land
      <3> QED BY <2>4, <3>1, <3>2, <3>3 DEF Land
    <2>5. CASE FetchAll
      <3>1. base' = trunk /\ tracked' = remote /\ UNCHANGED <<history, tip, trunk, remote>>
        BY <2>5 DEF FetchAll
      <3>2. at \in Asked /\ facts.ancestor => first \in ReachIn(history, trunk)
        BY ReachOn DEF HistoryInv
      <3> QED BY <1>1, <2>0, <3>1, <3>2 DEF HistoryInv
    <2>6. CASE OtherLands
      <3>1. 2 \in DOMAIN history
        BY <2>0, <2>6, IsRanged DEF OtherLands, IsHistory
      <3> QED BY <2>0, <2>3, <2>6, <3>1 DEF OtherLands
    <2>7. CASE EditFiles \/ PushBranch \/ OpenPR \/ ClosePR \/ ReopenPR \/ DeleteRemote
      <3>1. UNCHANGED <<history, trunk, base, tip>> /\ {remote', tracked'} \subseteq {0} \cup DOMAIN history
        BY <2>0, <2>7 DEF EditFiles, PushBranch, OpenPR, ClosePR, ReopenPR, DeleteRemote
      <3> QED BY <2>1, <3>1
    <2> QED BY <1>1, <2>2, <2>4, <2>5, <2>6, <2>7 DEF RepoMoves
  <1>2. CASE UNCHANGED <<repoVars, first>> /\ (at' \in Asked => at \in Asked /\ facts'.ancestor = facts.ancestor)
    BY <1>2 DEF HistoryInv, repoVars
  <1>3. CASE Command /\ ReadAncestor
    <2>1. facts'.ancestor => tip \in ReachIn(history, base)
      <3>1. PICK a \in BOOLEAN : facts' = [facts EXCEPT !.ancestor = IsAncestor(a)]
        BY <1>3 DEF ReadAncestor, Ask
      <3> QED BY <3>1, ReachesAre DEF IsAncestor, ShapeInv
    <2> QED BY <1>3, <2>1 DEF Command, ReadAncestor, HistoryInv, repoVars
  <1>4. CASE Command /\ ~ReadAncestor
    <2>1. UNCHANGED <<repoVars, first>>
      BY <1>4 DEF Command, readVars, ReadHerdr, ReadDirty, ReadTrunk, ReadUpstream, LookupPR, PlanPrune,
         RecheckDirty, RecheckHolder, RemoveIt
    <2>2. facts'.ancestor = facts.ancestor
      BY <1>4 DEF Command, readVars, Ask, ReadHerdr, ReadDirty, ReadTrunk, ReadUpstream, LookupPR,
         PlanPrune, RecheckDirty, RecheckHolder, RemoveIt, ShapeInv
    <2>3. at' \in Asked => at \in Asked
      BY <1>4 DEF Command, Ask, ReadHerdr, ReadDirty, ReadTrunk, ReadUpstream, LookupPR, PlanPrune,
         RecheckDirty, RecheckHolder, RemoveIt, Asked, Rooted, Looked, DialStep, DialNamed,
         ListSessions, DialNext, Conclude, Resolve
    <2> QED BY <1>2, <2>1, <2>2, <2>3
  <1>5. CASE Elsewhere \/ UNCHANGED machineVars
    BY <1>1, <1>2, <1>5 DEF Elsewhere, readVars, machineVars
  <1> QED BY <1>3, <1>4, <1>5 DEF DegradedNext

-----------------------------------------------------------------------------
(* Which pull request counts *)

\* What GhPRLookup has after each of the first n it was listed.
Passed(list, dated, f, n) ==
  /\ f = [i \in 1..n |-> f[i]]
  /\ \A i \in 1..n :
       f[i] = IF i = 1 \/ Supersedes(list[i], f[i-1], dated) THEN list[i] ELSE f[i-1]

\* GhPRLookup passes along a list of any length.
LEMMA Passes ==
  ASSUME NEW list, NEW dated
  PROVE  \A n \in Nat : \E f : Passed(list, dated, f, n)
  <1> DEFINE Less == OpToRel(<, Nat)
             bad  == {n \in Nat : ~\E f : Passed(list, dated, f, n)}
  <1> SUFFICES ASSUME bad # {} PROVE FALSE
    OBVIOUS
  <1>1. IsWellFoundedOn(Less, Nat)
    BY NatLessThanWellFounded
  <1>2. \A x, y \in Nat : x < y => <<x, y>> \in Less
    BY DEF OpToRel
  <1> HIDE DEF Less
  <1>3. PICK n \in bad : \A y \in bad : ~(<<y, n>> \in Less)
    BY <1>1, WFMin
  <1>4. n \in Nat /\ \A y \in Nat : y < n => \E f : Passed(list, dated, f, y)
    BY <1>2, <1>3
  <1>5. Passed(list, dated, [i \in 1..0 |-> list], 0)
    BY DEF Passed
  <1>6. n # 0
    BY <1>3, <1>5
  <1>7. PICK f : Passed(list, dated, f, n-1)
    BY <1>4, <1>6
  <1> DEFINE value == IF n = 1 \/ Supersedes(list[n], f[n-1], dated) THEN list[n] ELSE f[n-1]
             g     == [i \in 1..n |-> IF i = n THEN value ELSE f[i]]
  <1>8. \A i \in 1..n : i # n => i \in 1..(n-1) /\ (i # 1 => i - 1 \in 1..n /\ i - 1 # n)
    BY <1>4
  <1>9. g = [i \in 1..n |-> g[i]] /\ (\A i \in 1..n : i # n => g[i] = f[i]) /\ g[n] = value
    BY <1>4, <1>6
  <1>10. n # 1 => g[n-1] = f[n-1]
    BY <1>4, <1>6
  <1> HIDE DEF g
  <1>11. \A i \in 1..n : i # n =>
           g[i] = IF i = 1 \/ Supersedes(list[i], g[i-1], dated) THEN list[i] ELSE g[i-1]
    BY <1>7, <1>8, <1>9 DEF Passed
  <1>12. g[n] = IF n = 1 \/ Supersedes(list[n], g[n-1], dated) THEN list[n] ELSE g[n-1]
    BY <1>9, <1>10
  <1>13. Passed(list, dated, g, n)
    BY <1>9, <1>11, <1>12 DEF Passed
  <1> QED BY <1>3, <1>13

\* Past a closed one nothing is newer than, what it has is not a merged one.
LEMMA ClosedStays ==
  ASSUME NEW n \in Nat, NEW list \in [1..n -> [at : Nat, state : {"CLOSED", "MERGED"}]],
         NEW dated \in BOOLEAN, NEW f, Passed(list, dated, f, n),
         NEW m \in 1..n, list[m].state = "CLOSED", \A i \in 1..n : list[i].at <= list[m].at
  PROVE  f[n].state # "MERGED"
  <1> DEFINE PR == [at : Nat, state : {"CLOSED", "MERGED"}]
             Less == OpToRel(<, Nat)
             Good(k) == /\ f[k] \in PR /\ f[k].at <= list[m].at
                        /\ k >= m => f[k].state # "MERGED" /\ (dated => f[k].at = list[m].at)
             bad  == {k \in 1..n : ~Good(k)}
  <1>1. ASSUME bad # {} PROVE FALSE
    <2>1. IsWellFoundedOn(Less, Nat)
      BY NatLessThanWellFounded
    <2>2. \A x, y \in Nat : x < y => <<x, y>> \in Less
      BY DEF OpToRel
    <2>3. bad \subseteq Nat
      OBVIOUS
    <2> HIDE DEF Less
    <2>4. PICK k \in bad : \A y \in bad : ~(<<y, k>> \in Less)
      BY <1>1, <2>1, <2>3, WFMin
    <2>5. k \in 1..n /\ ~Good(k)
      BY <2>4
    <2>6. k # 1 => k - 1 \in 1..n /\ Good(k-1)
      <3>1. k # 1 => k - 1 \in 1..n /\ k - 1 < k
        BY <2>5
      <3> HIDE DEF Good
      <3> QED BY <2>2, <2>3, <2>4, <2>5, <3>1
    <2>7. f[k] = IF k = 1 \/ Supersedes(list[k], f[k-1], dated) THEN list[k] ELSE f[k-1]
      BY <2>5 DEF Passed
    <2>8. list[k] \in PR /\ list[m] \in PR /\ list[k].at <= list[m].at
      BY <2>5
    <2>9. CASE k = m
      BY <2>5, <2>6, <2>7, <2>8, <2>9 DEF Supersedes
    <2>10. CASE k # m
      BY <2>5, <2>6, <2>7, <2>8, <2>10 DEF Supersedes
    <2> QED BY <2>9, <2>10
  <1>2. Good(n)
    <2>1. n \in 1..n
      OBVIOUS
    <2> QED BY <1>1, <2>1
  <1> QED BY <1>2

\* What GhPRLookup answers merged for: a list with no open one, whose latest is merged.
LEMMA LookupIs ==
  ASSUME NEW n \in Nat, NEW list \in [1..n -> [at : Nat, state : {"OPEN", "CLOSED", "MERGED"}]],
         NEW dated \in BOOLEAN, GhPRLookup(list, dated) = "MERGED"
  PROVE  /\ n > 0 /\ \A i \in 1..n : list[i].state # "OPEN"
         /\ \A m \in 1..n : (\A i \in 1..n : list[i].at <= list[m].at) => list[m].state = "MERGED"
  <1> DEFINE latest == CHOOSE f : f = [i \in DOMAIN list |->
                         IF i = 1 \/ Supersedes(list[i], f[i-1], dated) THEN list[i] ELSE f[i-1]]
  <1>1. DOMAIN list = 1..n /\ Len(list) = n
    OBVIOUS
  <1>2. /\ list # <<>> /\ ~\E pr \in Range(list) : pr.state = "OPEN"
        /\ latest[Len(list)].state = "MERGED"
    BY DEF GhPRLookup
  <1>3. n > 0 /\ \A i \in 1..n : list[i].state # "OPEN"
    BY <1>1, <1>2 DEF Range
  <1>4. PICK f : Passed(list, dated, f, n)
    BY Passes
  <1>5. f = [i \in 1..n |-> f[i]]
    BY <1>4 DEF Passed
  <1>6. latest = [i \in DOMAIN list |->
           IF i = 1 \/ Supersedes(list[i], latest[i-1], dated) THEN list[i] ELSE latest[i-1]]
    <2> DEFINE Body(h) == [i \in DOMAIN list |->
                 IF i = 1 \/ Supersedes(list[i], h[i-1], dated) THEN list[i] ELSE h[i-1]]
    <2>1. f = Body(f)
      BY <1>1, <1>4, <1>5 DEF Passed
    <2>2. latest = CHOOSE h : h = Body(h)
      OBVIOUS
    <2> HIDE DEF Body, latest
    <2>3. latest = Body(latest)
      BY <2>1, <2>2
    <2> QED BY <2>3 DEF Body
  <1> HIDE DEF latest
  <1>7. Passed(list, dated, latest, n)
    BY <1>1, <1>6 DEF Passed
  <1>8. list \in [1..n -> [at : Nat, state : {"CLOSED", "MERGED"}]]
    BY <1>3
  <1>9. ASSUME NEW m \in 1..n, \A i \in 1..n : list[i].at <= list[m].at
        PROVE  list[m].state = "MERGED"
    BY <1>1, <1>2, <1>7, <1>8, <1>9, ClosedStays
  <1> QED BY <1>3, <1>9

\* Whatever order gh lists them in, what is answered for merged is the newest.
LEMMA MergedIsNewest ==
  ASSUME Dated(prs), NEW answered \in BOOLEAN, NEW dated \in BOOLEAN,
         "MERGED" \in GhPRState(answered, dated)
  PROVE  prs # <<>> /\ prs[Len(prs)].state = "MERGED" /\ NoneOpen
  <1> DEFINE n == Len(prs)
  <1>1. n \in Nat /\ DOMAIN prs = 1..n /\ prs \in [1..n -> PullRequests]
    BY DEF Dated
  <1>2. PICK list \in Listings : GhPRLookup(list, dated) = "MERGED"
    BY DEF GhPRState
  <1>3. PICK order \in Bijection(DOMAIN prs, DOMAIN prs) : list = [i \in DOMAIN prs |-> prs[order[i]]]
    BY <1>2 DEF Listings
  <1>4. order \in [1..n -> 1..n] /\ \A k \in 1..n : \E i \in 1..n : order[i] = k
    BY <1>1, <1>3 DEF Bijection, Injection, Surjection
  <1>5. /\ list \in [1..n -> PullRequests]
        /\ \A i \in 1..n : list[i] = prs[order[i]]
    BY <1>1, <1>3, <1>4
  <1> HIDE DEF n
  <1>6. /\ n > 0 /\ \A i \in 1..n : list[i].state # "OPEN"
        /\ \A m \in 1..n : (\A i \in 1..n : list[i].at <= list[m].at) => list[m].state = "MERGED"
    <2> SUFFICES n \in Nat /\ list \in [1..n -> [at : Nat, state : {"OPEN", "CLOSED", "MERGED"}]]
      BY <1>2, LookupIs
    <2> QED BY <1>1, <1>5 DEF PullRequests
  <1>7. prs[n].state = "MERGED"
    <2>1. n \in 1..n
      BY <1>1, <1>6
    <2>2. PICK m \in 1..n : order[m] = n
      BY <1>4, <2>1
    <2>3. \A i \in 1..n : prs[i].at <= prs[n].at
      BY <1>1, <2>1 DEF Dated
    <2>4. ASSUME NEW i \in 1..n PROVE list[i].at <= list[m].at
      <3>1. order[i] \in 1..n /\ list[i] = prs[order[i]] /\ list[m] = prs[n]
        BY <1>4, <1>5, <2>2
      <3> QED BY <2>3, <3>1
    <2> QED BY <1>5, <1>6, <2>2, <2>4
  <1>8. NoneOpen
    <2>1. ASSUME NEW k \in 1..n PROVE prs[k].state # "OPEN"
      <3>1. PICK i \in 1..n : order[i] = k
        BY <1>4
      <3> QED BY <1>5, <1>6, <3>1
    <2> QED BY <1>1, <2>1 DEF NoneOpen, Open
  <1>9. prs # <<>>
    BY <1>1, <1>6
  <1> QED BY <1>7, <1>8, <1>9 DEF n

\* Pull requests stay in the order of their opening.
LEMMA StepPRs ==
  ASSUME Dated(prs), RepoMoves
  PROVE  Dated(prs')
  <1>0. prs \in Seq(PullRequests) /\ Len(prs) \in Nat /\ DOMAIN prs = 1..Len(prs)
        /\ \A i \in DOMAIN prs : prs[i] \in PullRequests
    BY DEF Dated
  <1>1. CASE UNCHANGED prs
    BY <1>1
  <1>2. ASSUME NEW i \in DOMAIN prs, NEW new \in {"OPEN", "MERGED", "CLOSED"}, Becomes(i, new)
        PROVE  Dated(prs')
    <2>1. prs' = [prs EXCEPT ![i].state = new]
      BY <1>2 DEF Becomes
    <2>2. prs' \in Seq(PullRequests) /\ DOMAIN prs' = DOMAIN prs
      <3> DEFINE changed == [prs[i] EXCEPT !.state = new]
      <3>1. changed \in PullRequests
        BY <1>0 DEF PullRequests
      <3>2. prs' = [prs EXCEPT ![i] = changed]
        BY <2>1
      <3> HIDE DEF changed
      <3> QED BY <1>0, <3>1, <3>2
    <2>3. \A j \in DOMAIN prs : prs'[j].at = prs[j].at
      BY <1>0, <2>1 DEF PullRequests
    <2> QED BY <2>2, <2>3 DEF Dated
  <1>3. CASE OpenPR
    <2> DEFINE last == IF prs = <<>> THEN 1 ELSE prs[Len(prs)].at
    <2>1. PICK when \in {last, last + 1} : prs' = Append(prs, [state |-> "OPEN", at |-> when])
      BY <1>3 DEF OpenPR
    <2>2. last \in Nat /\ \A i \in DOMAIN prs : prs[i].at <= last
      BY <1>0 DEF Dated, PullRequests
    <2> HIDE DEF last
    <2>3. when \in Nat /\ last <= when
      BY <2>2
    <2> DEFINE pr == [state |-> "OPEN", at |-> when]
    <2>4. pr \in PullRequests /\ pr.at = when
      BY <2>3 DEF PullRequests
    <2> HIDE DEF pr
    <2>5. prs' = Append(prs, pr)
      BY <2>1 DEF pr
    <2>6. prs' \in Seq(PullRequests) /\ Len(prs') = Len(prs) + 1 /\ DOMAIN prs' = 1..(Len(prs) + 1)
          /\ prs'[Len(prs) + 1] = pr /\ \A i \in DOMAIN prs : prs'[i] = prs[i]
      BY <1>0, <2>4, <2>5
    <2>7. ASSUME NEW i \in DOMAIN prs', NEW j \in DOMAIN prs', i <= j PROVE prs'[i].at <= prs'[j].at
      <3>1. CASE j \in DOMAIN prs
        BY <1>0, <2>6, <2>7, <3>1 DEF Dated
      <3>2. CASE j = Len(prs) + 1 /\ i \in DOMAIN prs
        <4>1. prs[i].at \in Nat /\ prs[i].at <= last
          BY <1>0, <2>2, <3>2 DEF PullRequests
        <4> QED BY <2>2, <2>3, <2>4, <2>6, <3>2, <4>1
      <3>3. CASE i = j
        <4>1. prs'[i] \in PullRequests
          BY <1>0, <2>4, <2>6
        <4>2. prs'[i].at \in Nat
          BY <4>1 DEF PullRequests
        <4> QED BY <3>3, <4>2
      <3> QED BY <1>0, <2>6, <2>7, <3>1, <3>2, <3>3
    <2> QED BY <2>6, <2>7 DEF Dated
  <1>4. CASE Land \/ ClosePR \/ ReopenPR
    BY <1>1, <1>2, <1>4 DEF Land, ClosePR, ReopenPR
  <1> QED BY <1>1, <1>3, <1>4 DEF RepoMoves, EditFiles, CommitWork, PushBranch, DeleteRemote, FetchAll,
       OtherLands

\* What prune-apply decides on is a merge, from the plan to the removal.
LEMMA StepEvidence ==
  ASSUME ShapeInv, EvidenceInv, [DegradedNext]_<<stateVars, machineVars>>
  PROVE  EvidenceInv'
  <1>1. CASE RepoMoves /\ UNCHANGED <<at, facts, merged>>
    BY <1>1, StepPRs DEF EvidenceInv
  <1>2. CASE UNCHANGED <<prs, merged, facts>> /\ (at' \in Decided => at \in Decided)
             /\ (at' = "plan" => at = "plan")
    BY <1>2 DEF EvidenceInv
  <1>3. CASE at' \notin {"plan"} \cup Decided /\ UNCHANGED prs
    BY <1>3 DEF EvidenceInv
  <1>4. CASE Command /\ LookupPR
    <2> DEFINE Answers == UNION {GhPRState(a, d) : a, d \in BOOLEAN}
    <2>b. \A x \in Answers : \E a, d \in BOOLEAN : x \in GhPRState(a, d)
      OBVIOUS
    <2>a. Ask("pr", "pr", Answers, "plan") /\ merged' = (prs # <<>> /\ prs[Len(prs)].state = "MERGED" /\ NoneOpen)
      BY <1>4 DEF LookupPR
    <2> HIDE DEF Answers
    <2>1. PICK x \in Answers : facts' = [facts EXCEPT !.pr = x]
      BY <2>a DEF Ask
    <2>2. PICK a \in BOOLEAN, d \in BOOLEAN : x \in GhPRState(a, d)
      BY <2>b
    <2>3. facts'.pr = x
      BY <2>1 DEF ShapeInv
    <2>4. facts'.pr = "MERGED" => merged'
      BY <2>a, <2>2, <2>3, MergedIsNewest DEF EvidenceInv
    <2>5. prs' = prs /\ at' = "plan"
      BY <1>4, <2>a DEF Command, Ask, LookupPR, DialStep, ReadHerdr, ReadDirty, ReadAncestor, ReadTrunk,
         ReadUpstream, RecheckDirty, RecheckHolder, RemoveIt, PlanPrune, repoVars
    <2> QED BY <2>4, <2>5 DEF Decided, EvidenceInv
  <1>5. CASE Command /\ PlanPrune
    <2>1. CASE at' = "over"
      BY <1>3, <1>5, <2>1 DEF Command, repoVars, Decided
    <2>2. CASE Removing(state')
      <3>0. state' = Collected /\ IsState(state')
        BY <1>5, StepShape DEF PlanPrune, ShapeInv
      <3> DEFINE linked == [Main EXCEPT !.path = Path, !.branch = Name, !.linked = TRUE,
                              !.workspace = IF facts.hosts THEN Space ELSE NoWS,
                              !.dirty = facts.dirty, !.merged = facts.ancestor /\ facts.off,
                              !.gone = facts.gone, !.pr = facts.pr]
      <3>1. state'.worktrees = <<Main, linked>>
        BY <3>0, SnapshotAssumption DEF Collected, IsState
      <3>2. /\ linked.merged = (facts.ancestor /\ facts.off) /\ linked.pr = facts.pr
        BY SnapshotAssumption
      <3> HIDE DEF linked
      <3>3. Range(state'.worktrees) = {Main, linked}
        BY <3>1 DEF Range
      <3>4. PICK w \in Range(state'.worktrees) : Removable(state', w) /\ w.path = Path
        BY <2>2, <3>0, RemovalsAre DEF Removing
      <3>5. w = linked
        BY <3>3, <3>4, SnapshotAssumption
      <3>6. Landed(linked)
        BY <3>4, <3>5 DEF Removable, Spared
      <3>7. facts.pr = "MERGED" \/ (facts.pr = "" /\ facts.ancestor)
        BY <3>2, <3>6 DEF Landed
      <3> QED BY <1>5, <3>7 DEF Command, PlanPrune, readVars, repoVars, EvidenceInv, Decided
    <2> QED BY <1>5, <2>1, <2>2 DEF PlanPrune
  <1>6. CASE Command /\ (RecheckDirty \/ RecheckHolder \/ RemoveIt)
    BY <1>2, <1>6 DEF Command, RecheckDirty, RecheckHolder, RemoveIt, readVars, repoVars, Decided
  <1>7. CASE Command /\ (DialStep \/ ReadHerdr \/ ReadDirty \/ ReadAncestor \/ ReadTrunk \/ ReadUpstream)
    <2>1. at' \notin {"plan"} \cup Decided
      BY <1>7 DEF DialStep, DialNamed, ListSessions, DialNext, Conclude, Resolve, ReadHerdr, Ask,
         ReadDirty, ReadAncestor, ReadTrunk, ReadUpstream, Decided
    <2> QED BY <1>3, <1>7, <2>1 DEF Command, repoVars
  <1>8. CASE Elsewhere \/ UNCHANGED machineVars
    BY <1>1, <1>2, <1>8 DEF Elsewhere, readVars, machineVars, repoVars
  <1> QED BY <1>4, <1>5, <1>6, <1>7, <1>8 DEF DegradedNext, Command

-----------------------------------------------------------------------------
(* Theorems *)

\* The invariant is inductive.
LEMMA CommandSteps == CommandInv /\ [DegradedNext]_<<stateVars, machineVars>> => CommandInv'
  <1> SUFFICES ASSUME CommandInv, [DegradedNext]_<<stateVars, machineVars>> PROVE CommandInv'
    OBVIOUS
  <1> QED BY StepShape, StepSession, StepDial, StepRoot, StepHistory, StepEvidence DEF CommandInv

\* What is invariant of the planner's States and of prune-apply.
THEOREM CommandInvariance == DegradedSpec => []CommandInv
  BY CommandStarts, CommandSteps, PTL DEF DegradedSpec

\* Nothing falls out of a plan: every linked checkout is kept or removed once, and every
\* workspace that outlived its checkout is named or closed once (ReconcileState).
THEOREM PlansAreWhole == DegradedSpec => []EverythingAnswered
  <1>1. CommandInv => EverythingAnswered
    BY AllAnswered DEF CommandInv, ShapeInv
  <1> QED BY <1>1, CommandInvariance, PTL

\* A fact that speaks for keeping never adds a removal to the plan (verdict, closable).
THEOREM DoubtSpares == DegradedSpec => DoubtRemovesNothing
  <1>1. CommandInv => [Doubt => Removals(state') \subseteq Removals(state)]_stateVars
    BY DoubtKeeps DEF CommandInv, ShapeInv
  <1> QED BY <1>1, CommandInvariance, PTL DEF DoubtRemovesNothing

\* A plan that was carried out leaves nothing to start or to remove.
THEOREM PlansSettle == DegradedSpec => Idempotent
  <1>1. CommandInv =>
          [Perform => {a \in Range(ReconcileState(state')) : a.kind \in {"staff", "prune"}} = {}]_stateVars
    BY NothingLeft DEF CommandInv, ShapeInv, Perform
  <1> QED BY <1>1, CommandInvariance, PTL DEF Idempotent

\* prune-apply removes no checkout under an agent that has been there all along, but of
\* a session it was told not to ask, or that kept silent beside one that answered, or
\* whose folder it could not read (Probe, pruneBlocked).
THEOREM GroundSpared == DegradedSpec => []GroundIsSpared
  <1>1. CommandInv => GroundIsSpared
    <2> SUFFICES ASSUME CommandInv, at = "removed", NEW s \in there
                 PROVE  \/ client # NoSession /\ s # client /\ (client = call.named \/ s \in mute)
                        \/ s # Default /\ s \notin live \cup mute /\ call.named # s
      BY DEF GroundIsSpared
    <2>1. NoSession \notin Session
      BY EndpointAssumption DEF Session
    <2>2. (client # NoSession => client \notin there) /\ live \subseteq Session
      BY DEF CommandInv, DialInv
    <2>3. \/ client = call.named /\ client # NoSession
          \/ /\ call.named \notin there
             /\ Default \in there => Default \in live \cup mute
             /\ live = {client} \/ (live = {} /\ mute = {} /\ client = NoSession)
      BY DEF CommandInv, DialInv, Looked
    <2> QED BY <2>1, <2>2, <2>3
  <1> QED BY <1>1, CommandInvariance, PTL

\* prune-apply removes a checkout in the repository it was called for, but where herdr
\* called it, told it nothing and was gone; and only on a merge (newSession, GhPRLookup,
\* IsMergedInto).
THEOREM RemovalMeant == DegradedSpec => []RemovalIsMeant
  <1>1. CommandInv => RemovalIsMeant
    <2> SUFFICES ASSUME CommandInv, at = "removed"
                 PROVE  /\ Root = "meant" \/ (client = NoSession /\ call.context = "noDir")
                        /\ IF facts.pr = "" THEN Changes(first) \subseteq Changes(trunk) ELSE merged
      BY DEF RemovalIsMeant
    <2>1. Root = "meant" \/ (client = NoSession /\ call.context = "noDir")
      BY DEF CommandInv, ShapeInv, RootInv, Rooted, Looked, Root, Told, Calls
    <2>2. facts.pr # "" => merged
      BY DEF CommandInv, EvidenceInv, Decided
    <2>3. ASSUME facts.pr = "" PROVE Changes(first) \subseteq Changes(trunk)
      <3>1. facts.ancestor
        BY <2>3 DEF CommandInv, EvidenceInv, Decided
      <3>2. first \in ReachIn(history, base) /\ base \in ReachIn(history, trunk)
        BY <3>1 DEF CommandInv, HistoryInv, Asked, Rooted, Looked
      <3>3. ReachIn(history, first) \subseteq ReachIn(history, trunk)
        BY <3>2, ReachOn
      <3> QED BY <3>3, ReachesAre DEF Changes
    <2> QED BY <2>1, <2>2, <2>3
  <1> QED BY <1>1, CommandInvariance, PTL

=============================================================================
