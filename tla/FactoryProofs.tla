---------------------------- MODULE FactoryProofs ----------------------------
(***************************************************************************)
(* Theorems about Factory for any machines and issues, any --max, every set  *)
(* of faults and any number of moves of other people.                        *)
(***************************************************************************)
EXTENDS Factory, FiniteSetTheorems, WellFoundedInduction, TLAPS

Starting == {"issue", "create", "staff", "brief", "giveBack", "swap"}

\* The briefed workers that hold a slot, and the one that is about to be.
Held(h) == {i \in Live(h) \ reported[h] : <<h, i>> \notin unbriefed}
Coming(h) == IF at[h] = "brief" THEN {Current(h)} ELSE {}

-----------------------------------------------------------------------------
(* The inductive invariants *)

\* A pass that starts an issue has one, and a slot for its worker.
QueueInv ==
  \A h \in Host :
    /\ at[h] \in Starting \cup {"claim"} => pass[h].queue # {}
    /\ at[h] \in {"claim", "issue", "create", "staff", "brief"} => pass[h].free >= 1

\* Whoever starts an issue, or has a checkout for it, has the claim on it, unless the
\* claim was cleared from under it.
ClaimInv ==
  \A i \in Issue \ swept :
    /\ \A h \in Host : at[h] \in Starting /\ Current(h) = i => claim[i] = h
    /\ made[i] \subseteq {claim[i]}

MadeInv == \A i \in Issue : \A h \in made[i] : i \in open /\ i \in branch[h]

\* A start that has come as far as the brief has left a branch, or something else has
\* happened to the issue since.
BoardInv ==
  \A h \in Host : at[h] \in {"brief", "swap"} => Current(h) \notin open \ leftover \/ Working(h, Current(h))

\* What a pass believes is free is free, whoever has died since it looked.
SlotInv ==
  \A h \in Host :
    /\ at[h] = "reports" => Live(h) \subseteq pass[h].live
    /\ at[h] \in {"list", "names", "look", "claim"} \cup Starting =>
         Cardinality(Held(h) \ Coming(h)) + pass[h].free <= MaxWorkers

IInv ==
  /\ TypeOK /\ QueueInv /\ ClaimInv /\ MadeInv /\ BoardInv /\ SlotInv
  /\ ClaimsStandForWork /\ CapKept

-----------------------------------------------------------------------------
USE FactoryAssumption

LEMMA OldestIsIn ==
  ASSUME NEW S, S \subseteq Issue, S # {}
  PROVE  Oldest(S) \in S
  <1> DEFINE Less == OpToRel(<, Nat)
  <1>1. IsWellFoundedOn(Less, Nat)
    BY NatLessThanWellFounded
  <1>2. S \subseteq Nat
    OBVIOUS
  <1>3. \A x, y \in Nat : x < y => <<x, y>> \in Less
    BY DEF OpToRel
  <1> HIDE DEF Less
  <1>4. PICK x \in S : \A y \in S : ~(<<y, x>> \in Less)
    BY <1>1, <1>2, WFMin
  <1>5. ASSUME NEW y \in S PROVE x <= y
    <2>1. x \in Nat /\ y \in Nat
      BY <1>2
    <2>2. ~(y < x)
      BY <1>3, <1>4, <2>1
    <2> QED BY <2>1, <2>2
  <1> QED BY <1>4, <1>5 DEF Oldest

-----------------------------------------------------------------------------
(* A step of a pass, and what it remembers *)

\* A step of a pass moves that pass, and it knows what it works on.
Own(h) ==
  /\ at' = [at EXCEPT ![h] = at'[h]] /\ pass' = [pass EXCEPT ![h] = pass'[h]]
  /\ at'[h] \in Labels /\ pass'[h] \in Passes
  /\ at'[h] \in Starting \cup {"claim"} => pass'[h].queue # {}
  /\ at'[h] \in {"claim", "issue", "create", "staff", "brief"} => pass'[h].free >= 1

LEMMA FreshPass == Fresh \in Passes
  BY DEF Fresh, Passes

LEMMA CurrentIn ==
  ASSUME TypeOK, QueueInv, NEW h \in Host, at[h] \in Starting \cup {"claim"}
  PROVE  Current(h) \in pass[h].queue /\ Current(h) \in Issue
  BY OldestIsIn DEF QueueInv, TypeOK, Passes, Current

LEMMA OwnStep ==
  ASSUME TypeOK, QueueInv, NEW h \in Host, Step(h) \/ Crash(h)
  PROVE  Own(h)
  <1>0. pass[h] \in Passes /\ at \in [Host -> Labels] /\ pass \in [Host -> Passes]
    BY DEF TypeOK
  <1> USE FreshPass, <1>0 DEF Own, Goto, Keep, Over, Failed, NextIssue, GoOn, Labels, Starting
  <1>1. CASE Begin(h) \/ CheckMain(h)
    BY <1>1 DEF Begin, CheckMain
  <1>2. CASE ListClosed(h)
    <2>1. [Fresh EXCEPT !.todo = inProgress \ open] \in Passes
      BY DEF Fresh, Passes, TypeOK
    <2> QED BY <1>2, <2>1 DEF ListClosed
  <1>3. CASE ReleaseClosed(h)
    BY <1>3 DEF ReleaseClosed
  <1>4. CASE Unlabel(h)
    <2>1. [pass[h] EXCEPT !.todo = @ \ {Oldest(pass[h].todo)}] \in Passes
      BY DEF Passes
    <2> QED BY <1>4, <2>1 DEF Unlabel
  <1>5. CASE ListRows(h)
    <2>1. [pass[h] EXCEPT !.live = Live(h), !.names = branch[h]] \in Passes
      BY DEF Passes, TypeOK, Live
    <2> QED BY <1>5, <2>1 DEF ListRows
  <1>7. CASE ListReady(h)
    <2>1. [pass[h] EXCEPT !.queue = open \cap ready, !.labelled = open \cap ready \cap inProgress] \in Passes
      BY DEF Passes, TypeOK
    <2> QED BY <1>7, <2>1 DEF ListReady
  <1>8. CASE ReadNames(h)
    <2>1. [pass[h] EXCEPT !.names = @ \cup branch[h] \cup remote[h]] \in Passes
      BY DEF Passes, TypeOK
    <2> QED BY <1>8, <2>1 DEF ReadNames
  <1>9. [pass[h] EXCEPT !.queue = @ \ {Current(h)}, !.code = 0] \in Passes
    BY DEF Passes
  <1>10. CASE Look(h)
    <2>1. pass[h].free # 0 => pass[h].free >= 1
      BY DEF Passes
    <2> QED BY <1>9, <1>10, <2>1 DEF Look
  <1>11. CASE Claim(h)
    BY <1>9, <1>11 DEF Claim, QueueInv
  <1>12. \A code \in {2, 3} : /\ [pass[h] EXCEPT !.code = code] \in Passes
                              /\ [pass[h] EXCEPT !.code = code].queue = pass[h].queue
    BY DEF Passes
  <1>13. CASE ReadIssue(h)
    BY <1>12, <1>13 DEF ReadIssue, QueueInv
  <1>14. CASE Create(h)
    BY <1>12, <1>14 DEF Create, QueueInv
  <1>15. CASE Staff(h)
    BY <1>12, <1>15, ZenonT(60) DEF Staff, QueueInv
  <1>16. CASE Brief(h)
    <2>1. at[h] = "brief" /\ pass[h].queue # {} /\ pass[h].free >= 1
      BY <1>16 DEF Brief, QueueInv
    <2>2. /\ [pass[h] EXCEPT !.free = @ - 1] \in Passes
          /\ [pass[h] EXCEPT !.free = @ - 1].queue = pass[h].queue
      BY <2>1 DEF Passes
    <2> QED BY <1>12, <1>16, <2>1, <2>2, ZenonT(60) DEF Brief
  <1>17. CASE GiveBack(h)
    BY <1>9, <1>17 DEF GiveBack
  <1>18. CASE SwapLabel(h)
    BY <1>9, <1>18 DEF SwapLabel
  <1>19. CASE Crash(h)
    BY <1>19 DEF Crash
  <1>20. CASE ReadReports(h)
    <2>1. ASSUME NEW unread \in SUBSET pass[h].live, Cardinality(SlotsHeld(h, unread)) < MaxWorkers
          PROVE  [pass[h] EXCEPT !.free = MaxWorkers - Cardinality(SlotsHeld(h, unread)), !.live = {}] \in Passes
      <3>1. IsFiniteSet(SlotsHeld(h, unread))
        BY FS_Subset DEF SlotsHeld, Passes
      <3>2. Cardinality(SlotsHeld(h, unread)) \in Nat
        BY <3>1, FS_CardinalityType
      <3>3. MaxWorkers - Cardinality(SlotsHeld(h, unread)) \in 0..MaxWorkers
        BY <2>1, <3>2
      <3> QED BY <3>3 DEF Passes
    <2>2. PICK unread \in SUBSET pass[h].live :
            IF Cardinality(SlotsHeld(h, unread)) >= MaxWorkers
            THEN Over(h)
            ELSE /\ Keep(h, [pass[h] EXCEPT !.free = MaxWorkers - Cardinality(SlotsHeld(h, unread)),
                                            !.live = {}])
                 /\ Goto(h, "list")
      BY <1>20 DEF ReadReports
    <2>3. CASE Cardinality(SlotsHeld(h, unread)) >= MaxWorkers
      BY <2>2, <2>3
    <2>4. CASE ~(Cardinality(SlotsHeld(h, unread)) >= MaxWorkers)
      <3>1. IsFiniteSet(SlotsHeld(h, unread))
        BY FS_Subset DEF SlotsHeld, Passes
      <3>2. Cardinality(SlotsHeld(h, unread)) < MaxWorkers
        BY <2>4, <3>1, FS_CardinalityType
      <3>3. [pass[h] EXCEPT !.free = MaxWorkers - Cardinality(SlotsHeld(h, unread)), !.live = {}] \in Passes
        BY <2>1, <3>2
      <3> QED BY <2>2, <2>4, <3>3
    <2> QED BY <2>3, <2>4
  <1> QED BY <1>1, <1>2, <1>3, <1>4, <1>5, <1>7, <1>8, <1>10, <1>11, <1>13, <1>14, <1>15, <1>16,
             <1>17, <1>18, <1>19, <1>20 DEF Step

-----------------------------------------------------------------------------
(* Types *)

Looking(h) ==
  \/ Begin(h) \/ ListClosed(h) \/ CheckMain(h) \/ ListRows(h) \/ ReadReports(h) \/ ListReady(h)
  \/ ReadNames(h) \/ Look(h) \/ ReadIssue(h)

LEMMA LookingReads == ASSUME NEW h \in Host, Looking(h) PROVE Reading
  BY DEF Looking, Begin, ListClosed, CheckMain, ListRows, ReadReports, ListReady, ReadNames, Look, ReadIssue

\* What a type invariant says of everything but the passes.
ThingsOK ==
  /\ open \subseteq Issue /\ ready \subseteq Issue /\ inProgress \subseteq Issue /\ approved \subseteq Issue
  /\ claim \in [Issue -> Host \cup {Nobody}]
  /\ branch \in [Host -> SUBSET Issue] /\ remote \in [Host -> SUBSET Issue]
  /\ agent \in [Host -> [Issue -> {"none", "idle", "working"}]]
  /\ reported \in [Host -> SUBSET Issue]
  /\ \A h \in Host : Live(h) \subseteq branch[h] /\ reported[h] \subseteq Live(h)
  /\ made \in [Issue -> SUBSET Host] /\ unbriefed \subseteq Host \X Issue
  /\ leftover \subseteq Issue /\ swept \subseteq Issue

\* An agent that comes up has a checkout.
LEMMA AgentUp ==
  ASSUME TypeOK, NEW h \in Host, NEW i \in branch[h], NEW s \in {"idle", "working"},
         agent' = [agent EXCEPT ![h][i] = s], UNCHANGED <<branch, reported>>
  PROVE  /\ agent' \in [Host -> [Issue -> {"none", "idle", "working"}]]
         /\ \A g \in Host : Live(g)' \subseteq branch'[g] /\ reported'[g] \subseteq Live(g)'
         /\ \A g \in Host : Live(g) \subseteq Live(g)'
  <1>1. i \in Issue /\ agent \in [Host -> [Issue -> {"none", "idle", "working"}]]
    BY DEF TypeOK
  <1>2. agent' \in [Host -> [Issue -> {"none", "idle", "working"}]]
    BY <1>1
  <1>3. \A g \in Host, j \in Issue : agent'[g][j] = IF g = h /\ j = i THEN s ELSE agent[g][j]
    BY <1>1
  <1>4. \A g \in Host : Live(g)' = IF g = h THEN Live(g) \cup {i} ELSE Live(g)
    BY <1>1, <1>3 DEF Live
  <1> QED BY <1>2, <1>4, SMTT(30) DEF TypeOK

LEMMA ThingsOfSteps ==
  ASSUME TypeOK, QueueInv, NEW h \in Host, Step(h) \/ Crash(h)
  PROVE  ThingsOK'
  <1> USE DEF TypeOK, ThingsOK, Live, boardVars, hostVars, historyVars
  <1>1. CASE Looking(h)
    BY <1>1, LookingReads, ZenonT(60) DEF Reading
  <1>2. CASE ReleaseClosed(h)
    <2>1. CASE pass[h].todo = {}
      BY <1>2, <2>1 DEF ReleaseClosed
    <2>2. CASE pass[h].todo # {}
      <3>1. Oldest(pass[h].todo) \in Issue
        <4>1. pass[h].todo \subseteq Issue
          BY DEF Passes
        <4> QED BY <2>2, <4>1, OldestIsIn
      <3>2. claim' \in {claim, [claim EXCEPT ![Oldest(pass[h].todo)] = Nobody]}
        BY <1>2, <2>2 DEF ReleaseClosed
      <3>3. swept' \in {swept, swept \cup {Oldest(pass[h].todo)}}
        BY <1>2, <2>2 DEF ReleaseClosed
      <3>4. UNCHANGED <<boardVars, hostVars, made, unbriefed, leftover>>
        BY <1>2 DEF ReleaseClosed
      <3> QED BY <3>1, <3>2, <3>3, <3>4
    <2> QED BY <2>1, <2>2
  <1>3. CASE Unlabel(h)
    BY <1>3 DEF Unlabel
  <1>4. CASE at[h] \in Starting \cup {"claim"}
    <2> DEFINE i == Current(h)
    <2>1. i \in Issue
      BY <1>4, CurrentIn
    <2> HIDE DEF i
    <2>2. CASE Claim(h)
      <3>1. claim' \in {claim, [claim EXCEPT ![i] = IF @ = Nobody THEN h ELSE @]}
        BY <2>2 DEF Claim, i
      <3>2. leftover' \in {leftover, leftover \cup {i}}
        BY <2>2 DEF Claim, i
      <3>3. UNCHANGED <<boardVars, hostVars, made, unbriefed, swept>>
        BY <2>2 DEF Claim
      <3> QED BY <2>1, <3>1, <3>2, <3>3
    <2>3. CASE Create(h)
      <3>1. branch' \in {branch, [branch EXCEPT ![h] = @ \cup {i}]}
        BY <2>3 DEF Create, i
      <3>2. made' \in {made, [made EXCEPT ![i] = @ \cup (IF i \in open THEN {h} ELSE {})]}
        BY <2>3 DEF Create, i
      <3>3. UNCHANGED <<boardVars, claim, remote, agent, reported, unbriefed, leftover, swept>>
        BY <2>3 DEF Create
      <3>4. branch' \in [Host -> SUBSET Issue] /\ \A g \in Host : branch[g] \subseteq branch'[g]
        <4>1. CASE branch' = branch
          BY <4>1
        <4>2. CASE branch' = [branch EXCEPT ![h] = @ \cup {i}]
          <5>1. \A g \in Host : branch'[g] = IF g = h THEN branch[h] \cup {i} ELSE branch[g]
            BY <4>2
          <5> QED BY <2>1, <4>2, <5>1
        <4> QED BY <3>1, <4>1, <4>2
      <3>5. made' \in [Issue -> SUBSET Host]
        BY <2>1, <3>2
      <3> QED BY <3>3, <3>4, <3>5
    <2>4. CASE Staff(h)
      <3>1. agent' = agent \/ (i \in branch[h] /\ agent' = [agent EXCEPT ![h][i] = "idle"])
        BY <2>4 DEF Staff, i
      <3>2. unbriefed' \in {unbriefed, unbriefed \cup {<<h, i>>}}
        BY <2>4 DEF Staff, i
      <3>3. UNCHANGED <<boardVars, claim, branch, remote, reported, made, leftover, swept>>
        BY <2>4 DEF Staff
      <3>4. /\ agent' \in [Host -> [Issue -> {"none", "idle", "working"}]]
            /\ \A g \in Host : Live(g)' \subseteq branch'[g] /\ reported'[g] \subseteq Live(g)'
        BY <2>1, <3>1, <3>3, AgentUp
      <3> QED BY <2>1, <3>2, <3>3, <3>4
    <2>5. CASE Brief(h)
      <3>1. agent' = agent \/ (agent[h][i] # "none" /\ agent' = [agent EXCEPT ![h][i] = "working"])
        BY <2>5 DEF Brief, i
      <3>2. unbriefed' \in {unbriefed, unbriefed \cup {<<h, i>>}}
        BY <2>5 DEF Brief, i
      <3>3. UNCHANGED <<boardVars, claim, branch, remote, reported, made, leftover, swept>>
        BY <2>5 DEF Brief
      <3>4. /\ agent' \in [Host -> [Issue -> {"none", "idle", "working"}]]
            /\ \A g \in Host : Live(g)' \subseteq branch'[g] /\ reported'[g] \subseteq Live(g)'
        BY <2>1, <3>1, <3>3, AgentUp
      <3> QED BY <2>1, <3>2, <3>3, <3>4
    <2>6. CASE GiveBack(h)
      BY <2>1, <2>6, ZenonT(60) DEF GiveBack, i
    <2>7. CASE SwapLabel(h)
      BY <2>1, <2>7 DEF SwapLabel, i
    <2>8. CASE Crash(h)
      BY <2>1, <2>8 DEF Crash, i
    <2> QED BY <1>4, <1>1, <2>2, <2>3, <2>4, <2>5, <2>6, <2>7, <2>8, <1>2, <1>3 DEF Step, Looking
  <1>5. CASE Crash(h) /\ at[h] \notin Starting
    BY <1>5 DEF Crash, Starting
  <1> QED BY <1>1, <1>2, <1>3, <1>4, <1>5
          DEF Step, Looking, Claim, Create, Staff, Brief, GiveBack, SwapLabel, Starting

LEMMA ThingsOfWorld == ASSUME TypeOK, World PROVE ThingsOK'
  <1> USE DEF TypeOK, ThingsOK, boardVars, Elsewhere
  <1>1. ASSUME NEW h \in Host, NEW i \in Issue, Turn(h, i) PROVE ThingsOK'
    <2>1. i \in branch[h]
      BY <1>1 DEF Turn, Live
    <2>2. PICK s \in {"idle", "working"} : agent' = [agent EXCEPT ![h][i] = s]
      BY <1>1 DEF Turn
    <2>3. UNCHANGED <<boardVars, claim, branch, remote, reported, made, unbriefed, leftover, swept>>
      BY <1>1 DEF Turn
    <2> QED BY <2>1, <2>2, <2>3, AgentUp
  <1>2. ASSUME NEW h \in Host, NEW i \in Issue, Finish(h, i) PROVE ThingsOK'
    BY <1>2 DEF Finish, Live
  <1>3. ASSUME NEW h \in Host, NEW i \in Issue, Prune(h, i) \/ Abandon(h, i) \/ AgentEnds(h, i)
        PROVE  ThingsOK'
    <2>1. /\ agent' = [agent EXCEPT ![h][i] = "none"]
          /\ reported' = [reported EXCEPT ![h] = @ \ {i}]
          /\ branch' \in {branch, [branch EXCEPT ![h] = @ \ {i}]}
          /\ made' \in {made, [made EXCEPT ![i] = @ \ {h}]}
          /\ leftover' \in {leftover, leftover \cup {i}}
          /\ UNCHANGED <<boardVars, claim, remote, unbriefed, swept>>
      BY <1>3 DEF Prune, Abandon, AgentEnds
    <2>2. \A g \in Host : Live(g)' = IF g = h THEN Live(g) \ {i} ELSE Live(g)
      BY <2>1 DEF Live
    <2>3. \A g \in Host : Live(g)' \subseteq branch'[g] /\ reported'[g] \subseteq Live(g)'
      BY <2>1, <2>2
    <2>4. agent' \in [Host -> [Issue -> {"none", "idle", "working"}]]
      BY <2>1
    <2>5. branch' \in [Host -> SUBSET Issue] /\ reported' \in [Host -> SUBSET Issue]
      BY <2>1, SMTT(30)
    <2> QED BY <2>1, <2>3, <2>4, <2>5, SMTT(30)
  <1>4. ASSUME NEW i \in Issue, Approve(i) \/ Edit(i) \/ Close(i) \/ Reopen(i) PROVE ThingsOK'
    BY <1>4, ZenonT(60) DEF Approve, Edit, Close, Reopen, hostVars, Live
  <1> QED BY <1>1, <1>2, <1>3, <1>4 DEF World

LEMMA EventsBounded == ASSUME TypeOK, Next PROVE events' \in 0..scene'.moves
  <1>1. scene' = scene /\ scene.moves \in Nat /\ events \in 0..scene.moves
    BY DEF Next, Step, TypeOK
  <1>2. ASSUME NEW h \in Host, Step(h) PROVE Calm \/ Move
    BY <1>2 DEF Step, Begin, ListClosed, ReleaseClosed, Unlabel, CheckMain, ListRows, ReadReports, ListReady,
         ReadNames, Look, Claim, ReadIssue, Create, Staff, Brief, GiveBack, SwapLabel, Fault
  <1>3. ASSUME NEW h \in Host, Crash(h) PROVE Move
    BY <1>3 DEF Crash, Fault
  <1>4. ASSUME World PROVE Calm \/ Move
    BY <1>4 DEF World, Turn, Finish, Prune, AgentEnds, Approve, Edit, Close, Reopen, Abandon
  <1>5. Calm \/ Move
    BY <1>2, <1>3, <1>4 DEF Next
  <1> QED BY <1>1, <1>5 DEF Calm, Move

LEMMA WorldIdles == ASSUME World PROVE UNCHANGED <<at, pass, claim, unbriefed, swept>>
  BY DEF World, Turn, Finish, Prune, AgentEnds, Approve, Edit, Close, Reopen, Abandon, Elsewhere

LEMMA TypeStep == ASSUME TypeOK, QueueInv, Next PROVE TypeOK' /\ QueueInv'
  <1>1. scene' = scene /\ events' \in 0..scene'.moves
    BY EventsBounded DEF Next, Step
  <1>2. ASSUME NEW h \in Host, Step(h) \/ Crash(h)
        PROVE  at' \in [Host -> Labels] /\ pass' \in [Host -> Passes] /\ QueueInv'
    <2>1. Own(h)
      BY <1>2, OwnStep
    <2>2. at' \in [Host -> Labels] /\ pass' \in [Host -> Passes]
      BY <2>1 DEF Own, TypeOK
    <2> QED BY <2>1, <2>2, ZenonT(60) DEF Own, QueueInv, TypeOK
  <1>3. ThingsOK' /\ at' \in [Host -> Labels] /\ pass' \in [Host -> Passes] /\ QueueInv'
    BY <1>2, ThingsOfSteps, ThingsOfWorld, WorldIdles DEF Next, QueueInv, TypeOK
  <1> QED BY <1>1, <1>3 DEF TypeOK, ThingsOK

-----------------------------------------------------------------------------
(* Who has the claim *)

\* What a pass's step can do to the claim on an issue and to who made a checkout for it.
ClaimMove(h, i) ==
  /\ open' = open /\ swept \subseteq swept' /\ \A g \in Host : branch[g] \subseteq branch'[g]
  /\ \/ claim'[i] = claim[i]
     \/ at[h] = "claim" /\ i = Current(h) /\ claim[i] = Nobody /\ claim'[i] = h
     \/ claim'[i] = Nobody /\ (i \in swept' \/ (i \notin open /\ ~Started(i)))
     \/ /\ claim'[i] = Nobody /\ i = Current(h) /\ at[h] = "giveBack" /\ at'[h] \notin Starting
        /\ i \notin branch[h]
  /\ \/ made'[i] = made[i]
     \/ /\ made'[i] \subseteq made[i] \cup {h} /\ i = Current(h) /\ at[h] = "create"
        /\ i \in open /\ i \in branch'[h]

\* A pass starts what it was starting, or has just claimed.
StartMove(h) ==
  at'[h] \in Starting =>
    /\ pass'[h].queue = pass[h].queue
    /\ \/ at[h] \in Starting
       \/ at[h] = "claim" /\ claim[Current(h)] = Nobody /\ claim'[Current(h)] = h

LEMMA StartMoves ==
  ASSUME TypeOK, QueueInv, NEW h \in Host, Step(h) \/ Crash(h) PROVE StartMove(h)
  <1>1. at \in [Host -> Labels] /\ pass \in [Host -> Passes] /\ pass[h] \in Passes
    BY DEF TypeOK
  <1> USE <1>1 DEF StartMove, Goto, Keep, Over, Failed, NextIssue, GoOn, Starting
  <1>2. CASE Begin(h) \/ ListClosed(h) \/ ReleaseClosed(h) \/ Unlabel(h) \/ CheckMain(h) \/ ListRows(h)
    BY <1>2 DEF Begin, ListClosed, ReleaseClosed, Unlabel, CheckMain, ListRows
  <1>3. CASE ReadReports(h) \/ ListReady(h) \/ ReadNames(h) \/ Look(h) \/ SwapLabel(h) \/ Crash(h)
    BY <1>3 DEF ReadReports, ListReady, ReadNames, Look, SwapLabel, Crash
  <1>4. CASE Claim(h)
    <2>1. Current(h) \in Issue
      BY <1>4, CurrentIn DEF Claim
    <2> QED BY <1>4, <2>1 DEF Claim, TypeOK
  <1>5. \A code \in {2, 3} : [pass[h] EXCEPT !.code = code].queue = pass[h].queue
    BY DEF Passes
  <1>6. CASE ReadIssue(h) \/ Create(h) \/ Staff(h)
    BY <1>5, <1>6 DEF ReadIssue, Create, Staff
  <1>7. CASE Brief(h)
    <2>1. [pass[h] EXCEPT !.free = @ - 1].queue = pass[h].queue
      BY DEF Passes
    <2> QED BY <1>5, <1>7, <2>1 DEF Brief
  <1>8. CASE GiveBack(h)
    BY <1>8 DEF GiveBack
  <1> QED BY <1>2, <1>3, <1>4, <1>6, <1>7, <1>8 DEF Step

LEMMA ClaimMoves ==
  ASSUME TypeOK, QueueInv, NEW h \in Host, Step(h) \/ Crash(h), NEW i \in Issue PROVE ClaimMove(h, i)
  <1> USE DEF ClaimMove, TypeOK, boardVars, hostVars, historyVars
  <1>1. CASE UNCHANGED <<open, branch, claim, made, swept>>
    BY <1>1
  <1>2. CASE Looking(h) \/ Unlabel(h) \/ Staff(h) \/ Brief(h) \/ SwapLabel(h) \/ Crash(h)
    <2>1. UNCHANGED <<open, branch, claim, made, swept>>
      BY <1>2, LookingReads DEF Reading, Unlabel, Staff, Brief, SwapLabel, Crash
    <2> QED BY <1>1, <2>1
  <1>3. CASE ReleaseClosed(h)
    <2>1. UNCHANGED <<open, branch, made>>
      BY <1>3 DEF ReleaseClosed
    <2>2. claim' = claim \/ claim' = [claim EXCEPT ![Oldest(pass[h].todo)] = Nobody]
      BY <1>3 DEF ReleaseClosed
    <2>3. swept \subseteq swept'
      BY <1>3 DEF ReleaseClosed
    <2>4. claim'[i] # claim[i] => i = Oldest(pass[h].todo) /\ claim'[i] = Nobody
      BY <2>2
    <2>5. claim' # claim =>
            \/ Oldest(pass[h].todo) \in swept'
            \/ Oldest(pass[h].todo) \notin open /\ ~Started(Oldest(pass[h].todo))
      BY <1>3 DEF ReleaseClosed
    <2> QED BY <2>1, <2>3, <2>4, <2>5
  <1>4. CASE Claim(h)
    <2>1. UNCHANGED <<open, branch, made, swept>> /\ at[h] = "claim"
      BY <1>4 DEF Claim
    <2>2. claim' \in {claim, [claim EXCEPT ![Current(h)] = IF @ = Nobody THEN h ELSE @]}
      BY <1>4 DEF Claim
    <2> QED BY <2>1, <2>2
  <1>5. CASE Create(h)
    <2>1. UNCHANGED <<open, claim, swept>> /\ at[h] = "create"
      BY <1>5 DEF Create
    <2>2. \/ UNCHANGED <<branch, made>>
          \/ /\ branch' = [branch EXCEPT ![h] = @ \cup {Current(h)}]
             /\ made' = [made EXCEPT ![Current(h)] = @ \cup (IF Current(h) \in open THEN {h} ELSE {})]
      BY <1>5 DEF Create
    <2>3. CASE UNCHANGED <<branch, made>>
      BY <2>1, <2>3
    <2>4. CASE ~UNCHANGED <<branch, made>>
      <3>1. \A g \in Host : branch'[g] = IF g = h THEN branch[h] \cup {Current(h)} ELSE branch[g]
        BY <2>2, <2>4
      <3>2. CASE i = Current(h)
        <4>1. made'[i] = made[i] \cup (IF i \in open THEN {h} ELSE {}) /\ i \in branch'[h]
          BY <2>2, <2>4, <3>1, <3>2
        <4>2. made'[i] = made[i] \/ (i \in open /\ made'[i] \subseteq made[i] \cup {h})
          BY <4>1
        <4>3. \A g \in Host : branch[g] \subseteq branch'[g]
          BY <3>1
        <4>4. claim'[i] = claim[i] /\ open' = open /\ swept \subseteq swept'
          BY <2>1
        <4> HIDE DEF TypeOK
        <4> QED BY <2>1, <3>2, <4>1, <4>2, <4>3, <4>4
      <3>3. CASE i # Current(h)
        <4>1. made'[i] = made[i]
          BY <2>2, <2>4, <3>3
        <4> QED BY <2>1, <3>1, <4>1
      <3> QED BY <3>2, <3>3
    <2> QED BY <2>3, <2>4
  <1>6. CASE GiveBack(h)
    <2>1. UNCHANGED <<open, branch, made, swept>> /\ at[h] = "giveBack"
      BY <1>6 DEF GiveBack
    <2>2. claim' = claim \/ (~Working(h, Current(h)) /\ claim' = [claim EXCEPT ![Current(h)] = Nobody])
      BY <1>6 DEF GiveBack
    <2>3. at'[h] \notin Starting
      BY <1>6 DEF GiveBack, GoOn, Over, NextIssue, Goto, Starting
    <2> QED BY <2>1, <2>2, <2>3 DEF Working
  <1> QED BY <1>2, <1>3, <1>4, <1>5, <1>6 DEF Step, Looking

LEMMA ClaimsKept ==
  ASSUME TypeOK, QueueInv, ClaimInv, MadeInv, NEW h \in Host, Step(h) \/ Crash(h)
  PROVE  ClaimInv' /\ MadeInv'
  <1>1. StartMove(h) /\ Own(h) /\ \A i \in Issue : ClaimMove(h, i)
    BY StartMoves, OwnStep, ClaimMoves
  <1>2. \A g \in Host \ {h} : at'[g] = at[g] /\ Current(g)' = Current(g)
    BY <1>1 DEF Own, Current, TypeOK
  <1>3. at'[h] \in Starting => Current(h)' = Current(h)
    BY <1>1 DEF StartMove, Current
  <1>4. ASSUME NEW i \in Issue \ swept'
        PROVE  /\ \A g \in Host : at'[g] \in Starting /\ Current(g)' = i => claim'[i] = g
               /\ made'[i] \subseteq {claim'[i]}
    <2>1. ClaimMove(h, i) /\ i \notin swept
      BY <1>1 DEF ClaimMove
    <2>2. ASSUME NEW g \in Host, at[g] \in Starting, Current(g) = i PROVE claim[i] = g /\ Started(i)
      BY <2>1, <2>2 DEF ClaimInv, Started, Starting
    <2>3. made[i] \subseteq {claim[i]} /\ made[i] \subseteq Host
      BY <2>1 DEF ClaimInv, TypeOK
    <2>4. \A g \in made[i] : i \in open /\ i \in branch[g]
      BY DEF MadeInv
    <2>5. ASSUME NEW g \in Host, at'[g] \in Starting, Current(g)' = i PROVE claim'[i] = g
      <3>1. CASE g # h
        <4>1. at[g] \in Starting /\ Current(g) = i
          BY <1>2, <2>5, <3>1
        <4>2. claim[i] = g /\ Started(i)
          BY <2>2, <4>1
        <4>3. ~(at[h] = "giveBack" /\ i = Current(h))
          BY <2>2, <3>1, <4>2 DEF Starting
        <4> QED BY <2>1, <4>2, <4>3 DEF ClaimMove
      <3>2. CASE g = h /\ at[h] \in Starting
        <4>1. claim[i] = h /\ Started(i)
          BY <1>3, <2>2, <2>5, <3>2
        <4> QED BY <2>1, <2>5, <3>2, <4>1 DEF ClaimMove
      <3>3. CASE g = h /\ at[h] \notin Starting
        BY <1>1, <1>3, <2>5, <3>3 DEF StartMove
      <3> QED BY <3>1, <3>2, <3>3
    <2>6. made'[i] \subseteq {claim'[i]}
      <3>1. CASE made'[i] = made[i]
        <4>1. claim[i] = Nobody => made[i] = {}
          BY <2>3
        <4>2. i \notin open => made[i] = {}
          BY <2>4
        <4>3. i = Current(h) /\ at[h] = "giveBack" /\ i \notin branch[h] => made[i] = {}
          BY <2>2, <2>3, <2>4 DEF Starting
        <4> QED BY <2>1, <2>3, <3>1, <4>1, <4>2, <4>3 DEF ClaimMove
      <3>2. CASE made'[i] \subseteq made[i] \cup {h} /\ i = Current(h) /\ at[h] = "create"
        <4>1. claim[i] = h /\ Started(i)
          BY <2>2, <3>2 DEF Starting
        <4> QED BY <2>1, <2>3, <3>2, <4>1 DEF ClaimMove
      <3> QED BY <2>1, <3>1, <3>2 DEF ClaimMove
    <2> QED BY <2>5, <2>6
  <1>5. ASSUME NEW i \in Issue, NEW g \in made'[i] PROVE i \in open' /\ i \in branch'[g]
    <2>1. g \in Host
      BY <1>5, ThingsOfSteps DEF ThingsOK
    <2> QED BY <1>1, <2>1 DEF ClaimMove, MadeInv
  <1>6. ClaimInv'
    BY <1>4 DEF ClaimInv
  <1>7. MadeInv'
    BY <1>5 DEF MadeInv
  <1> QED BY <1>6, <1>7

LEMMA ClaimsOfWorld ==
  ASSUME TypeOK, ClaimInv, MadeInv, World PROVE ClaimInv' /\ MadeInv'
  <1> USE DEF TypeOK, boardVars, hostVars
  <1>1. UNCHANGED <<at, pass, claim, swept>>
    BY WorldIdles
  <1>2. \A i \in Issue : made'[i] \subseteq made[i] /\ \A g \in made'[i] : i \in open' /\ i \in branch'[g]
    <2> USE DEF MadeInv
    <2>1. CASE \E h \in Host, i \in Issue : Turn(h, i) \/ Finish(h, i) \/ AgentEnds(h, i)
      BY <2>1 DEF Turn, Finish, AgentEnds
    <2>2. ASSUME NEW h \in Host, NEW j \in Issue, Prune(h, j) \/ Abandon(h, j),
                 NEW i \in Issue
          PROVE  made'[i] \subseteq made[i] /\ \A g \in made'[i] : i \in open' /\ i \in branch'[g]
      <3>1. /\ made' = [made EXCEPT ![j] = @ \ {h}] /\ open' = open
            /\ branch' = [branch EXCEPT ![h] = @ \ {j}]
        BY <2>2 DEF Prune, Abandon
      <3>2. \A g \in Host : branch'[g] = IF g = h THEN branch[h] \ {j} ELSE branch[g]
        BY <3>1
      <3>3. made'[i] = IF i = j THEN made[i] \ {h} ELSE made[i]
        BY <3>1
      <3> QED BY <3>1, <3>2, <3>3, ZenonT(60)
    <2>3. ASSUME NEW j \in Issue, Close(j), NEW i \in Issue
          PROVE  made'[i] \subseteq made[i] /\ \A g \in made'[i] : i \in open' /\ i \in branch'[g]
      <3>1. made'[i] = IF i = j THEN {} ELSE made[i]
        BY <2>3 DEF Close
      <3>2. open' = open \ {j} /\ branch' = branch
        BY <2>3 DEF Close
      <3> QED BY <3>1, <3>2
    <2>4. CASE \E i \in Issue : Approve(i) \/ Edit(i) \/ Reopen(i)
      <3>1. open \subseteq open' /\ branch' = branch /\ made' = made
        BY <2>4 DEF Approve, Edit, Reopen
      <3> QED BY <3>1
    <2> QED BY <2>1, <2>2, <2>3, <2>4 DEF World
  <1>3. ClaimInv'
    BY <1>1, <1>2 DEF ClaimInv, Current
  <1>4. MadeInv'
    BY <1>2 DEF MadeInv
  <1> QED BY <1>3, <1>4

-----------------------------------------------------------------------------
(* What the board says *)

InHandOf(h, i) ==
  at[h] \in {"issue", "create", "staff", "giveBack"} /\ pass[h].queue # {} /\ Current(h) = i

\* What a pass's step can do to an issue on which nothing is left over.
BoardMove(h, i) ==
  /\ open' = open /\ leftover \subseteq leftover' /\ remote' = remote
  /\ \A g \in Host : branch[g] \subseteq branch'[g]
  /\ \/ claim'[i] \in {claim[i], Nobody}
     \/ at'[h] = "issue" /\ pass'[h].queue = pass[h].queue /\ i = Current(h)
  /\ InHandOf(h, i) =>
       \/ at'[h] \in {"create", "staff", "giveBack"} /\ pass'[h].queue = pass[h].queue
       \/ Working(h, i)
       \/ claim'[i] = Nobody
  /\ i \in inProgress' => i \in inProgress \/ (at[h] = "swap" /\ i = Current(h))
  /\ at'[h] \in {"brief", "swap"} =>
       /\ pass'[h].queue = pass[h].queue
       /\ at[h] \in {"brief", "swap"} \/ Current(h) \in branch[h]

LEMMA BoardMoves ==
  ASSUME TypeOK, QueueInv, NEW h \in Host, Step(h) \/ Crash(h), NEW i \in Issue \ leftover'
  PROVE  BoardMove(h, i)
  <1>1. at \in [Host -> Labels] /\ pass \in [Host -> Passes] /\ pass[h] \in Passes
    BY DEF TypeOK
  <1>2. claim \in [Issue -> Host \cup {Nobody}]
    BY DEF TypeOK
  <1> USE <1>1, <1>2 DEF BoardMove, InHandOf, boardVars, hostVars, historyVars, Goto, Keep, Over
  <1>3. CASE Looking(h) /\ ~ReadIssue(h)
    <2>1. UNCHANGED <<open, leftover, remote, branch, claim, inProgress>>
      BY <1>3, LookingReads DEF Reading
    <2>2. at[h] \notin {"issue", "create", "staff", "giveBack"} /\ at'[h] \notin {"brief", "swap"}
      BY <1>3 DEF Looking, Begin, ListClosed, CheckMain, ListRows, ReadReports, ListReady, ReadNames,
                  Look, NextIssue
    <2> QED BY <2>1, <2>2
  <1>4. CASE ReleaseClosed(h) \/ Unlabel(h)
    <2>1. UNCHANGED <<open, leftover, remote, branch>>
      BY <1>4 DEF ReleaseClosed, Unlabel
    <2>2. at[h] \in {"release", "unlabel"} /\ at'[h] \notin {"brief", "swap"}
      BY <1>4 DEF ReleaseClosed, Unlabel
    <2>3. claim'[i] \in {claim[i], Nobody}
      BY <1>4 DEF ReleaseClosed, Unlabel
    <2>4. i \in inProgress' => i \in inProgress
      BY <1>4 DEF ReleaseClosed, Unlabel
    <2> QED BY <2>1, <2>2, <2>3, <2>4
  <1>5. CASE Claim(h)
    <2>1. UNCHANGED <<open, remote, branch, inProgress>> /\ leftover \subseteq leftover' /\ at[h] = "claim"
      BY <1>5 DEF Claim
    <2>2. at'[h] \notin {"brief", "swap"}
      BY <1>5 DEF Claim, NextIssue
    <2>3. claim'[i] = claim[i] \/ (at'[h] = "issue" /\ pass' = pass /\ i = Current(h))
      BY <1>5 DEF Claim, NextIssue
    <2> QED BY <2>1, <2>2, <2>3
  <1>6. \A code \in {2, 3} : [pass[h] EXCEPT !.code = code].queue = pass[h].queue
    BY DEF Passes
  <1>7. CASE ReadIssue(h)
    <2>1. UNCHANGED <<open, leftover, remote, branch, claim, inProgress>>
      BY <1>7 DEF ReadIssue, Reading
    <2>2. at'[h] \in {"create", "giveBack"} /\ pass'[h].queue = pass[h].queue
      BY <1>6, <1>7 DEF ReadIssue, Failed
    <2> QED BY <2>1, <2>2
  <1>8. CASE Create(h)
    <2>1. UNCHANGED <<open, leftover, remote, claim, inProgress>>
      BY <1>8 DEF Create
    <2>2. at'[h] \in {"staff", "giveBack"} /\ pass'[h].queue = pass[h].queue
      BY <1>6, <1>8 DEF Create, Failed
    <2>3. \A g \in Host : branch[g] \subseteq branch'[g]
      BY <1>8, ClaimMoves DEF ClaimMove
    <2> QED BY <2>1, <2>2, <2>3
  <1>9. CASE Staff(h)
    <2>1. UNCHANGED <<open, leftover, remote, branch, claim, inProgress>>
      BY <1>9 DEF Staff
    <2>2. /\ at'[h] = "giveBack" \/ (at'[h] = "brief" /\ Current(h) \in branch[h])
          /\ pass'[h].queue = pass[h].queue
      BY <1>6, <1>9 DEF Staff, Failed
    <2> QED BY <2>1, <2>2 DEF Working
  <1>10. CASE Brief(h)
    <2>1. UNCHANGED <<open, leftover, remote, branch, claim, inProgress>> /\ at[h] = "brief"
      BY <1>10 DEF Brief
    <2>2. [pass[h] EXCEPT !.free = @ - 1].queue = pass[h].queue
      BY DEF Passes
    <2>3. pass'[h].queue = pass[h].queue
      BY <1>6, <1>10, <2>2 DEF Brief, Failed
    <2> QED BY <2>1, <2>3
  <1>11. CASE GiveBack(h)
    <2>1. UNCHANGED <<open, remote, branch, inProgress>> /\ leftover \subseteq leftover'
      BY <1>11 DEF GiveBack
    <2>2. at'[h] \notin {"brief", "swap"}
      BY <1>11 DEF GiveBack, GoOn, NextIssue
    <2>3. claim'[i] \in {claim[i], Nobody}
      BY <1>11 DEF GiveBack
    <2>4. i = Current(h) => Working(h, i) \/ claim'[i] = Nobody
      BY <1>11 DEF GiveBack
    <2> QED BY <2>1, <2>2, <2>3, <2>4
  <1>12. CASE SwapLabel(h)
    <2>1. UNCHANGED <<open, leftover, remote, branch, claim>> /\ at[h] = "swap"
      BY <1>12 DEF SwapLabel
    <2>2. at'[h] \notin {"brief", "swap"}
      BY <1>12 DEF SwapLabel, NextIssue
    <2>3. i \in inProgress' => i \in inProgress \/ i = Current(h)
      BY <1>12 DEF SwapLabel
    <2> QED BY <2>1, <2>2, <2>3
  <1>13. CASE Crash(h)
    <2>1. UNCHANGED <<open, remote, branch, claim, inProgress>> /\ leftover \subseteq leftover'
      BY <1>13 DEF Crash
    <2>2. at'[h] = "idle" /\ ~InHandOf(h, i)
      BY <1>13 DEF Crash
    <2> QED BY <2>1, <2>2
  <1> QED BY <1>3, <1>4, <1>5, <1>7, <1>8, <1>9, <1>10, <1>11, <1>12, <1>13 DEF Step, Looking

LEMMA BoardKept ==
  ASSUME TypeOK, QueueInv, BoardInv, ClaimsStandForWork, NEW h \in Host, Step(h) \/ Crash(h), QueueInv'
  PROVE  BoardInv' /\ ClaimsStandForWork'
  <1>1. Own(h) /\ \A i \in Issue \ leftover' : BoardMove(h, i)
    BY OwnStep, BoardMoves
  <1>2. \A g \in Host \ {h} : at'[g] = at[g] /\ pass'[g] = pass[g] /\ Current(g)' = Current(g)
    BY <1>1 DEF Own, Current, TypeOK
  <1>3. \A i : InHand(i) <=> \E g \in Host : InHandOf(g, i)
    BY DEF InHand, InHandOf
  <1>4. ASSUME NEW i \in Issue, NEW g \in Host \ {h} PROVE InHandOf(g, i)' <=> InHandOf(g, i)
    BY <1>2 DEF InHandOf
  <1>5. ASSUME NEW i \in Issue \ leftover', NEW g \in Host, Working(g, i) PROVE Working(g, i)'
    BY <1>1, <1>5 DEF BoardMove, Working
  <1>6. ASSUME NEW i \in open' \ leftover'
        PROVE  /\ claim'[i] # Nobody => InHand(i)' \/ \E g \in Host : Working(g, i)'
               /\ i \in inProgress' => \E g \in Host : Working(g, i)'
    <2>1. i \in Issue
      BY ThingsOfSteps DEF ThingsOK
    <2>2. BoardMove(h, i) /\ i \in open \ leftover
      BY <1>1, <2>1 DEF BoardMove
    <2>3. /\ claim[i] # Nobody => InHand(i) \/ \E g \in Host : Working(g, i)
          /\ i \in inProgress => \E g \in Host : Working(g, i)
      BY <2>2 DEF ClaimsStandForWork
    <2>4. ASSUME claim'[i] # Nobody PROVE InHand(i)' \/ \E g \in Host : Working(g, i)'
      <3>1. CASE at'[h] = "issue" /\ pass'[h].queue = pass[h].queue /\ i = Current(h)
        <4>1. pass'[h].queue # {}
          BY <3>1 DEF QueueInv, Starting
        <4> QED BY <3>1, <4>1 DEF InHand, Current
      <3>2. CASE claim'[i] \in {claim[i], Nobody}
        <4>1. CASE \E g \in Host : Working(g, i)
          BY <1>5, <2>1, <4>1
        <4>2. ASSUME NEW g \in Host, InHandOf(g, i) PROVE InHand(i)' \/ \E f \in Host : Working(f, i)'
          <5>1. CASE g # h
            BY <1>2, <4>2, <5>1 DEF InHand, InHandOf
          <5>2. CASE g = h /\ at'[h] \in {"create", "staff", "giveBack"} /\ pass'[h].queue = pass[h].queue
            BY <4>2, <5>2 DEF InHand, InHandOf, Current
          <5>3. CASE g = h /\ Working(h, i)
            BY <1>5, <2>1, <5>3
          <5> QED BY <2>2, <2>4, <4>2, <5>1, <5>2, <5>3 DEF BoardMove
        <4> QED BY <1>3, <2>3, <2>4, <3>2, <4>1, <4>2
      <3> QED BY <2>2, <3>1, <3>2 DEF BoardMove
    <2>5. ASSUME i \in inProgress' PROVE \E g \in Host : Working(g, i)'
      <3>1. i \in inProgress \/ (at[h] = "swap" /\ i = Current(h))
        BY <2>2, <2>5 DEF BoardMove
      <3>2. at[h] = "swap" /\ i = Current(h) => Working(h, i)
        BY <2>2 DEF BoardInv
      <3> QED BY <1>5, <2>1, <2>3, <3>1, <3>2
    <2> QED BY <2>4, <2>5
  <1>7. ClaimsStandForWork'
    BY <1>6 DEF ClaimsStandForWork
  <1>8. ASSUME NEW g \in Host, at'[g] \in {"brief", "swap"}, NEW i, i = Current(g)', i \in open' \ leftover'
        PROVE  Working(g, i)'
    <2>1. i \in Issue
      BY <1>8, ThingsOfSteps DEF ThingsOK
    <2>2. BoardMove(h, i) /\ i \in open \ leftover
      BY <1>1, <1>8, <2>1 DEF BoardMove
    <2>3. CASE g # h
      BY <1>2, <1>5, <1>8, <2>1, <2>2, <2>3 DEF BoardInv
    <2>4. CASE g = h
      <3>1. Current(h)' = Current(h)
        BY <1>8, <2>2, <2>4 DEF BoardMove, Current
      <3>2. Working(h, i)
        BY <1>8, <2>2, <2>4, <3>1 DEF BoardMove, BoardInv, Working
      <3> QED BY <1>5, <1>8, <2>1, <2>4, <3>2
    <2> QED BY <2>3, <2>4
  <1>9. BoardInv'
    BY <1>8 DEF BoardInv
  <1> QED BY <1>7, <1>9

LEMMA BoardOfWorld ==
  ASSUME TypeOK, QueueInv, BoardInv, ClaimsStandForWork, World PROVE BoardInv' /\ ClaimsStandForWork'
  <1> USE DEF TypeOK, boardVars, hostVars
  <1>1. UNCHANGED <<at, pass, claim>>
    BY WorldIdles
  <1>2. \A h \in Host : Current(h)' = Current(h)
    BY <1>1 DEF Current
  <1>3. \A i : InHand(i)' <=> InHand(i)
    BY <1>1, <1>2 DEF InHand
  <1> DEFINE
    Kept(i) == /\ i \in open \ leftover
               /\ \A g \in Host : Working(g, i) => i \in branch'[g] \cup remote'[g]
               /\ i \in inProgress' => i \in inProgress
    Anew(i) == /\ claim[i] = Nobody /\ i \notin inProgress'
               /\ \A g \in Host : at[g] \in {"brief", "swap"} => Current(g) # i
  <1>4. ASSUME NEW i \in open' \ leftover' PROVE i \in Issue /\ (Kept(i) \/ Anew(i))
    <2>1. i \in Issue
      BY ThingsOfWorld DEF ThingsOK
    <2>2. ASSUME NEW h \in Host, NEW j \in Issue, Turn(h, j) \/ Finish(h, j) \/ AgentEnds(h, j)
          PROVE  Kept(i)
      <3>1. UNCHANGED <<boardVars, branch, leftover>>
        BY <2>2 DEF Turn, Finish, AgentEnds
      <3>2. \A g \in Host : remote[g] \subseteq remote'[g]
        BY <2>2 DEF Turn, Finish, AgentEnds
      <3> QED BY <3>1, <3>2 DEF Working
    <2>3. ASSUME NEW h \in Host, NEW j \in Issue, Prune(h, j) \/ Abandon(h, j) PROVE Kept(i)
      <3>1. i # j /\ i \in open \ leftover /\ UNCHANGED <<boardVars, remote>>
        BY <2>3 DEF Prune, Abandon
      <3>2. \A g \in Host : branch[g] \ {j} \subseteq branch'[g]
        BY <2>3, SMTT(30) DEF Prune, Abandon
      <3> QED BY <3>1, <3>2 DEF Working
    <2>4. ASSUME NEW j \in Issue, Approve(j) \/ Edit(j) \/ Close(j) PROVE Kept(i)
      <3>1. i \in open \ leftover /\ UNCHANGED <<inProgress, branch, remote>>
        BY <2>4 DEF Approve, Edit, Close
      <3> QED BY <3>1 DEF Working
    <2>5. ASSUME NEW j \in Issue, Reopen(j) PROVE Kept(i) \/ Anew(i)
      <3>1. UNCHANGED <<inProgress, branch, remote>> /\ leftover \subseteq leftover' /\ open' = open \cup {j}
        BY <2>5 DEF Reopen
      <3>2. i = j => claim[i] = Nobody /\ i \notin inProgress /\ ~Started(i)
        BY <2>5 DEF Reopen
      <3>3. CASE i = j
        BY <3>1, <3>2, <3>3 DEF Started
      <3>4. CASE i # j
        BY <3>1, <3>4 DEF Working
      <3> QED BY <3>3, <3>4
    <2> QED BY <2>1, <2>2, <2>3, <2>4, <2>5 DEF World
  <1> HIDE DEF TypeOK
  <1>5. ASSUME NEW i \in open' \ leftover'
        PROVE  /\ claim'[i] # Nobody => InHand(i)' \/ \E g \in Host : i \in branch'[g] \cup remote'[g]
               /\ i \in inProgress' => \E g \in Host : i \in branch'[g] \cup remote'[g]
    BY <1>1, <1>3, <1>4, <1>5 DEF ClaimsStandForWork
  <1>6. ClaimsStandForWork'
    BY <1>5 DEF ClaimsStandForWork, Working
  <1>7. ASSUME NEW g \in Host, at'[g] \in {"brief", "swap"}, NEW i, i = Current(g)', i \in open' \ leftover'
        PROVE  i \in branch'[g] \cup remote'[g]
    BY <1>1, <1>2, <1>4, <1>7 DEF BoardInv
  <1>8. BoardInv'
    BY <1>7 DEF BoardInv, Working
  <1> QED BY <1>6, <1>8

-----------------------------------------------------------------------------
(* The cap *)

LEMMA Counted ==
  ASSUME NEW S, S \subseteq Issue
  PROVE  IsFiniteSet(S) /\ Cardinality(S) \in Nat /\ \A T \in SUBSET S : Cardinality(T) <= Cardinality(S)
  <1>1. IsFiniteSet(S)
    BY FS_Subset
  <1> QED BY <1>1, FS_CardinalityType, FS_Subset

\* What a step does to the slots a machine's workers hold.
SlotMove(h) ==
  /\ Held(h)' \subseteq Held(h) \cup Coming(h)'
  /\ at'[h] = "reports" => Live(h)' \subseteq pass'[h].live
  /\ at'[h] = "list" =>
       at[h] = "reports" /\ \E unread \in SUBSET pass[h].live :
         pass'[h].free = MaxWorkers - Cardinality(SlotsHeld(h, unread))
  /\ at'[h] \in {"names", "look", "claim"} \cup Starting =>
       /\ at[h] \in {"list", "names", "look", "claim"} \cup Starting
       /\ \/ pass'[h].free = pass[h].free /\ (Held(h)' \ Coming(h)') \subseteq (Held(h) \ Coming(h))
          \/ at[h] = "brief" /\ at'[h] = "swap" /\ pass'[h].free = pass[h].free - 1
             /\ Held(h)' \subseteq Held(h)

LEMMA SlotMoves ==
  ASSUME TypeOK, QueueInv, NEW h \in Host, Step(h) \/ Crash(h)
  PROVE  SlotMove(h) /\ \A g \in Host \ {h} : Held(g)' = Held(g) /\ Live(g)' = Live(g)
  <1>1. at \in [Host -> Labels] /\ pass \in [Host -> Passes] /\ pass[h] \in Passes
    BY DEF TypeOK
  <1>2. Own(h)
    BY OwnStep
  <1> USE <1>1 DEF SlotMove, Goto, Keep, Over, Starting, hostVars, historyVars
  <1>3. UNCHANGED <<agent, reported, unbriefed>> =>
          \A g \in Host : Held(g)' = Held(g) /\ Live(g)' = Live(g)
    BY DEF Held, Live
  <1>4. [pass[h] EXCEPT !.queue = @ \ {Current(h)}, !.code = 0].free = pass[h].free
    BY DEF Passes
  <1>5. \A code \in {2, 3} : /\ [pass[h] EXCEPT !.code = code].free = pass[h].free
                             /\ [pass[h] EXCEPT !.code = code].queue = pass[h].queue
    BY DEF Passes
  <1>6. CASE Looking(h) \/ ReleaseClosed(h) \/ Unlabel(h) \/ Claim(h) \/ Create(h) \/ GiveBack(h)
               \/ SwapLabel(h)
    <2>1. UNCHANGED <<agent, reported, unbriefed>>
      BY <1>6, LookingReads DEF Reading, ReleaseClosed, Unlabel, Claim, Create, GiveBack, SwapLabel
    <2>2. at[h] # "brief" /\ at'[h] # "brief"
      BY <1>6 DEF Looking, Begin, ListClosed, CheckMain, ListRows, ReadReports, ListReady, ReadNames, Look,
                  ReadIssue, ReleaseClosed, Unlabel, Claim, Create, GiveBack, SwapLabel, NextIssue, Failed, GoOn
    <2>3. Coming(h) = {} /\ Coming(h)' = {}
      BY <2>2 DEF Coming
    <2>4. at'[h] = "reports" => Live(h) \subseteq pass'[h].live
      <3>1. [pass[h] EXCEPT !.live = Live(h), !.names = branch[h]].live = Live(h)
        BY DEF Passes
      <3> QED BY <1>6, <3>1 DEF Looking, Begin, ListClosed, CheckMain, ListRows, ReadReports, ListReady,
                  ReadNames, Look, ReadIssue, ReleaseClosed, Unlabel, Claim, Create, GiveBack, SwapLabel,
                  NextIssue, Failed, GoOn
    <2>5. at'[h] = "list" => at[h] = "reports" /\ \E unread \in SUBSET pass[h].live :
                               pass'[h].free = MaxWorkers - Cardinality(SlotsHeld(h, unread))
      <3>1. at'[h] = "list" => ReadReports(h)
        BY <1>6 DEF Looking, Begin, ListClosed, CheckMain, ListRows, ListReady, ReadNames, Look, ReadIssue,
                    ReleaseClosed, Unlabel, Claim, Create, GiveBack, SwapLabel, NextIssue, Failed, GoOn
      <3>2. ASSUME ReadReports(h), at'[h] = "list"
            PROVE  at[h] = "reports" /\ \E unread \in SUBSET pass[h].live :
                     pass'[h].free = MaxWorkers - Cardinality(SlotsHeld(h, unread))
        <4>1. PICK unread \in SUBSET pass[h].live :
                pass' = [pass EXCEPT ![h] =
                  [pass[h] EXCEPT !.free = MaxWorkers - Cardinality(SlotsHeld(h, unread)), !.live = {}]]
          BY <3>2 DEF ReadReports
        <4>2. pass'[h].free = MaxWorkers - Cardinality(SlotsHeld(h, unread))
          BY <4>1 DEF Passes
        <4> QED BY <3>2, <4>2 DEF ReadReports
      <3> QED BY <3>1, <3>2
    <2>6. at'[h] \in {"names", "look", "claim"} \cup Starting =>
            at[h] \in {"list", "names", "look", "claim"} \cup Starting /\ pass'[h].free = pass[h].free
      <3>1. CASE Claim(h) \/ Create(h) \/ GiveBack(h) \/ SwapLabel(h) \/ ReadIssue(h) \/ Look(h)
        BY <1>4, <1>5, <3>1 DEF Claim, Create, GiveBack, SwapLabel, ReadIssue, Look, NextIssue, Failed, GoOn
      <3>2. CASE ListReady(h) \/ ReadNames(h)
        <4>1. /\ [pass[h] EXCEPT !.queue = open \cap ready, !.labelled = open \cap ready \cap inProgress].free
                    = pass[h].free
              /\ [pass[h] EXCEPT !.names = @ \cup branch[h] \cup remote[h]].free = pass[h].free
          BY DEF Passes
        <4> QED BY <3>2, <4>1 DEF ListReady, ReadNames
      <3>3. CASE Begin(h) \/ ListClosed(h) \/ CheckMain(h) \/ ListRows(h) \/ ReadReports(h)
                   \/ ReleaseClosed(h) \/ Unlabel(h)
        BY <3>3 DEF Begin, ListClosed, CheckMain, ListRows, ReadReports, ReleaseClosed, Unlabel
      <3> QED BY <1>6, <3>1, <3>2, <3>3 DEF Looking
    <2> QED BY <1>3, <2>1, <2>2, <2>3, <2>4, <2>5, <2>6
  <1>7. CASE Crash(h)
    <2>1. UNCHANGED <<agent, reported>> /\ unbriefed \subseteq unbriefed' /\ at'[h] = "idle"
      BY <1>7 DEF Crash
    <2>2. \A g \in Host : Held(g)' \subseteq Held(g) /\ Live(g)' = Live(g)
      BY <2>1 DEF Held, Live
    <2>3. \A g \in Host \ {h} : \A i : <<g, i>> \in unbriefed' => <<g, i>> \in unbriefed
      BY <1>7 DEF Crash
    <2>4. \A g \in Host \ {h} : Held(g)' = Held(g)
      BY <2>1, <2>2, <2>3 DEF Held
    <2> QED BY <2>1, <2>2, <2>4
  <1>8. CASE Staff(h) \/ Brief(h)
    <2> DEFINE i == Current(h)
    <2>1. i \in Issue /\ at[h] \in {"staff", "brief"}
      BY <1>8, CurrentIn DEF Staff, Brief
    <2>2. /\ UNCHANGED reported /\ unbriefed' \in {unbriefed, unbriefed \cup {<<h, i>>}}
          /\ agent' = agent \/ agent' = [agent EXCEPT ![h][i] = "idle"]
               \/ agent' = [agent EXCEPT ![h][i] = "working"]
      BY <1>8 DEF Staff, Brief
    <2>3. at'[h] \in {"brief", "swap", "giveBack"} /\ pass'[h].queue = pass[h].queue
      <3>1. [pass[h] EXCEPT !.free = @ - 1].queue = pass[h].queue
        BY DEF Passes
      <3> QED BY <1>5, <1>8, <3>1 DEF Staff, Brief, Failed
    <2>4. Current(h)' = i
      BY <2>3 DEF Current
    <2> HIDE DEF i
    <2>5. \A g \in Host \ {h} : Held(g)' = Held(g) /\ Live(g)' = Live(g)
      <3>1. \A g \in Host \ {h} : agent'[g] = agent[g] /\ \A j : (<<g, j>> \in unbriefed' <=> <<g, j>> \in unbriefed)
        BY <2>2 DEF TypeOK
      <3> QED BY <2>2, <3>1 DEF Held, Live
    <2>6. Held(h)' \subseteq Held(h) \cup {i}
      <3>1. \A j \in Issue \ {i} : agent'[h][j] = agent[h][j]
        BY <2>1, <2>2 DEF TypeOK
      <3>2. unbriefed \subseteq unbriefed'
        BY <2>2
      <3> QED BY <2>2, <3>1, <3>2 DEF Held, Live
    <2>7. CASE Staff(h) /\ at'[h] = "brief"
      <3>1. pass'[h].free = pass[h].free /\ at[h] = "staff"
        BY <2>7 DEF Staff, Failed
      <3>2. Coming(h) = {} /\ Coming(h)' = {i}
        BY <2>4, <2>7, <3>1 DEF Coming
      <3> QED BY <2>5, <2>6, <2>7, <3>1, <3>2
    <2>8. CASE Staff(h) /\ at'[h] = "giveBack"
      <3>1. pass'[h].free = pass[h].free /\ at[h] = "staff" /\ (agent' = agent \/ <<h, i>> \in unbriefed')
        BY <1>5, <2>8 DEF Staff, Failed, i
      <3>2. Coming(h) = {} /\ Coming(h)' = {}
        BY <2>8, <3>1 DEF Coming
      <3>3. Held(h)' \subseteq Held(h)
        <4>1. agent' = agent => Held(h)' \subseteq Held(h)
          BY <2>2 DEF Held, Live
        <4>2. <<h, i>> \in unbriefed' => i \notin Held(h)'
          BY DEF Held
        <4> QED BY <2>6, <3>1, <4>1, <4>2
      <3> QED BY <2>5, <2>8, <3>1, <3>2, <3>3
    <2>9. CASE Brief(h) /\ at'[h] = "swap"
      <3>1. [pass[h] EXCEPT !.free = @ - 1].free = pass[h].free - 1
        BY DEF Passes
      <3>2. /\ pass'[h].free = pass[h].free - 1 /\ at[h] = "brief" /\ UNCHANGED unbriefed
            /\ agent[h][i] # "none"
        BY <2>9, <3>1 DEF Brief, Failed, i
      <3>3. Held(h)' \subseteq Held(h)
        <4>1. i \in Live(h)
          BY <2>1, <3>2 DEF Live
        <4>2. i \in Held(h)' => i \in Held(h)
          BY <2>2, <3>2, <4>1 DEF Held
        <4> QED BY <2>6, <4>2
      <3> QED BY <2>5, <2>9, <3>2, <3>3
    <2>10. CASE Brief(h) /\ at'[h] = "giveBack"
      <3>1. /\ pass'[h].free = pass[h].free /\ at[h] = "brief" /\ agent' = agent
            /\ agent[h][i] = "none" \/ <<h, i>> \in unbriefed'
        BY <1>5, <2>10 DEF Brief, Failed, i
      <3>2. Held(h)' \subseteq Held(h) /\ i \notin Held(h)'
        BY <2>2, <3>1 DEF Held, Live
      <3>3. Coming(h) = {i} /\ Coming(h)' = {}
        BY <2>10, <3>1 DEF Coming, i
      <3> QED BY <2>5, <2>10, <3>1, <3>2, <3>3
    <2> QED BY <1>8, <2>3, <2>7, <2>8, <2>9, <2>10 DEF Staff, Brief, Failed
  <1> QED BY <1>6, <1>7, <1>8 DEF Step, Looking

LEMMA CapIs == CapKept <=> \A h \in Host : Cardinality(Held(h)) <= MaxWorkers
  BY DEF CapKept, Held

LEMMA SlotsKept ==
  ASSUME TypeOK, QueueInv, SlotInv, CapKept, NEW h \in Host, Step(h) \/ Crash(h), TypeOK', QueueInv'
  PROVE  SlotInv' /\ CapKept'
  <1>1. SlotMove(h) /\ Own(h) /\ \A g \in Host \ {h} : Held(g)' = Held(g) /\ Live(g)' = Live(g)
    BY SlotMoves, OwnStep
  <1>2. \A g \in Host \ {h} : at'[g] = at[g] /\ pass'[g] = pass[g] /\ Current(g)' = Current(g)
    BY <1>1 DEF Own, Current, TypeOK
  <1>3. pass[h].free \in Nat /\ pass'[h].free \in Nat
    BY DEF TypeOK, Passes
  <1>4. Held(h) \subseteq Issue /\ Held(h)' \subseteq Issue
    BY DEF Held, Live
  <1> DEFINE New == Held(h)' \ Coming(h)'
             Old == Held(h) \ Coming(h)
             Now_ == Held(h)'
             Was == Held(h)
  <1>5. /\ Cardinality(New) \in Nat /\ Cardinality(Old) \in Nat
        /\ Cardinality(Now_) \in Nat /\ Cardinality(Was) \in Nat
        /\ Cardinality(New) <= Cardinality(Now_) /\ Cardinality(Old) <= Cardinality(Was)
    BY <1>4, Counted
  <1>6. at'[h] = "reports" => Live(h)' \subseteq pass'[h].live
    BY <1>1 DEF SlotMove
  <1>7. ASSUME at'[h] \in {"list", "names", "look", "claim"} \cup Starting
        PROVE  Cardinality(New) + pass'[h].free <= MaxWorkers
    <2>1. CASE at'[h] = "list"
      <3>1. PICK unread \in SUBSET pass[h].live :
              pass'[h].free = MaxWorkers - Cardinality(SlotsHeld(h, unread))
        BY <1>1, <2>1 DEF SlotMove
      <3>2. at[h] = "reports" /\ Live(h) \subseteq pass[h].live
        BY <1>1, <2>1 DEF SlotMove, SlotInv
      <3>3. New \subseteq Held(h)
        BY <1>1, <2>1 DEF SlotMove, Coming
      <3>4. New \subseteq SlotsHeld(h, unread)
        BY <3>2, <3>3 DEF Held, SlotsHeld
      <3>5. SlotsHeld(h, unread) \subseteq Issue
        BY DEF SlotsHeld, TypeOK, Passes
      <3>6. Cardinality(New) <= Cardinality(SlotsHeld(h, unread)) /\ Cardinality(SlotsHeld(h, unread)) \in Nat
        BY <3>4, <3>5, Counted
      <3> QED BY <1>5, <3>1, <3>6
    <2>2. CASE at'[h] # "list"
      <3>1. /\ at[h] \in {"list", "names", "look", "claim"} \cup Starting
            /\ \/ pass'[h].free = pass[h].free /\ New \subseteq Old
               \/ at[h] = "brief" /\ at'[h] = "swap" /\ pass'[h].free = pass[h].free - 1 /\ Now_ \subseteq Was
        BY <1>1, <1>7, <2>2 DEF SlotMove
      <3>2. Cardinality(Old) + pass[h].free <= MaxWorkers
        BY <3>1 DEF SlotInv
      <3>3. CASE pass'[h].free = pass[h].free /\ New \subseteq Old
        <4>1. Cardinality(New) <= Cardinality(Old)
          BY <1>4, <3>3, Counted
        <4> QED BY <1>3, <1>5, <3>2, <3>3, <4>1
      <3>4. CASE at[h] = "brief" /\ at'[h] = "swap" /\ pass'[h].free = pass[h].free - 1 /\ Now_ \subseteq Was
        <4>1. Cardinality(New) <= Cardinality(Was)
          BY <1>4, <3>4, Counted
        <4>2. Cardinality(Was) <= Cardinality(Old) + 1
          <5>1. IsFiniteSet(Was)
            BY <1>4, Counted
          <5>2. Old = Was \ {Current(h)}
            BY <3>4 DEF Coming
          <5>3. Cardinality(Old) = IF Current(h) \in Was THEN Cardinality(Was) - 1 ELSE Cardinality(Was)
            BY <5>1, <5>2, FS_RemoveElement
          <5> QED BY <1>5, <5>3
        <4> QED BY <1>3, <1>5, <3>2, <3>4, <4>1, <4>2
      <3> QED BY <3>1, <3>3, <3>4
    <2> QED BY <2>1, <2>2
  <1>8. Cardinality(Now_) <= MaxWorkers
    <2>1. CASE at'[h] = "brief"
      <3>1. Cardinality(New) + pass'[h].free <= MaxWorkers /\ pass'[h].free >= 1
        BY <1>7, <2>1 DEF Starting, QueueInv
      <3>2. New = Now_ \ {Current(h)'}
        BY <2>1 DEF Coming
      <3>3. IsFiniteSet(Now_)
        BY <1>4, Counted
      <3>4. Cardinality(New) = IF Current(h)' \in Now_ THEN Cardinality(Now_) - 1 ELSE Cardinality(Now_)
        BY <3>2, <3>3, FS_RemoveElement
      <3> QED BY <1>3, <1>5, <3>1, <3>4
    <2>2. CASE at'[h] # "brief"
      <3>1. Now_ \subseteq Was
        BY <1>1, <2>2 DEF SlotMove, Coming
      <3>2. Cardinality(Now_) <= Cardinality(Was) /\ Cardinality(Was) <= MaxWorkers
        BY <1>4, <3>1, Counted, CapIs
      <3> QED BY <1>5, <3>2
    <2> QED BY <2>1, <2>2
  <1> HIDE DEF New, Old, Now_, Was
  <1>9. ASSUME NEW g \in Host \ {h}
        PROVE  Held(g)' = Held(g) /\ Coming(g)' = Coming(g) /\ Live(g)' = Live(g)
    BY <1>1, <1>2 DEF Coming
  <1>10. ASSUME NEW g \in Host
         PROVE  /\ at'[g] = "reports" => Live(g)' \subseteq pass'[g].live
                /\ at'[g] \in {"list", "names", "look", "claim"} \cup Starting =>
                     Cardinality(Held(g)' \ Coming(g)') + pass'[g].free <= MaxWorkers
                /\ Cardinality(Held(g)') <= MaxWorkers
    <2>1. CASE g = h
      BY <1>6, <1>7, <1>8, <2>1 DEF New, Now_
    <2>2. CASE g # h
      BY <1>2, <1>9, <2>2, CapIs DEF SlotInv
    <2> QED BY <2>1, <2>2
  <1>11. SlotInv'
    BY <1>10 DEF SlotInv
  <1>12. CapKept'
    BY <1>10 DEF CapKept, Held
  <1> QED BY <1>11, <1>12

LEMMA SlotsOfWorld ==
  ASSUME TypeOK, SlotInv, CapKept, World PROVE SlotInv' /\ CapKept'
  <1>1. UNCHANGED <<at, pass, unbriefed>>
    BY WorldIdles
  <1>2. \A h \in Host : Current(h)' = Current(h) /\ Coming(h)' = Coming(h)
    BY <1>1 DEF Current, Coming
  <1>3. ASSUME NEW h \in Host PROVE Live(h)' \subseteq Live(h) /\ Held(h)' \subseteq Held(h)
    <2>1. ASSUME NEW g \in Host, NEW i \in Issue, Turn(g, i) PROVE Live(h)' = Live(h) /\ Held(h)' = Held(h)
      <3>1. /\ agent[g][i] # "none" /\ reported' = reported
            /\ agent' = [agent EXCEPT ![g][i] = "idle"] \/ agent' = [agent EXCEPT ![g][i] = "working"]
        BY <2>1 DEF Turn
      <3>2. \A j \in Issue : agent'[h][j] # "none" <=> agent[h][j] # "none"
        BY <3>1, SMTT(30) DEF TypeOK
      <3>3. Live(h)' = Live(h)
        BY <3>2 DEF Live
      <3> QED BY <1>1, <3>1, <3>3 DEF Held
    <2>2. ASSUME NEW g \in Host, NEW i \in Issue, Finish(g, i) PROVE Live(h)' = Live(h) /\ Held(h)' \subseteq Held(h)
      <3>1. agent' = agent /\ reported[h] \subseteq reported'[h]
        BY <2>2 DEF Finish, TypeOK
      <3> QED BY <1>1, <3>1 DEF Held, Live
    <2>3. ASSUME NEW g \in Host, NEW i \in Issue, Prune(g, i) \/ Abandon(g, i) \/ AgentEnds(g, i)
          PROVE  Live(h)' \subseteq Live(h) /\ Held(h)' \subseteq Held(h)
      <3>1. agent' = [agent EXCEPT ![g][i] = "none"] /\ reported' = [reported EXCEPT ![g] = @ \ {i}]
        BY <2>3 DEF Prune, Abandon, AgentEnds
      <3>2. \A j \in Issue : agent'[h][j] # "none" <=> agent[h][j] # "none" /\ ~(g = h /\ i = j)
        BY <3>1 DEF TypeOK
      <3>3. Live(h)' = IF g = h THEN Live(h) \ {i} ELSE Live(h)
        BY <3>2 DEF Live
      <3>4. reported'[h] = IF g = h THEN reported[h] \ {i} ELSE reported[h]
        BY <3>1 DEF TypeOK
      <3> QED BY <1>1, <3>3, <3>4 DEF Held
    <2>4. ASSUME NEW i \in Issue, Approve(i) \/ Edit(i) \/ Close(i) \/ Reopen(i)
          PROVE  Live(h)' = Live(h) /\ Held(h)' = Held(h)
      <3>1. UNCHANGED <<agent, reported>>
        BY <2>4 DEF Approve, Edit, Close, Reopen, hostVars
      <3> QED BY <1>1, <3>1 DEF Live, Held
    <2> QED BY <2>1, <2>2, <2>3, <2>4 DEF World
  <1>4. ASSUME NEW h \in Host
        PROVE  /\ Cardinality(Held(h)') <= Cardinality(Held(h))
               /\ Cardinality(Held(h)' \ Coming(h)') <= Cardinality(Held(h) \ Coming(h))
               /\ Cardinality(Held(h)') \in Nat /\ Cardinality(Held(h)) \in Nat
               /\ Cardinality(Held(h)' \ Coming(h)') \in Nat /\ Cardinality(Held(h) \ Coming(h)) \in Nat
    <2>1. Held(h) \subseteq Issue /\ Held(h)' \subseteq Held(h)
      BY <1>3 DEF Held, Live
    <2>2. (Held(h)' \ Coming(h)') \subseteq (Held(h) \ Coming(h))
      BY <1>2, <2>1
    <2> QED BY <2>1, <2>2, Counted
  <1>5. ASSUME NEW h \in Host
        PROVE  /\ at'[h] = "reports" => Live(h)' \subseteq pass'[h].live
               /\ at'[h] \in {"list", "names", "look", "claim"} \cup Starting =>
                    Cardinality(Held(h)' \ Coming(h)') + pass'[h].free <= MaxWorkers
    <2> DEFINE was == Cardinality(Held(h) \ Coming(h))
               is == Cardinality(Held(h)' \ Coming(h)')
    <2>1. pass[h].free \in Nat
      BY DEF TypeOK, Passes
    <2>2. is \in Nat /\ was \in Nat /\ is <= was
      BY <1>4
    <2>3. at[h] = "reports" => Live(h) \subseteq pass[h].live
      BY DEF SlotInv
    <2>4. at[h] \in {"list", "names", "look", "claim"} \cup Starting => was + pass[h].free <= MaxWorkers
      BY DEF SlotInv
    <2> HIDE DEF was, is
    <2>5. was + pass[h].free <= MaxWorkers => is + pass[h].free <= MaxWorkers
      BY <2>1, <2>2
    <2> QED BY <1>1, <1>3, <2>3, <2>4, <2>5 DEF is
  <1>6. SlotInv'
    BY <1>5 DEF SlotInv
  <1>7. ASSUME NEW h \in Host PROVE Cardinality(Held(h)') <= MaxWorkers
    <2> DEFINE was == Cardinality(Held(h))
               is == Cardinality(Held(h)')
    <2>1. was \in Nat /\ is \in Nat /\ is <= was
      BY <1>4
    <2>2. was <= MaxWorkers
      BY CapIs
    <2> HIDE DEF was, is
    <2>3. is <= MaxWorkers
      BY <2>1, <2>2
    <2> QED BY <2>3 DEF is
  <1>8. CapKept'
    BY <1>7 DEF CapKept, Held
  <1> QED BY <1>6, <1>8

-----------------------------------------------------------------------------
(* The theorems *)

LEMMA InitHolds == Init => IInv
  <1> SUFFICES ASSUME Init PROVE IInv
    OBVIOUS
  <1> USE DEF Init
  <1>1. scene \in Scenes /\ scene.inProgress \cap scene.open = {} /\ scene.moves \in Nat
    OBVIOUS
  <1>2. open \subseteq Issue /\ ready \subseteq Issue /\ inProgress \subseteq Issue /\ approved \subseteq Issue
    BY <1>1
  <1>3. \A h \in Host : Live(h) = {} /\ Held(h) = {}
    BY DEF Live, Held
  <1>4. TypeOK
    BY <1>1, <1>2, <1>3, FreshPass DEF TypeOK, Labels
  <1>5. QueueInv /\ ClaimInv /\ MadeInv /\ BoardInv
    BY DEF QueueInv, ClaimInv, MadeInv, BoardInv, Starting
  <1>6. SlotInv
    BY DEF SlotInv, Starting
  <1>7. ClaimsStandForWork
    BY <1>1 DEF ClaimsStandForWork
  <1>8. CapKept
    <2>1. \A h \in Host : Cardinality(Held(h)) = 0
      BY <1>3, FS_EmptySet
    <2>2. \A h \in Host : Cardinality(Held(h)) <= MaxWorkers
      BY <2>1
    <2> QED BY <2>2, CapIs
  <1> QED BY <1>4, <1>5, <1>6, <1>7, <1>8 DEF IInv

LEMMA NextHolds == IInv /\ [Next]_vars => IInv'
  <1> SUFFICES ASSUME IInv, [Next]_vars PROVE IInv'
    OBVIOUS
  <1> USE DEF IInv
  <1>1. CASE Next
    <2>1. TypeOK' /\ QueueInv'
      BY <1>1, TypeStep
    <2>2. ASSUME NEW h \in Host, Step(h) \/ Crash(h) PROVE IInv'
      BY <2>1, <2>2, ClaimsKept, BoardKept, SlotsKept
    <2>3. ASSUME World PROVE IInv'
      BY <2>1, <2>3, ClaimsOfWorld, BoardOfWorld, SlotsOfWorld
    <2> QED BY <1>1, <2>2, <2>3 DEF Next
  <1>2. CASE UNCHANGED vars
    <2> USE <1>2 DEF vars, boardVars, hostVars, historyVars
    <2>1. \A h \in Host : /\ Current(h)' = Current(h) /\ Live(h)' = Live(h) /\ Held(h)' = Held(h)
                          /\ Coming(h)' = Coming(h)
      BY DEF Current, Live, Held, Coming
    <2>2. \A h \in Host : \A i : Working(h, i)' <=> Working(h, i)
      BY DEF Working
    <2>3. \A i : InHand(i)' <=> InHand(i)
      BY <2>1 DEF InHand
    <2>4. TypeOK' /\ QueueInv' /\ ClaimInv' /\ MadeInv'
      BY <2>1 DEF TypeOK, QueueInv, ClaimInv, MadeInv
    <2>5. BoardInv' /\ SlotInv'
      BY <2>1, <2>2 DEF BoardInv, SlotInv
    <2>6. ClaimsStandForWork'
      BY <2>2, <2>3 DEF ClaimsStandForWork
    <2>7. CapKept'
      BY DEF CapKept, Live
    <2> QED BY <2>4, <2>5, <2>6, <2>7
  <1> QED BY <1>1, <1>2

\* The inductive invariant: types, what a pass works on, who has the claim, what the
\* board says and which slots are taken.
THEOREM Invariant == Spec => []IInv
  BY InitHolds, NextHolds, PTL DEF Spec

\* At most one machine makes a checkout for an issue since it was last opened, unless
\* the claim was cleared under it: who makes one has the claim, and the claim is
\* created once (claimIssue).
THEOREM OneMachine == Spec => []OneWorker
  <1>1. IInv => OneWorker
    <2> SUFFICES ASSUME IInv, NEW i \in Issue, i \notin swept PROVE Cardinality(made[i]) <= 1
      BY DEF OneWorker
    <2>1. made[i] \subseteq {claim[i]}
      BY DEF IInv, ClaimInv
    <2>2. IsFiniteSet({claim[i]}) /\ Cardinality({claim[i]}) = 1
      BY FS_Singleton
    <2>3. Cardinality(made[i]) <= Cardinality({claim[i]})
      BY <2>1, <2>2, FS_Subset
    <2> QED BY <2>2, <2>3
  <1> QED BY Invariant, <1>1, PTL

\* A claim on an open issue, and its label, stand for work on some machine, but for what
\* was left over (releaseFailedClaim, swapLabel).
THEOREM BoardIsTrue == Spec => []ClaimsStandForWork
  <1>1. IInv => ClaimsStandForWork
    BY DEF IInv
  <1> QED BY Invariant, <1>1, PTL

\* The briefed workers of a machine never hold more than --max slots (busyWorkers).
THEOREM NeverOverMax == Spec => []CapKept
  <1>1. IInv => CapKept
    BY DEF IInv
  <1> QED BY Invariant, <1>1, PTL
=============================================================================
