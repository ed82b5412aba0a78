-------------------------- MODULE OnboardingProofs --------------------------
(***************************************************************************)
(* Theorems about Onboarding for any number of deliveries, approvals,        *)
(* commands and starts, every ledger, every set of faults and all bounds:    *)
(* what a worker reads of its issue and is taught was approved, its brief    *)
(* is typed into nothing a look could have told from a composer, and the     *)
(* lessons stay where they were put.                                         *)
(***************************************************************************)
EXTENDS Onboarding, TLAPS, WellFoundedInduction

(***************************************************************************)
(* Lessons.                                                                *)
(***************************************************************************)

\* What may still be given to a worker, in the file or in a copy of it, was agreed to;
\* but for the lesson a person is being asked about.
Asked(c) == todo[c].kind = "approve" /\ todo[c].at \in {"ask", "publish"}

AgreedInv ==
  /\ \A l \in live : l.by # Nobody => l \in agreed
  /\ \A c \in Command : \A l \in hand[c].live :
       l.by # Nobody => l \in agreed \/ (Asked(c) /\ l.id = Id(c))

\* What a command is about, and what it is going to write.
HandInv ==
  \A c \in Command :
    /\ todo[c].at # "over" /\ (todo[c].at = "read" => todo[c].kind # "propose") => todo[c].ids # {}
    /\ Is(c, "approve", "live") =>
         \E w \in Words : Entry(hand[c].drafts, Id(c)) = {Draft(Id(c), w)}
    /\ Asked(c) => Entry(hand[c].live, Id(c)) = {Shown(c)}
    /\ Is(c, "approve", "publish") => Shown(c) \in agreed

\* The lesson of a draft that is about to be dropped is live, unless it was taken out or
\* overwritten, or is a draft again.
DropInv ==
  \A c \in Command :
    Is(c, "approve", "drop") /\ c \notin anew /\ Id(c) \notin clobbered /\ fate[Id(c)] = "kept"
      => Id(c) \in Ids(live)

\* A start that has pinned nothing has nothing pinned.
PinInv == \A s \in Starter : brief[s].at = "pin" => brief[s].lessons = {} /\ ~brief[s].told

LessonsInv ==
  LessonsTypeOK /\ PinInv /\ AgreedInv /\ HandInv /\ DropInv /\ TaughtAsAgreed /\ LessonsKept

(***************************************************************************)
(* A delivery.                                                             *)
(***************************************************************************)

Early == {"issue", "fetch", "judge", "create", "pin", "staff"}
AtPane == {"look", "type", "screen", "press", "status", "echo"}

\* Before a delivery types, nothing of its brief is in its pane.
BoxInv ==
  \A d \in Delivery :
    /\ at[d] \in Early \cup {"await", "look", "type"} => "brief" \notin box[d] /\ d \notin taken
    /\ at[d] \in Early \cup {"await", "look", "type", "refused"} => judged[d].how = "not"
    /\ d \in taken => "brief" \notin box[d] /\ screen[d] # "launching"
    /\ d \notin taken => "brief" \notin echoed[d]

\* What the delivery was told of its pane holds until the pane moves.
PaneInv ==
  \A d \in Delivery :
    /\ at[d] \in {"type", "press"} /\ d \notin sinceCall => screen[d] # "dialog"
    /\ at[d] \in AtPane /\ d \notin sinceReady => OldHerdr \/ screen[d] # "shell"

BriefInv == BriefTypeOK /\ BoxInv /\ PaneInv /\ NoBlindKey /\ IdleIsReadRightly

(***************************************************************************)
(* An approved issue.                                                      *)
(***************************************************************************)

\* A text that a worker in this delivery may read.
MayBeRead(d, t) ==
  IF kind[d] = "start" THEN \E c \in Listed : <<c, t>> \in confirmed ELSE t = want[d]

\* Whoever is listed confirmed what their comments say.
ConfirmedInv ==
  /\ \A a \in Approve : step[a] \in {"answer", "post", "label"} => shown[a] \in Text
  /\ \A a \in Approve : step[a] = "post" => <<Who[a], shown[a]>> \in confirmed
  /\ \A i \in DOMAIN comments : comments[i].by \in Listed =>
       <<comments[i].by, comments[i].sha>> \in confirmed
  /\ \A d \in Delivery : \A i \in DOMAIN snap[d].comments : snap[d].comments[i].by \in Listed =>
       <<snap[d].comments[i].by, snap[d].comments[i].sha>> \in confirmed

\* What a delivery has found out of its issue.
Stands(d) ==
  /\ at[d] \in Early \ {"staff"} => pinned[d] = NoText /\ read[d] = NoText
  /\ at[d] \in {"issue", "fetch"} => checked[d] = {}
  /\ at[d] = "judge" => /\ guarded[d] /\ kind[d] = "start" /\ snap[d].text \in Text
                        /\ Account \ writers \subseteq lacked[d]
                        /\ checked[d] \subseteq lacked[d]
  /\ at[d] \in {"create", "pin"} /\ guarded[d] =>
       snap[d].text \in Text /\ MayBeRead(d, snap[d].text)
  /\ pinned[d] # NoText => MayBeRead(d, pinned[d])
  /\ d \in taken \/ "brief" \in box[d] \/ at[d] \in {"staff", "await"} \cup AtPane =>
       (guarded[d] => pinned[d] # NoText)
  /\ read[d] # NoText => d \in taken

StandsInv == \A d \in Delivery : Stands(d)

StartInv ==
  StartTypeOK /\ ConfirmedInv /\ StandsInv /\ WorksFromTheApproved /\ RefusedForCause

IInv == LessonsInv /\ BriefInv /\ StartInv
-----------------------------------------------------------------------------
LEMMA Bounds ==
  /\ MaxPolls \in Nat /\ MaxEvents \in Nat /\ MaxEdits \in Nat /\ Lifetime \in Nat \ {0}
  /\ Todo \notin Words /\ NoText \notin Text /\ Filed \in Text /\ Listed \subseteq Account
  /\ Who \in [Approve -> Account]
  BY StartAssumption, LessonsAssumption DEF StartAssumption, LessonsAssumption

USE Bounds


(* Delivering a brief *)

\* A call of a delivery that says where it goes next and moves no other one.
LEMMA BriefTypes ==
  ASSUME BriefTypeOK, NEW d \in Delivery, Deliver(d) \/ Pane(d)
  PROVE  BriefTypeOK'
  <1> USE DEF BriefTypeOK, Places, Fails, GoTo, Event, PaneEvent, paneVars
  <1>1. CASE Deliver(d)
    <2> SUFFICES ASSUME Await(d) \/ Look(d) \/ Type(d) \/ ScreenAgain(d) \/ Press(d) \/ Status(d) \/ Echo(d)
                 PROVE  BriefTypeOK'
      BY <1>1 DEF Deliver
    <2>0. sinceCall' \subseteq Delivery
      BY <1>1 DEF Deliver
    <2>1. CASE Await(d)
      <3>0. \/ polls' = [polls EXCEPT ![d] = 0] \/ UNCHANGED polls
            \/ polls' = [polls EXCEPT ![d] = polls[d] + 1]
        BY <2>1 DEF Await
      <3>1. sinceReady' \subseteq Delivery /\ polls' \in [Delivery -> Nat]
        BY <2>1, <3>0 DEF Await
      <3>2. at' \in [Delivery -> Places]
        BY <2>1, ZenonT(60) DEF Await
      <3> QED BY <2>0, <2>1, <3>1, <3>2 DEF Await
    <2>2. CASE Look(d) \/ ScreenAgain(d)
      BY <2>0, <2>2, SMTT(30) DEF Look, ScreenAgain, RefuseGatekeeper
    <2>3. ASSUME NEW key \in {"text", "enter"}, Meets(d, key)
          PROVE  blind' \in [Delivery -> SUBSET [key : {"text", "enter"}, on : Screens, late : BOOLEAN]]
      <3> DEFINE met == [key |-> key, on |-> screen[d],
                         late |-> d \in IF screen[d] = "shell" THEN sinceReady ELSE sinceCall]
      <3>1. met \in [key : {"text", "enter"}, on : Screens, late : BOOLEAN]
        OBVIOUS
      <3>2. blind' = [blind EXCEPT ![d] = blind[d] \cup {met}]
        BY <2>3 DEF Meets
      <3> HIDE DEF met
      <3> QED BY <3>1, <3>2
    <2>4. CASE Type(d)
      <3>1. blind' \in [Delivery -> SUBSET [key : {"text", "enter"}, on : Screens, late : BOOLEAN]]
        BY <2>3, <2>4 DEF Type
      <3>2. box' \in [Delivery -> SUBSET Writers]
        BY <2>4 DEF Type, Writers
      <3> QED BY <2>0, <2>4, <3>1, <3>2, SMTT(30) DEF Type
    <2>5. CASE Press(d)
      <3>1. blind' \in [Delivery -> SUBSET [key : {"text", "enter"}, on : Screens, late : BOOLEAN]]
        BY <2>3, <2>5 DEF Press, Enter
      <3>2. /\ box' \in [Delivery -> SUBSET Writers] /\ echoed' \in [Delivery -> SUBSET Writers]
            /\ taken' \subseteq Delivery
        BY <2>5 DEF Press, Enter, Prompted
      <3>3. screen' \in [Delivery -> Screens]
        BY <2>5 DEF Press, Enter, Prompted, Screens
      <3>4. finished' \in [Delivery -> BOOLEAN]
        BY <2>5 DEF Press, Enter, Prompted
      <3> QED BY <2>0, <2>5, <3>1, <3>2, <3>3, <3>4 DEF Press
    <2>6. ASSUME NEW how \in Hows, Judge(d, how)
          PROVE  judged' \in [Delivery -> [how : Hows, read : BOOLEAN, shown : SUBSET Writers]]
      BY <2>6 DEF Judge
    <2>9. ASSUME NEW how \in Hows, LookAgain(d, how)
          PROVE  polls' \in [Delivery -> Nat] /\ at' \in [Delivery -> Places]
      <3>1. \/ at' = [at EXCEPT ![d] = "failed"] /\ UNCHANGED polls
            \/ /\ polls' = [polls EXCEPT ![d] = polls[d] + 1]
               /\ \E l \in {"screen", "status"} : at' = [at EXCEPT ![d] = l]
        BY <2>9 DEF LookAgain
      <3>2. polls[d] + 1 \in Nat
        OBVIOUS
      <3> QED BY <3>1, <3>2
    <2>7. CASE Status(d)
      <3>1. AgentStatus(d) \subseteq Statuses
        BY DEF AgentStatus, Statuses
      <3>2. judged' \in [Delivery -> [how : Hows, read : BOOLEAN, shown : SUBSET Writers]]
        BY <2>6, <2>7, <3>1 DEF Status, LookAgain, Hows, Statuses
      <3>4. \/ at' = [at EXCEPT ![d] = "echo"] /\ UNCHANGED polls
            \/ LookAgain(d, "unknown")
            \/ at' = [at EXCEPT ![d] = "briefed"] /\ UNCHANGED polls
            \/ at' = [at EXCEPT ![d] = "failed"] /\ UNCHANGED polls
        BY <2>7, <3>1 DEF Status, LookAgain
      <3>3. polls' \in [Delivery -> Nat] /\ at' \in [Delivery -> Places]
        BY <2>9, <3>4 DEF Hows, Statuses
      <3> QED BY <2>0, <2>7, <3>2, <3>3 DEF Status
    <2>8. CASE Echo(d)
      <3>2. judged' \in [Delivery -> [how : Hows, read : BOOLEAN, shown : SUBSET Writers]]
        BY <2>6, <2>8 DEF Echo, LookAgain, Hows, Statuses
      <3>3. polls' \in [Delivery -> Nat] /\ at' \in [Delivery -> Places]
        BY <2>8, <2>9 DEF Echo, Hows, Statuses
      <3> QED BY <2>0, <2>8, <3>2, <3>3 DEF Echo
    <2> QED BY <2>1, <2>2, <2>4, <2>5, <2>7, <2>8
  <1>2. CASE Pane(d)
    <2>1. ASSUME NEW to \in Screens, Redraw(d, to)
          PROVE  /\ screen' \in [Delivery -> Screens]
                 /\ sinceReady' \subseteq Delivery /\ sinceCall' \subseteq Delivery
      BY <2>1 DEF Redraw
    <2>2. CASE Launches(d) \/ StartsUp(d) \/ DialogDrawn(d)
      BY <1>2, <2>1, <2>2 DEF Pane, Launches, StartsUp, DialogDrawn, Screens
    <2>3. CASE Asks(d) \/ PersonAnswers(d)
      BY <1>2, <2>1, <2>3 DEF Pane, Asks, PersonAnswers, Screens
    <2>4. CASE Exits(d) \/ BoxLost(d)
      BY <1>2, <2>1, <2>4 DEF Pane, Exits, BoxLost, Screens
    <2>5. CASE TurnEnds(d) \/ Scrolls(d)
      <3>1. finished' \in [Delivery -> BOOLEAN] /\ echoed' \in [Delivery -> SUBSET Writers]
        BY <2>5 DEF TurnEnds, Scrolls
      <3>2. /\ screen' \in [Delivery -> Screens]
            /\ sinceReady' \subseteq Delivery /\ sinceCall' \subseteq Delivery
        BY <2>1, <2>5 DEF TurnEnds, Scrolls, Screens
      <3>3. UNCHANGED <<at, polls, box, taken, blind, judged>> /\ events' \in Nat
        BY <1>2, <2>5 DEF Pane, TurnEnds, Scrolls
      <3> QED BY <3>1, <3>2, <3>3
    <2>6. CASE HumanPrompts(d)
      <3>1. box[d] \cup {"human"} \subseteq Writers
        BY DEF Writers
      <3>2. box' \in [Delivery -> SUBSET Writers] /\ echoed' \in [Delivery -> SUBSET Writers]
        BY <2>6, <3>1 DEF HumanPrompts, Prompted
      <3>3. screen' \in [Delivery -> Screens]
        BY <2>6 DEF HumanPrompts, Prompted, Screens
      <3>4. finished' \in [Delivery -> BOOLEAN]
        BY <2>6 DEF HumanPrompts, Prompted
      <3> QED BY <1>2, <2>6, <3>2, <3>3, <3>4 DEF Pane, HumanPrompts, Prompted
    <2> QED BY <1>2, <2>2, <2>3, <2>4, <2>5, <2>6 DEF Pane
  <1> QED BY <1>1, <1>2

\* Before a delivery types, nothing of its brief is in its pane; and what it concludes
\* from the screen is so.
LEMMA BoxStep ==
  ASSUME BriefTypeOK, BoxInv, IdleIsReadRightly, NEW d \in Delivery, Deliver(d) \/ Pane(d)
  PROVE  BoxInv' /\ IdleIsReadRightly'
  <1> USE DEF BriefTypeOK, BoxInv, IdleIsReadRightly, Early, Fails, GoTo, paneVars
  <1>0. SUFFICES ASSUME NEW e \in Delivery
                 PROVE  /\ at'[e] \in Early \cup {"await", "look", "type"} => "brief" \notin box'[e] /\ e \notin taken'
                        /\ at'[e] \in Early \cup {"await", "look", "type", "refused"} => judged'[e].how = "not"
                        /\ e \in taken' => "brief" \notin box'[e] /\ screen'[e] # "launching"
                        /\ e \notin taken' => "brief" \notin echoed'[e]
                        /\ judged'[e].how = "echo" => judged'[e].read \/ "earlier" \in judged'[e].shown
                        /\ judged'[e].how = "idle" => ~judged'[e].read \/ "brief" \notin judged'[e].shown
    OBVIOUS
  <1>1. CASE Await(d)
    BY <1>1 DEF Await
  <1>2. CASE Look(d) \/ ScreenAgain(d)
    BY <1>2 DEF Look, ScreenAgain, RefuseGatekeeper
  <1>3. CASE Type(d)
    BY <1>3 DEF Type
  <1>4. CASE Press(d)
    BY <1>4 DEF Press, Enter, Prompted
  <1>5. CASE Status(d)
    BY <1>5 DEF Status, LookAgain, Judge, AgentStatus, Statuses
  <1>6. CASE Echo(d)
    <2>1. UNCHANGED <<screen, box, echoed, taken>>
      BY <1>6 DEF Echo
    <2>2. CASE UNCHANGED judged
      BY <1>6, <2>1, <2>2 DEF Echo, LookAgain
    <2>3. ASSUME BriefTaken(d) PROVE "earlier" \in echoed[d] \/ d \in taken
      BY <2>3 DEF BriefTaken
    <2>4. ASSUME BriefTaken(d) PROVE Agent(d)
      BY <2>4 DEF BriefTaken, Agent, Composer
    <2>5. ASSUME ~BriefTaken(d), Agent(d), d \in taken PROVE "brief" \notin echoed[d]
      BY <2>5 DEF BriefTaken, Agent, Composer, Screens
    <2>6. CASE BriefTaken(d) /\ GoTo(d, "briefed") /\ Judge(d, "echo")
      BY <2>1, <2>3, <2>4, <2>6 DEF Judge
    <2>7. CASE ~BriefTaken(d) /\ GoTo(d, "failed") /\ Judge(d, "idle")
      BY <2>1, <2>5, <2>7 DEF Judge
    <2> QED BY <1>6, <2>2, <2>6, <2>7 DEF Echo, LookAgain
  <1>7. CASE Pane(d)
    <2>1. UNCHANGED <<at, judged>>
      BY <1>7 DEF Pane, Launches, StartsUp, DialogDrawn, Asks, PersonAnswers, Exits, BoxLost,
              TurnEnds, Scrolls, HumanPrompts
    <2>2. CASE Launches(d) \/ StartsUp(d) \/ DialogDrawn(d) \/ Asks(d) \/ PersonAnswers(d)
      BY <2>1, <2>2 DEF Launches, StartsUp, DialogDrawn, Asks, PersonAnswers, Redraw
    <2>3. CASE Exits(d) \/ BoxLost(d) \/ TurnEnds(d) \/ Scrolls(d)
      BY <2>1, <2>3 DEF Exits, BoxLost, TurnEnds, Scrolls, Redraw
    <2>4. CASE HumanPrompts(d)
      BY <2>1, <2>4 DEF HumanPrompts, Prompted
    <2> QED BY <1>7, <2>2, <2>3, <2>4 DEF Pane
  <1> QED BY <1>1, <1>2, <1>3, <1>4, <1>5, <1>6, <1>7 DEF Deliver

\* What a delivery was told of its pane holds until the pane moves.
LEMMA PaneStep ==
  ASSUME BriefTypeOK, PaneInv, NEW d \in Delivery, Deliver(d) \/ Pane(d)
  PROVE  PaneInv'
  <1> USE DEF BriefTypeOK, PaneInv, AtPane, Fails, GoTo, paneVars
  <1>0. SUFFICES ASSUME NEW e \in Delivery
                 PROVE  /\ at'[e] \in {"type", "press"} /\ e \notin sinceCall' => screen'[e] # "dialog"
                        /\ at'[e] \in AtPane /\ e \notin sinceReady' => OldHerdr \/ screen'[e] # "shell"
    OBVIOUS
  <1>1. CASE Deliver(d)
    <2>0. sinceCall' = sinceCall \ {d}
      BY <1>1 DEF Deliver
    <2>1. CASE Await(d)
      BY <2>0, <2>1 DEF Await, InteractiveReady, AgentStatus, Composer
    <2>2. CASE Look(d) \/ ScreenAgain(d)
      BY <2>0, <2>2 DEF Look, ScreenAgain, RefuseGatekeeper
    <2>3. CASE Type(d)
      BY <2>0, <2>3 DEF Type
    <2>4. CASE Press(d)
      BY <2>0, <2>4 DEF Press, Enter, Prompted
    <2>5. CASE Status(d)
      BY <2>0, <2>5 DEF Status, LookAgain
    <2>6. CASE Echo(d)
      BY <2>0, <2>6 DEF Echo, LookAgain
    <2> QED BY <1>1, <2>1, <2>2, <2>3, <2>4, <2>5, <2>6 DEF Deliver
  <1>2. CASE Pane(d)
    <2>1. at' = at
      BY <1>2 DEF Pane
    <2>2. CASE Scrolls(d)
      BY <2>1, <2>2 DEF Scrolls
    <2>3. CASE HumanPrompts(d)
      BY <2>1, <2>3 DEF HumanPrompts, Prompted
    <2>4. CASE \E to \in Screens : Redraw(d, to)
      BY <2>1, <2>4 DEF Redraw
    <2> QED BY <1>2, <2>2, <2>3, <2>4 DEF Pane, Launches, StartsUp, DialogDrawn, Asks, PersonAnswers,
            Exits, BoxLost, TurnEnds, Screens
  <1> QED BY <1>1, <1>2

\* Every key that met something other than a composer met it too late to be told.
LEMMA KeyStep ==
  ASSUME BriefTypeOK, PaneInv, NoBlindKey, NEW d \in Delivery, Deliver(d) \/ Pane(d)
  PROVE  NoBlindKey'
  <1> USE DEF BriefTypeOK
  <1>1. CASE UNCHANGED blind
    BY <1>1 DEF NoBlindKey
  <1>2. ASSUME NEW key \in {"text", "enter"}, Meets(d, key), at[d] \in {"type", "press"},
               screen[d] \in {"dialog", "asks", "shell"}
        PROVE  NoBlindKey'
    <2> DEFINE met == [key |-> key, on |-> screen[d],
                       late |-> d \in IF screen[d] = "shell" THEN sinceReady ELSE sinceCall]
    <2>1. blind' = [blind EXCEPT ![d] = blind[d] \cup {met}]
      BY <1>2 DEF Meets
    <2>2. met.late \/ met.on = "asks" \/ (met.on = "shell" /\ OldHerdr)
      BY <1>2 DEF PaneInv, AtPane
    <2> HIDE DEF met
    <2> QED BY <2>1, <2>2 DEF NoBlindKey
  <1>3. CASE Type(d)
    BY <1>1, <1>2, <1>3 DEF Type
  <1>4. CASE Press(d)
    BY <1>1, <1>2, <1>4 DEF Press, Enter, paneVars
  <1> QED BY <1>1, <1>3, <1>4 DEF Deliver, Await, Look, ScreenAgain, Status, Echo, Pane, Launches,
          StartsUp, DialogDrawn, Asks, PersonAnswers, Exits, BoxLost, TurnEnds, Scrolls, HumanPrompts

\* A step of a command that is not at the pane yet; and one of nobody here.
LEMMA BriefElsewhere ==
  ASSUME BriefInv, NEW d \in Delivery, UNCHANGED briefVars, events' \in Nat,
         at[d] \in Early \ {"staff"},
         \E l \in Early \cup {"await", "failed", "refused"} : at' = [at EXCEPT ![d] = l]
  PROVE  BriefInv'
  <1>1. BriefTypeOK'
    BY DEF BriefInv, BriefTypeOK, briefVars, paneVars, briefHistory, Places, Early
  <1>2. BoxInv' /\ PaneInv'
    BY DEF BriefInv, BriefTypeOK, BoxInv, PaneInv, briefVars, paneVars, briefHistory, Early, AtPane
  <1>3. NoBlindKey' /\ IdleIsReadRightly'
    BY DEF BriefInv, NoBlindKey, IdleIsReadRightly, briefVars, briefHistory
  <1> QED BY <1>1, <1>2, <1>3 DEF BriefInv

LEMMA ElsewhereStays ==
  ASSUME BriefInv, UNCHANGED briefVars, at' = at, events' \in Nat
  PROVE  BriefInv'
  <1>1. BriefTypeOK'
    BY DEF BriefInv, BriefTypeOK, briefVars, paneVars, briefHistory
  <1>2. BoxInv' /\ PaneInv'
    BY DEF BriefInv, BoxInv, PaneInv, briefVars, paneVars, briefHistory
  <1>3. NoBlindKey' /\ IdleIsReadRightly'
    BY DEF BriefInv, NoBlindKey, IdleIsReadRightly, briefVars, briefHistory
  <1> QED BY <1>1, <1>2, <1>3 DEF BriefInv

LEMMA BriefStep ==
  ASSUME BriefInv, NEW d \in Delivery, Deliver(d) \/ Pane(d)
  PROVE  BriefInv'
  BY BriefTypes, BoxStep, PaneStep, KeyStep DEF BriefInv

-----------------------------------------------------------------------------
(* Lessons *)

LEMMA TodoType ==
  ASSUME NEW t \in [kind : Kinds, at : Stages, ids : SUBSET Lesson],
         NEW l \in Stages, NEW ids \in SUBSET Lesson
  PROVE  [t EXCEPT !.at = l, !.ids = ids] \in [kind : Kinds, at : Stages, ids : SUBSET Lesson]
  OBVIOUS

LEMMA LessonsTypes ==
  ASSUME LessonsTypeOK, HandInv, LessonsNext
  PROVE  LessonsTypeOK'
  <1> USE DEF LessonsTypeOK, Act
  <1>1. ASSUME NEW c \in Command, CommandStep(c)
        PROVE  LessonsTypeOK'
    <2>1. ASSUME todo[c].ids # {} PROVE Id(c) \in todo[c].ids /\ Id(c) \in Lesson
      BY <2>1 DEF Id
    <2>2. ASSUME NEW l \in Stages, Turn(c, l)
          PROVE  todo' \in [Command -> [kind : Kinds, at : Stages, ids : SUBSET Lesson]]
      BY <2>2 DEF Turn
    <2>3. ASSUME NextDraft(c) \/ Ends(c)
          PROVE  /\ todo' \in [Command -> [kind : Kinds, at : Stages, ids : SUBSET Lesson]]
                 /\ hand' \in [Command -> [live : SUBSET LiveLessons, drafts : SUBSET Drafts]]
      <3>1. \E l \in {"read", "over"}, ids \in SUBSET Lesson :
              todo' = [todo EXCEPT ![c] = [todo[c] EXCEPT !.at = l, !.ids = ids]]
        <4>1. CASE NextDraft(c)
          <5>1. todo[c].ids \ {Id(c)} \in SUBSET Lesson
            OBVIOUS
          <5>2. todo' = [todo EXCEPT ![c] = [todo[c] EXCEPT !.at = "read", !.ids = todo[c].ids \ {Id(c)}]]
            BY <4>1 DEF NextDraft
          <5> QED BY <5>1, <5>2
        <4>2. CASE Ends(c)
          BY <4>2 DEF Ends
        <4> QED BY <2>3, <4>1, <4>2
      <3>2. todo' \in [Command -> [kind : Kinds, at : Stages, ids : SUBSET Lesson]]
        <4>1. PICK l \in {"read", "over"}, ids \in SUBSET Lesson :
                todo' = [todo EXCEPT ![c] = [todo[c] EXCEPT !.at = l, !.ids = ids]]
          BY <3>1
        <4>2. [todo[c] EXCEPT !.at = l, !.ids = ids] \in [kind : Kinds, at : Stages, ids : SUBSET Lesson]
          <5>1. todo[c] \in [kind : Kinds, at : Stages, ids : SUBSET Lesson]
            OBVIOUS
          <5>2. l \in Stages
            BY DEF Stages
          <5> QED BY <5>1, <5>2, TodoType
        <4> QED BY <4>1, <4>2
      <3>3. hand' \in [Command -> [live : SUBSET LiveLessons, drafts : SUBSET Drafts]]
        BY <2>3 DEF NextDraft, Ends, LetsGo, Holds
      <3> QED BY <3>2, <3>3
    <2>4. ASSUME NEW l \in SUBSET LiveLessons, NEW p \in SUBSET Drafts, Holds(c, l, p)
          PROVE  hand' \in [Command -> [live : SUBSET LiveLessons, drafts : SUBSET Drafts]]
      BY <2>4 DEF Holds
    <2>5. ASSUME NEW id \in Lesson, NEW end \in {"kept", "gone"}, Becomes(id, end)
          PROVE  fate' \in [Lesson -> {"none", "kept", "gone"}]
      BY <2>5 DEF Becomes
    <2>6. CASE ProposeReadsLive(c) \/ ProposeReadsDrafts(c)
      BY <2>2, <2>3, <2>4, <2>6 DEF ProposeReadsLive, ProposeReadsDrafts, Still, Stages
    <2>7. CASE ProposeWrites(c)
      <3>1. Id(c) \in Lesson
        BY <2>1, <2>7 DEF ProposeWrites, Is, HandInv
      <3>2. Draft(Id(c), Todo) \in Drafts
        BY <3>1 DEF Draft, Drafts
      <3> QED BY <2>3, <2>5, <2>7, <3>1, <3>2 DEF ProposeWrites, Overrules, Changed
    <2>8. CASE ApproveReadsDrafts(c)
      BY <2>2, <2>3, <2>4, <2>8 DEF ApproveReadsDrafts, Still, Stages
    <2>9. CASE ApproveReadsLive(c)
      <3>1. CASE Ends(c)
        BY <2>3, <2>9, <3>1 DEF ApproveReadsLive, Still
      <3>2. CASE Turn(c, "ask") /\ Holds(c, live \cup {Approved(c)}, hand[c].drafts)
        <4>1. Id(c) \in Lesson
          BY <2>1, <2>9 DEF ApproveReadsLive, Is, HandInv
        <4>2. PICK w \in Words : Entry(hand[c].drafts, Id(c)) = {Draft(Id(c), w)}
          BY <2>9 DEF ApproveReadsLive, HandInv
        <4>3. Approved(c) = Live(Id(c), w, "person", today + Lifetime)
          <5>1. (CHOOSE l \in {Draft(Id(c), w)} : TRUE) = Draft(Id(c), w)
            OBVIOUS
          <5>2. Draft(Id(c), w).text = w
            BY DEF Draft
          <5> QED BY <4>2, <5>1, <5>2 DEF Approved
        <4>4. Approved(c) \in LiveLessons
          BY <4>1, <4>3 DEF Live, LiveLessons
        <4> QED BY <2>2, <2>4, <2>9, <3>2, <4>4 DEF ApproveReadsLive, Still, Stages
      <3> QED BY <2>9, <3>1, <3>2 DEF ApproveReadsLive
    <2>10. CASE PersonSaysYes(c)
      <3>1. Shown(c) \in LiveLessons
        BY <2>10 DEF PersonSaysYes, Is, HandInv, Asked, Entry
      <3> QED BY <2>2, <2>10, <3>1 DEF PersonSaysYes, Still, Stages
    <2>11. CASE PersonSaysNo(c) \/ Dies(c)
      <3>1. edits' \in 0..MaxEdits
        BY <2>11 DEF PersonSaysNo, Dies
      <3> QED BY <2>3, <2>11, <3>1 DEF PersonSaysNo, Dies, Still, files
    <2>12. CASE Publish(c)
      <3>1. Id(c) \in Lesson
        BY <2>1, <2>12 DEF Publish, Is, HandInv
      <3> QED BY <2>2, <2>5, <2>12, <3>1 DEF Publish, Overrules, Changed, Stages
    <2>13. CASE DropDraft(c)
      <3>1. Id(c) \in Lesson
        BY <2>1, <2>13 DEF DropDraft, Is, HandInv
      <3> QED BY <2>3, <2>13, <3>1 DEF DropDraft, Overrules, Changed, Without
    <2>14. CASE RemoveReads(c)
      BY <2>2, <2>3, <2>4, <2>14 DEF RemoveReads, Still, Stages
    <2>15. CASE RemoveWrites(c)
      <3>1. Id(c) \in Lesson
        BY <2>1, <2>15 DEF RemoveWrites, Is, HandInv
      <3> QED BY <2>3, <2>5, <2>15, <3>1 DEF RemoveWrites, Overrules, Changed, Without
    <2> QED BY <1>1, <2>6, <2>7, <2>8, <2>9, <2>10, <2>11, <2>12, <2>13, <2>14, <2>15 DEF CommandStep
  <1>2. ASSUME NEW s \in Starter, PinLessons(s)
        PROVE  LessonsTypeOK'
    <2>1. Usable(live, today) \subseteq LiveLessons
      BY DEF Usable
    <2>2. \A use \in BriefLessons(live, today) : use \subseteq LiveLessons
      BY <2>1 DEF BriefLessons
    <2>3. brief' \in [Starter -> [at : {"pin", "briefed"}, lessons : SUBSET LiveLessons,
                                  told : BOOLEAN, day : Nat]]
      BY <1>2, <2>2 DEF PinLessons
    <2> QED BY <1>2, <2>3 DEF PinLessons, files
  <1>3. CASE EditDraft
    <2>1. ASSUME NEW l \in drafts, NEW w \in Words PROVE Draft(l.id, w) \in Drafts
      BY DEF Draft, Drafts
    <2>2. drafts' \subseteq Drafts
      BY <1>3, <2>1 DEF EditDraft, Without
    <2>3. \A l \in drafts : l.id \in Lesson
      BY DEF Drafts
    <2>4. fate' \in [Lesson -> {"none", "kept", "gone"}]
      BY <1>3, <2>3 DEF EditDraft, Becomes
    <2> QED BY <1>3, <2>2, <2>4 DEF EditDraft, EditRest
  <1>4. CASE EditLive
    <2>1. ASSUME NEW l \in live PROVE [l EXCEPT !.by = Nobody] \in LiveLessons /\ l.id \in Lesson
      BY DEF LiveLessons
    <2>2. live' \subseteq LiveLessons
      BY <1>4, <2>1 DEF EditLive, Without
    <2>4. fate' \in [Lesson -> {"none", "kept", "gone"}]
      BY <1>4, <2>1 DEF EditLive, Becomes
    <2> QED BY <1>4, <2>2, <2>4 DEF EditLive, EditRest
  <1>5. CASE Misspell \/ DayPasses
    <2>1. edits' \in 0..MaxEdits /\ today' \in Nat
      BY <1>5 DEF Misspell, DayPasses, EditRest
    <2>2. garbled' \subseteq {"live", "drafts"}
      BY <1>5 DEF Misspell, DayPasses, EditRest, files
    <2>3. UNCHANGED <<live, drafts, todo, hand, brief, agreed, fate, anew, clobbered>>
      BY <1>5 DEF Misspell, DayPasses, EditRest, files
    <2> QED BY <2>1, <2>2, <2>3
  <1> QED BY <1>1, <1>2, <1>3, <1>4, <1>5 DEF LessonsNext

\* The commands other than the one that moves hold what they held.
Others(c) ==
  \A a \in Command : a # c => todo'[a] = todo[a] /\ hand'[a] = hand[a]

LEMMA CommandAlone ==
  ASSUME LessonsTypeOK, NEW c \in Command, CommandStep(c)
  PROVE  Others(c)
  <1> USE DEF LessonsTypeOK, Others
  <1>1. ASSUME NextDraft(c) \/ Ends(c) PROVE Others(c)
    BY <1>1 DEF NextDraft, Ends, LetsGo, Holds
  <1>2. ASSUME NEW l, Turn(c, l) PROVE \A a \in Command : a # c => todo'[a] = todo[a]
    BY <1>2 DEF Turn
  <1>3. ASSUME NEW l, NEW p, Holds(c, l, p) PROVE \A a \in Command : a # c => hand'[a] = hand[a]
    BY <1>3 DEF Holds
  <1>4. CASE ProposeReadsLive(c) \/ ProposeReadsDrafts(c) \/ ProposeWrites(c)
    BY <1>1, <1>2, <1>3, <1>4 DEF ProposeReadsLive, ProposeReadsDrafts, ProposeWrites
  <1>5. CASE ApproveReadsDrafts(c) \/ ApproveReadsLive(c)
    BY <1>1, <1>2, <1>3, <1>5 DEF ApproveReadsDrafts, ApproveReadsLive
  <1>6. CASE PersonSaysYes(c) \/ PersonSaysNo(c) \/ Publish(c) \/ DropDraft(c)
    BY <1>1, <1>2, <1>6 DEF PersonSaysYes, PersonSaysNo, Publish, DropDraft
  <1>7. CASE RemoveReads(c) \/ RemoveWrites(c) \/ Dies(c)
    BY <1>1, <1>2, <1>3, <1>7 DEF RemoveReads, RemoveWrites, Dies
  <1> QED BY <1>4, <1>5, <1>6, <1>7 DEF CommandStep

\* What the command that moves is about, and holds, afterwards.
Mine(c) ==
  \/ todo'[c].at \in {"read", "over"} /\ hand'[c].live = {}
     /\ (todo'[c].kind # "propose" => todo'[c].at = "over")
  \/ /\ todo'[c].kind = todo[c].kind /\ todo'[c].ids = todo[c].ids /\ todo[c].ids # {}
     /\ \/ /\ todo[c].kind = "propose"
           /\ \/ todo'[c].at = "drafts" /\ hand'[c].live = live
              \/ todo'[c].at = "write" /\ hand'[c].live = hand[c].live
        \/ Is(c, "remove", "read") /\ todo'[c].at = "write" /\ hand'[c].live = live
        \/ /\ Is(c, "approve", "read") /\ todo'[c].at = "live" /\ hand'[c].live = {}
           /\ \E w \in Words : Entry(hand'[c].drafts, Id(c)) = {Draft(Id(c), w)}
        \/ /\ Is(c, "approve", "live") /\ todo'[c].at = "ask"
           /\ Id(c) \notin Ids(live) /\ hand'[c].live = live \cup {Approved(c)}
        \/ /\ Is(c, "approve", "ask") /\ todo'[c].at = "publish" /\ hand'[c] = hand[c]
           /\ agreed' = agreed \cup {Shown(c)}
        \/ /\ Is(c, "approve", "publish") /\ todo'[c].at = "drop" /\ hand'[c] = hand[c]
           /\ live' = hand[c].live

LEMMA CommandMoves ==
  ASSUME LessonsTypeOK, HandInv, NEW c \in Command, CommandStep(c)
  PROVE  Mine(c)
  <1> USE DEF Is
  <1>1. ASSUME Ends(c) PROVE Mine(c)
    BY <1>1 DEF LessonsTypeOK, Ends, LetsGo, Holds, Mine
  <1>2. ASSUME NextDraft(c), todo[c].kind = "propose" PROVE Mine(c)
    BY <1>2 DEF LessonsTypeOK, NextDraft, LetsGo, Holds, Mine
  <1>3. ASSUME NEW l, Turn(c, l)
        PROVE  todo'[c].at = l /\ todo'[c].kind = todo[c].kind /\ todo'[c].ids = todo[c].ids
    BY <1>3 DEF LessonsTypeOK, Turn
  <1>4. ASSUME NEW l, NEW p, Holds(c, l, p) PROVE hand'[c].live = l /\ hand'[c].drafts = p
    BY <1>4 DEF LessonsTypeOK, Holds
  <1>5. CASE ProposeReadsLive(c)
    <2>1. CASE Turn(c, "drafts") /\ Holds(c, live, {}) /\ todo[c].ids # {}
      BY <1>3, <1>4, <1>5, <2>1 DEF ProposeReadsLive, Mine
    <2> QED BY <1>1, <1>2, <1>5, <2>1 DEF ProposeReadsLive
  <1>11. CASE ProposeReadsDrafts(c)
    <2>1. CASE Turn(c, "write") /\ Holds(c, hand[c].live, drafts)
      BY <1>3, <1>4, <1>11, <2>1 DEF ProposeReadsDrafts, Mine, HandInv
    <2> QED BY <1>1, <1>11, <2>1 DEF ProposeReadsDrafts
  <1>12. CASE ProposeWrites(c)
    BY <1>2, <1>12 DEF ProposeWrites
  <1>6. CASE ApproveReadsDrafts(c)
    <2>1. CASE /\ Turn(c, "live") /\ Holds(c, {}, drafts)
               /\ \E w \in Words : Entry(drafts, Id(c)) = {Draft(Id(c), w)}
      BY <1>3, <1>4, <1>6, <2>1 DEF ApproveReadsDrafts, Mine, HandInv
    <2> QED BY <1>1, <1>6, <2>1 DEF ApproveReadsDrafts
  <1>7. CASE ApproveReadsLive(c)
    <2>1. CASE /\ Turn(c, "ask") /\ Holds(c, live \cup {Approved(c)}, hand[c].drafts)
               /\ Id(c) \notin Ids(live)
      BY <1>3, <1>4, <1>7, <2>1 DEF ApproveReadsLive, Mine, HandInv
    <2> QED BY <1>1, <1>7, <2>1 DEF ApproveReadsLive
  <1>8. CASE PersonSaysYes(c) \/ PersonSaysNo(c)
    BY <1>1, <1>3, <1>8 DEF PersonSaysYes, PersonSaysNo, Mine, HandInv
  <1>9. CASE Publish(c) \/ DropDraft(c)
    BY <1>1, <1>3, <1>9 DEF Publish, DropDraft, Mine, HandInv
  <1>10. CASE RemoveReads(c)
    <2>1. CASE Turn(c, "write") /\ Holds(c, live, {})
      BY <1>3, <1>4, <1>10, <2>1 DEF RemoveReads, Mine, HandInv
    <2> QED BY <1>1, <1>10, <2>1 DEF RemoveReads
  <1>13. CASE RemoveWrites(c) \/ Dies(c)
    BY <1>1, <1>13 DEF RemoveWrites, Dies
  <1> QED BY <1>11, <1>12, <1>13, <1>5, <1>6, <1>7, <1>8, <1>9, <1>10 DEF CommandStep

\* Where the live file comes from when a command writes it, and what is agreed to.
Writes(c) ==
  /\ agreed \subseteq agreed'
  /\ \/ live' = live
     \/ Is(c, "approve", "publish") /\ live' = hand[c].live
     \/ Is(c, "remove", "write") /\ live' \subseteq hand[c].live

LEMMA CommandWrites == ASSUME NEW c \in Command, CommandStep(c) PROVE Writes(c)
  BY DEF CommandStep, ProposeReadsLive, ProposeReadsDrafts, ProposeWrites, ApproveReadsDrafts,
         ApproveReadsLive, PersonSaysYes, PersonSaysNo, Publish, DropDraft, RemoveReads,
         RemoveWrites, Dies, Without, files, Writes

\* Nobody but a command touches what commands hold.
LEMMA HandsStay ==
  ASSUME LessonsNext, \A c \in Command : ~CommandStep(c)
  PROVE  UNCHANGED <<todo, hand, agreed, anew, clobbered>>
  BY DEF LessonsNext, PinLessons, EditDraft, EditLive, Misspell, DayPasses, EditRest

LEMMA HandStep ==
  ASSUME LessonsTypeOK, HandInv, LessonsNext PROVE HandInv'
  <1>1. CASE \A c \in Command : ~CommandStep(c)
    BY <1>1, HandsStay DEF HandInv, Asked, Is, Id, Shown, Entry, Draft
  <1>2. ASSUME NEW c \in Command, CommandStep(c) PROVE HandInv'
    <2>1. Mine(c) /\ Others(c) /\ Writes(c)
      BY <1>2, CommandMoves, CommandAlone, CommandWrites
    <2> SUFFICES ASSUME NEW a \in Command
                 PROVE  /\ todo'[a].at # "over" /\ (todo'[a].at = "read" => todo'[a].kind # "propose")
                             => todo'[a].ids # {}
                        /\ Is(a, "approve", "live")' =>
                             \E w \in Words : Entry(hand'[a].drafts, Id(a)') = {Draft(Id(a)', w)}
                        /\ Asked(a)' => Entry(hand'[a].live, Id(a)') = {Shown(a)'}
                        /\ Is(a, "approve", "publish")' => Shown(a)' \in agreed'
      BY DEF HandInv, Entry, Draft
    <2>2. CASE a # c
      <3>1. todo'[a] = todo[a] /\ hand'[a] = hand[a] /\ Id(a)' = Id(a) /\ Shown(a)' = Shown(a)
        BY <2>1, <2>2 DEF Others, Id, Shown
      <3> QED BY <2>1, <3>1 DEF HandInv, Asked, Is, Writes
    <2>3. CASE a = c
      <3>1. ASSUME todo'[c].ids = todo[c].ids PROVE Id(c)' = Id(c)
        BY <3>1 DEF Id
      <3>2. CASE todo'[c].at \in {"read", "over"} /\ (todo'[c].kind # "propose" => todo'[c].at = "over")
        BY <2>3, <3>2 DEF Asked, Is
      <3>3. CASE Is(c, "approve", "ask") /\ todo'[c].at = "publish" /\ hand'[c] = hand[c]
                 /\ todo'[c].kind = todo[c].kind /\ todo'[c].ids = todo[c].ids /\ todo[c].ids # {}
                 /\ agreed' = agreed \cup {Shown(c)}
        <4>1. Shown(c)' = Shown(c)
          BY <3>1, <3>3 DEF Shown
        <4> QED BY <2>3, <3>1, <3>3, <4>1 DEF HandInv, Asked, Is
      <3>4. CASE Is(c, "approve", "live") /\ todo'[c].at = "ask" /\ Id(c) \notin Ids(live)
                 /\ hand'[c].live = live \cup {Approved(c)}
                 /\ todo'[c].kind = todo[c].kind /\ todo'[c].ids = todo[c].ids /\ todo[c].ids # {}
        <4>1. Approved(c).id = Id(c)
          BY DEF Approved, Live
        <4>2. Entry(hand'[c].live, Id(c)) = {Approved(c)}
          BY <3>4, <4>1 DEF Entry, Ids
        <4>3. Shown(c)' = Approved(c)
          BY <3>1, <3>4, <4>2 DEF Shown
        <4> QED BY <2>3, <3>1, <3>4, <4>2, <4>3 DEF Is, Asked
      <3>5. CASE Is(c, "approve", "read") /\ todo'[c].at = "live"
                 /\ todo'[c].kind = todo[c].kind /\ todo'[c].ids = todo[c].ids /\ todo[c].ids # {}
                 /\ \E w \in Words : Entry(hand'[c].drafts, Id(c)) = {Draft(Id(c), w)}
        BY <2>3, <3>1, <3>5 DEF Is, Asked
      <3>6. CASE todo'[c].kind = todo[c].kind /\ todo'[c].ids = todo[c].ids /\ todo[c].ids # {}
                 /\ (todo[c].kind \in {"propose", "remove"} \/ todo'[c].at = "drop")
        BY <2>3, <3>6 DEF Is, Asked
      <3> QED BY <2>1, <3>2, <3>3, <3>4, <3>5, <3>6 DEF Mine, Is
    <2> QED BY <2>2, <2>3
  <1> QED BY <1>1, <1>2

LEMMA AgreedStep ==
  ASSUME LessonsTypeOK, HandInv, AgreedInv, LessonsNext PROVE AgreedInv'
  <1>1. CASE \A c \in Command : ~CommandStep(c)
    <2>1. \A l \in live' : l.by # Nobody => l \in agreed
      <3>1. CASE EditLive
        <4>1. \A l \in live : [l EXCEPT !.by = Nobody].by = Nobody
          BY DEF LessonsTypeOK, LiveLessons
        <4> QED BY <3>1, <4>1 DEF AgreedInv, EditLive, Without
      <3>2. CASE live' = live
        BY <3>2 DEF AgreedInv
      <3> QED BY <1>1, <3>1, <3>2 DEF LessonsNext, PinLessons, EditDraft, Misspell, DayPasses, files
    <2> QED BY <1>1, <2>1, HandsStay DEF AgreedInv, Asked, Id
  <1>2. ASSUME NEW c \in Command, CommandStep(c) PROVE AgreedInv'
    <2>1. Mine(c) /\ Others(c) /\ Writes(c)
      BY <1>2, CommandMoves, CommandAlone, CommandWrites
    <2>2. \A l \in live' : l.by # Nobody => l \in agreed'
      <3>1. CASE Is(c, "approve", "publish") /\ live' = hand[c].live
        <4>1. \A l \in hand[c].live : l.id = Id(c) => l = Shown(c)
          BY <3>1 DEF HandInv, Asked, Is, Entry
        <4> QED BY <2>1, <3>1, <4>1 DEF AgreedInv, HandInv, Writes
      <3>2. CASE Is(c, "remove", "write") /\ live' \subseteq hand[c].live
        BY <2>1, <3>2 DEF AgreedInv, Asked, Is, Writes
      <3> QED BY <2>1, <3>1, <3>2 DEF AgreedInv, Writes
    <2>3. ASSUME NEW a \in Command, NEW l \in hand'[a].live, l.by # Nobody
          PROVE  l \in agreed' \/ (Asked(a)' /\ l.id = Id(a)')
      <3>1. CASE a # c
        <4>1. todo'[a] = todo[a] /\ hand'[a] = hand[a] /\ Id(a)' = Id(a)
          BY <2>1, <3>1 DEF Others, Id
        <4> QED BY <2>1, <2>3, <4>1 DEF AgreedInv, Asked, Writes
      <3>2. CASE a = c
        <4>1. ASSUME todo'[c].ids = todo[c].ids PROVE Id(c)' = Id(c)
          BY <4>1 DEF Id
        <4>2. CASE hand'[c].live = {} \/ hand'[c].live = live
          BY <2>1, <2>3, <3>2, <4>2 DEF AgreedInv, Writes
        <4>3. CASE todo[c].kind = "propose" /\ hand'[c].live = hand[c].live
          BY <2>1, <2>3, <3>2, <4>3 DEF AgreedInv, Asked, Writes
        <4>4. CASE Is(c, "approve", "live") /\ todo'[c].at = "ask" /\ todo'[c].kind = todo[c].kind
                   /\ todo'[c].ids = todo[c].ids /\ hand'[c].live = live \cup {Approved(c)}
          BY <2>1, <2>3, <3>2, <4>1, <4>4 DEF AgreedInv, Asked, Is, Approved, Live, Writes
        <4>5. CASE Is(c, "approve", "ask") /\ todo'[c].at = "publish" /\ hand'[c] = hand[c]
                   /\ todo'[c].kind = todo[c].kind /\ todo'[c].ids = todo[c].ids
          BY <2>1, <2>3, <3>2, <4>1, <4>5 DEF AgreedInv, Asked, Is, Writes
        <4>6. CASE Is(c, "approve", "publish") /\ hand'[c] = hand[c] /\ live' = hand[c].live
          BY <2>2, <2>3, <3>2, <4>6
        <4> QED BY <2>1, <4>2, <4>3, <4>4, <4>5, <4>6 DEF Mine
      <3> QED BY <3>1, <3>2
    <2> QED BY <2>2, <2>3 DEF AgreedInv
  <1> QED BY <1>1, <1>2

LEMMA TaughtStep ==
  ASSUME LessonsTypeOK, PinInv, AgreedInv, TaughtAsAgreed, LessonsNext
  PROVE  PinInv' /\ TaughtAsAgreed'
  <1>1. CASE brief' = brief /\ agreed \subseteq agreed'
    BY <1>1 DEF PinInv, TaughtAsAgreed, Lapsed
  <1>2. ASSUME NEW s \in Starter, PinLessons(s) PROVE PinInv' /\ TaughtAsAgreed'
    <2>1. \A use \in BriefLessons(live, today) : \A l \in use : l \in agreed /\ ~Lapsed(l, today)
      BY DEF BriefLessons, Usable, Valid, AgreedInv
    <2>2. agreed' = agreed
      BY <1>2 DEF PinLessons
    <2>3. CASE \E use \in IF "live" \in garbled THEN {{}} ELSE BriefLessons(live, today), told \in BOOLEAN :
                 /\ told => use # {}
                 /\ brief' = [brief EXCEPT ![s] =
                       [at |-> "briefed", lessons |-> use, told |-> told, day |-> today]]
      <3>1. PICK use \in IF "live" \in garbled THEN {{}} ELSE BriefLessons(live, today), told \in BOOLEAN :
                 /\ told => use # {}
                 /\ brief' = [brief EXCEPT ![s] =
                       [at |-> "briefed", lessons |-> use, told |-> told, day |-> today]]
        BY <2>3
      <3>2. \A l \in use : l \in agreed /\ ~Lapsed(l, today)
        BY <2>1
      <3>3. \A r \in Starter : brief'[r] =
              IF r = s THEN [at |-> "briefed", lessons |-> use, told |-> told, day |-> today] ELSE brief[r]
        BY <3>1 DEF LessonsTypeOK
      <3> QED BY <2>2, <3>1, <3>2, <3>3 DEF PinInv, TaughtAsAgreed, Lapsed
    <2>4. CASE brief' = [brief EXCEPT ![s].at = "briefed", ![s].day = today]
      <3>1. brief[s].lessons = {}
        BY <1>2, <2>4 DEF PinLessons, PinInv
      <3>2. \A r \in Starter : r # s => brief'[r] = brief[r]
        BY <2>4 DEF LessonsTypeOK
      <3>3. brief'[s].lessons = {} /\ brief'[s].told = brief[s].told /\ brief'[s].at = "briefed"
        BY <2>4, <3>1 DEF LessonsTypeOK
      <3> QED BY <2>2, <3>1, <3>2, <3>3 DEF PinInv, TaughtAsAgreed, Lapsed
    <2> QED BY <1>2, <2>3, <2>4 DEF PinLessons
  <1>3. ASSUME NEW c \in Command, CommandStep(c) PROVE brief' = brief /\ agreed \subseteq agreed'
    BY <1>3 DEF CommandStep, ProposeReadsLive, ProposeReadsDrafts, ProposeWrites, ApproveReadsDrafts,
         ApproveReadsLive, PersonSaysYes, PersonSaysNo, Publish, DropDraft, RemoveReads,
         RemoveWrites, Dies, Still
  <1>4. CASE EditDraft \/ EditLive \/ Misspell \/ DayPasses
    BY <1>1, <1>4 DEF EditDraft, EditLive, Misspell, DayPasses, EditRest
  <1> QED BY <1>1, <1>2, <1>3, <1>4 DEF LessonsNext

\* What a command does to one lesson that it is not about, unless it clobbers it.
LEMMA Unchanged ==
  ASSUME NEW file, NEW copy, NEW id \in Lesson, id \notin Changed(file, copy)
  PROVE  id \in Ids(file) <=> id \in Ids(copy)
  <1>1. Entry(file, id) = Entry(copy, id)
    BY DEF Changed
  <1> QED BY <1>1 DEF Ids, Entry

LEMMA Removed ==
  ASSUME NEW file, NEW gone, NEW id
  PROVE  id \in Ids(Without(file, gone)) <=> id \in Ids(file) /\ id # gone
  BY DEF Ids, Without

\* What a step may do to a lesson that it does not clobber: nothing; draft it again,
\* which every approval about to drop its draft is told; publish it; take it out; or
\* drop its draft, when it is live or was not kept anyway.
KeptMove(id) ==
  LET liveStays == id \in Ids(live) <=> id \in Ids(live')
  IN  \/ liveStays /\ (id \in Ids(drafts) <=> id \in Ids(drafts')) /\ fate'[id] = fate[id]
      \/ /\ liveStays /\ id \in Ids(drafts') /\ fate'[id] = "kept"
         /\ \A a \in Command : Is(a, "approve", "drop") /\ Id(a) = id => a \in anew'
      \/ id \in Ids(live') /\ fate'[id] = "kept"
      \/ id \notin Ids(live') /\ fate'[id] = "gone"
      \/ liveStays /\ fate'[id] = fate[id] /\ (id \in Ids(live) \/ fate[id] # "kept")

LEMMA CommandKeeps ==
  ASSUME LessonsTypeOK, HandInv, DropInv, NEW c \in Command, CommandStep(c),
         NEW id \in Lesson \ clobbered'
  PROVE  KeptMove(id) /\ id \notin clobbered
  <1>1. CASE UNCHANGED <<live, drafts, fate, clobbered>>
    BY <1>1 DEF KeptMove
  <1>2. CASE ProposeWrites(c) /\ ~UNCHANGED <<drafts, fate, clobbered>>
    <2>1. /\ drafts' = hand[c].drafts \cup {Draft(Id(c), Todo)} /\ live' = live
          /\ fate' = [fate EXCEPT ![Id(c)] = "kept"]
          /\ anew' = anew \cup {a \in Command : Is(a, "approve", "drop") /\ Id(a) = Id(c)}
          /\ clobbered' = clobbered \cup Changed(drafts, hand[c].drafts)
      BY <1>2 DEF ProposeWrites, Becomes, Overrules
    <2>2. Ids(drafts') = Ids(hand[c].drafts) \cup {Id(c)}
      <3>1. Draft(Id(c), Todo).id = Id(c)
        BY DEF Draft
      <3> QED BY <2>1, <3>1 DEF Ids
    <2>3. id \in Ids(drafts) <=> id \in Ids(hand[c].drafts)
      BY <2>1, Unchanged
    <2>4. fate'[id] = IF id = Id(c) THEN "kept" ELSE fate[id]
      BY <2>1 DEF LessonsTypeOK
    <2>5. CASE id = Id(c)
      BY <2>1, <2>2, <2>4, <2>5 DEF KeptMove
    <2>6. CASE id # Id(c)
      BY <2>1, <2>2, <2>3, <2>4, <2>6 DEF KeptMove
    <2> QED BY <2>1, <2>5, <2>6
  <1>3. CASE Publish(c)
    <2>1. /\ live' = hand[c].live /\ drafts' = drafts
          /\ fate' = [fate EXCEPT ![Id(c)] = "kept"]
          /\ clobbered' = clobbered \cup (Changed(live, Before(c)) \ {Id(c)})
      BY <1>3 DEF Publish, Becomes, Overrules
    <2>2. fate'[id] = IF id = Id(c) THEN "kept" ELSE fate[id]
      BY <2>1 DEF LessonsTypeOK
    <2>3. CASE id = Id(c)
      <3>1. Entry(hand[c].live, id) # {}
        BY <1>3, <2>3 DEF Publish, HandInv, Asked, Is
      <3> QED BY <2>1, <2>2, <2>3, <3>1 DEF KeptMove, Entry, Ids
    <2>4. CASE id # Id(c)
      <3>1. id \in Ids(live) <=> id \in Ids(Before(c))
        BY <2>1, <2>4, Unchanged
      <3>2. id \in Ids(live) <=> id \in Ids(live')
        BY <2>1, <2>4, <3>1, Removed DEF Before
      <3> QED BY <2>1, <2>2, <2>4, <3>2 DEF KeptMove
    <2> QED BY <2>1, <2>3, <2>4
  <1>4. CASE DropDraft(c)
    <2>1. /\ drafts' = Without(hand[c].drafts, Id(c)) /\ UNCHANGED <<live, fate>>
          /\ clobbered' = clobbered \cup (Changed(drafts, hand[c].drafts) \cup IF c \in anew THEN {Id(c)} ELSE {})
      BY <1>4 DEF DropDraft, Overrules
    <2>2. CASE id = Id(c)
      <3>1. c \notin anew /\ id \notin clobbered
        BY <2>1, <2>2
      <3> QED BY <1>4, <2>1, <2>2, <3>1 DEF KeptMove, DropInv, DropDraft
    <2>3. CASE id # Id(c)
      <3>1. id \in Ids(drafts) <=> id \in Ids(hand[c].drafts)
        BY <2>1, Unchanged
      <3>2. id \in Ids(drafts) <=> id \in Ids(drafts')
        BY <2>1, <2>3, <3>1, Removed
      <3> QED BY <2>1, <3>2 DEF KeptMove
    <2> QED BY <2>1, <2>2, <2>3
  <1>5. CASE RemoveWrites(c)
    <2>1. /\ live' = Without(hand[c].live, Id(c)) /\ drafts' = drafts
          /\ fate' = [fate EXCEPT ![Id(c)] = "gone"]
          /\ clobbered' = clobbered \cup (Changed(live, hand[c].live) \ {Id(c)})
      BY <1>5 DEF RemoveWrites, Becomes, Overrules
    <2>2. fate'[id] = IF id = Id(c) THEN "gone" ELSE fate[id]
      BY <2>1 DEF LessonsTypeOK
    <2>3. CASE id = Id(c)
      BY <2>1, <2>2, <2>3, Removed DEF KeptMove
    <2>4. CASE id # Id(c)
      <3>1. id \in Ids(live) <=> id \in Ids(hand[c].live)
        BY <2>1, <2>4, Unchanged
      <3>2. id \in Ids(live) <=> id \in Ids(live')
        BY <2>1, <2>4, <3>1, Removed
      <3> QED BY <2>1, <2>2, <2>4, <3>2 DEF KeptMove
    <2> QED BY <2>1, <2>3, <2>4
  <1> QED BY <1>1, <1>2, <1>3, <1>4, <1>5 DEF CommandStep, ProposeReadsLive, ProposeReadsDrafts,
         ProposeWrites, ApproveReadsDrafts, ApproveReadsLive, PersonSaysYes, PersonSaysNo,
         RemoveReads, Dies, files

LEMMA EditorKeeps ==
  ASSUME LessonsTypeOK, EditDraft \/ EditLive, NEW id \in Lesson
  PROVE  KeptMove(id)
  <1>1. CASE EditDraft
    <2>1. live' = live
      BY <1>1 DEF EditDraft
    <2>2. PICK l \in drafts :
       \/ /\ \E w \in Words : drafts' = (drafts \ {l}) \cup {Draft(l.id, w)}
          /\ UNCHANGED fate
       \/ /\ drafts' = Without(drafts, l.id)
          /\ IF l.id \in Ids(live) THEN UNCHANGED fate ELSE Becomes(l.id, "gone")
      BY <1>1 DEF EditDraft
    <2>3. CASE (\E w \in Words : drafts' = (drafts \ {l}) \cup {Draft(l.id, w)}) /\ UNCHANGED fate
      <3>1. Ids(drafts') = Ids(drafts)
        <4>1. \A w \in Words : Draft(l.id, w).id = l.id
          BY DEF Draft
        <4> QED BY <2>3, <4>1 DEF Ids
      <3> QED BY <2>1, <2>3, <3>1 DEF KeptMove
    <2>4. CASE drafts' = Without(drafts, l.id) /\ l.id \in Ids(live) /\ UNCHANGED fate
      BY <2>1, <2>4, Removed DEF KeptMove
    <2>5. CASE drafts' = Without(drafts, l.id) /\ l.id \notin Ids(live) /\ Becomes(l.id, "gone")
      <3>1. fate'[id] = IF id = l.id THEN "gone" ELSE fate[id]
        BY <2>5 DEF LessonsTypeOK, Becomes
      <3> QED BY <2>1, <2>5, <3>1, Removed DEF KeptMove
    <2> QED BY <2>2, <2>3, <2>4, <2>5
  <1>2. CASE EditLive
    <2>1. drafts' = drafts
      BY <1>2 DEF EditLive
    <2>2. PICK l \in live :
       \/ live' = Without(live, l.id) /\ Becomes(l.id, "gone")
       \/ live' = (live \ {l}) \cup {[l EXCEPT !.by = Nobody]} /\ UNCHANGED fate
      BY <1>2 DEF EditLive
    <2>3. CASE live' = Without(live, l.id) /\ Becomes(l.id, "gone")
      <3>1. fate'[id] = IF id = l.id THEN "gone" ELSE fate[id]
        BY <2>3 DEF LessonsTypeOK, Becomes
      <3> QED BY <2>1, <2>3, <3>1, Removed DEF KeptMove
    <2>4. CASE live' = (live \ {l}) \cup {[l EXCEPT !.by = Nobody]} /\ UNCHANGED fate
      <3>1. [l EXCEPT !.by = Nobody].id = l.id
        BY DEF LessonsTypeOK, LiveLessons
      <3>2. Ids(live') = Ids(live)
        BY <2>4, <3>1 DEF Ids
      <3> QED BY <2>1, <2>4, <3>2 DEF KeptMove
    <2> QED BY <2>2, <2>3, <2>4
  <1> QED BY <1>1, <1>2

LEMMA KeptStep ==
  ASSUME LessonsTypeOK, HandInv, DropInv, LessonsKept, LessonsNext PROVE DropInv' /\ LessonsKept'
  <1>1. \A id \in Lesson \ clobbered' : KeptMove(id) /\ id \notin clobbered
    <2>1. CASE \E c \in Command : CommandStep(c)
      BY <2>1, CommandKeeps
    <2>2. CASE EditDraft \/ EditLive
      BY <2>2, EditorKeeps DEF EditDraft, EditLive, EditRest
    <2>3. CASE UNCHANGED <<live, drafts, fate, clobbered>>
      BY <2>3 DEF KeptMove
    <2> QED BY <2>1, <2>2, <2>3 DEF LessonsNext, PinLessons, Misspell, DayPasses, EditRest, files
  <1>2. LessonsKept'
    <2>1. SUFFICES ASSUME NEW id \in Lesson \ clobbered'
                   PROVE  /\ fate'[id] = "kept" => id \in Ids(live') \cup Ids(drafts')
                          /\ fate'[id] = "gone" => id \notin Ids(live')
      BY DEF LessonsKept, Ids
    <2> QED BY <1>1 DEF KeptMove, LessonsKept
  <1>3. ASSUME NEW a \in Command, Is(a, "approve", "drop")', a \notin anew', Id(a)' \notin clobbered',
               fate'[Id(a)'] = "kept"
        PROVE  Id(a)' \in Ids(live')
    <2>1. anew \subseteq anew'
      BY DEF LessonsNext, CommandStep, ProposeReadsLive, ProposeReadsDrafts, ProposeWrites,
             ApproveReadsDrafts, ApproveReadsLive, PersonSaysYes, PersonSaysNo, Publish, DropDraft,
             RemoveReads, RemoveWrites, Dies, PinLessons, EditDraft, EditLive, Misspell, DayPasses,
             EditRest
    <2>2. CASE Is(a, "approve", "drop") /\ Id(a)' = Id(a)
      <3>1. Id(a) \in Lesson
        BY <2>2 DEF LessonsTypeOK, HandInv, Is, Id
      <3> QED BY <1>1, <1>3, <2>1, <2>2, <3>1 DEF KeptMove, DropInv
    <2>3. CASE \A c \in Command : ~CommandStep(c)
      <3>1. todo' = todo
        BY <2>3, HandsStay
      <3> QED BY <1>3, <2>2, <3>1 DEF Is, Id
    <2>4. ASSUME NEW c \in Command, CommandStep(c) PROVE Id(a)' \in Ids(live')
      <3>1. Mine(c) /\ Others(c)
        BY <2>4, CommandMoves, CommandAlone
      <3>2. CASE a # c
        BY <1>3, <2>2, <3>1, <3>2 DEF Others, Is, Id
      <3>3. CASE a = c
        <4>1. /\ Is(c, "approve", "publish") /\ live' = hand[c].live /\ todo'[c].ids = todo[c].ids
              /\ hand'[c] = hand[c]
          BY <1>3, <3>1, <3>3 DEF Mine, Is
        <4>2. Id(c)' = Id(c)
          BY <4>1 DEF Id
        <4>3. Entry(live', Id(c)) = {Shown(c)}
          BY <4>1 DEF HandInv, Asked, Is
        <4> QED BY <3>3, <4>2, <4>3 DEF Entry, Ids
      <3> QED BY <3>2, <3>3
    <2> QED BY <2>3, <2>4
  <1>4. DropInv'
    BY <1>3 DEF DropInv, Ids
  <1> QED BY <1>2, <1>4

LEMMA LessonsStep == ASSUME LessonsInv, LessonsNext PROVE LessonsInv'
  BY LessonsTypes, HandStep, AgreedStep, TaughtStep, KeptStep DEF LessonsInv

LEMMA LessonsStart == ASSUME LessonsInit PROVE LessonsInv
  <1> USE DEF LessonsInit
  <1>1. \A id \in Lesson, w \in Words, u \in 1..Lifetime : Live(id, w, "person", u) \in LiveLessons
    BY DEF Live, LiveLessons
  <1>2. \A id \in Lesson, w \in Words \cup {Todo} : Draft(id, w) \in Drafts
    BY DEF Draft, Drafts
  <1>3. Candidates \subseteq Lesson
    BY DEF Candidates
  <1>4. todo \in [Command -> [kind : Kinds, at : Stages, ids : SUBSET Lesson]]
    BY <1>3 DEF Stages, AnyCommands
  <1>5. LessonsTypeOK
    BY <1>1, <1>2, <1>4 DEF LessonsTypeOK
  <1>6. \A c \in Command : todo[c].at = "read" /\ (todo[c].kind # "propose" => todo[c].ids # {})
    <2> HIDE DEF LessonsInit
    <2>1. AnyCommands
      BY DEF LessonsInit
    <2>2. \A c \in Command : todo[c].at = "read"
      BY <2>1 DEF AnyCommands
    <2>3. \A c \in Command : todo[c].kind # "propose" => todo[c].ids # {}
      BY <2>1 DEF AnyCommands
    <2> QED BY <2>2, <2>3
  <1>7. HandInv /\ DropInv
    BY <1>6 DEF HandInv, DropInv, Asked, Is
  <1>8. PinInv /\ TaughtAsAgreed /\ AgreedInv
    BY DEF PinInv, TaughtAsAgreed, AgreedInv
  <1>9. LessonsKept
    BY DEF LessonsKept
  <1> QED BY <1>5, <1>7, <1>8, <1>9 DEF LessonsInv

-----------------------------------------------------------------------------
(* An approved issue *)

\* What the account that confirms and the one that comments agree on.
LEMMA ApproveTypes ==
  ASSUME StartTypeOK, ConfirmedInv, NEW a \in Approve, ApproveStep(a)
  PROVE  /\ step' \in [Approve -> {"idle", "answer", "post", "label", "over"}]
         /\ seen' \in [Approve -> Text \cup {NoText}] /\ shown' \in [Approve -> Text \cup {NoText}]
         /\ confirmed \subseteq confirmed' /\ confirmed' \subseteq Account \X Text
         /\ comments' \in Comments /\ labelled' \in BOOLEAN
         /\ UNCHANGED <<at, briefVars, text, writers, startVars, read, mode, lacked>>
  <1> USE DEF StartTypeOK, StepTo, ApproveRest, ApproveFails
  <1>1. CASE ShowEarlier(a)
    BY <1>1 DEF ShowEarlier, issueVars
  <1>2. CASE Show(a)
    <2>1. step' \in [Approve -> {"idle", "answer", "post", "label", "over"}]
      BY <1>2 DEF Show, WellFormed
    <2>2. shown' \in [Approve -> Text \cup {NoText}]
      BY <1>2 DEF Show
    <2> QED BY <1>2, <2>1, <2>2 DEF Show, issueVars
  <1>3. CASE Answer(a)
    <2>1. <<Who[a], shown[a]>> \in Account \X Text
      BY <1>3 DEF Answer, ConfirmedInv
    <2> QED BY <1>3, <2>1 DEF Answer, issueVars
  <1>4. CASE Post(a)
    <2>1. [by |-> Who[a], sha |-> shown[a]] \in [by : Account, sha : Text]
      BY <1>4 DEF Post, ConfirmedInv
    <2>2. comments' \in Comments
      <3>1. comments \in Seq([by : Account, sha : Text])
        BY DEF Comments
      <3> HIDE DEF StartTypeOK
      <3>2. comments' = Append(comments, [by |-> Who[a], sha |-> shown[a]]) \/ comments' = comments
        BY <1>4 DEF Post
      <3> DEFINE C == [by : Account, sha : Text]
                 c == [by |-> Who[a], sha |-> shown[a]]
      <3>3. c \in C /\ comments \in Seq(C) /\ (comments' = Append(comments, c) \/ comments' = comments)
        BY <2>1, <3>1, <3>2
      <3> HIDE DEF C, c
      <3>4. comments' \in Seq(C)
        BY <3>3
      <3> QED BY <3>4 DEF C, Comments
    <2> QED BY <1>4, <2>2 DEF Post
  <1>5. CASE Label(a)
    BY <1>5 DEF Label
  <1> QED BY <1>1, <1>2, <1>3, <1>4, <1>5 DEF ApproveStep

\* The newest of the comments that match is one of them.
LEMMA Least ==
  ASSUME NEW S \in SUBSET Nat, S # {} PROVE \E x \in S : \A y \in S : x <= y
  <1> DEFINE Less == OpToRel(<, Nat)
  <1>1. IsWellFoundedOn(Less, Nat)
    BY NatLessThanWellFounded
  <1>2. \A x, y \in Nat : y < x => <<y, x>> \in Less
    BY DEF OpToRel
  <1> HIDE DEF Less
  <1>3. PICK x \in S : \A y \in S : ~(<<y, x>> \in Less)
    BY <1>1, WFMin
  <1>4. ASSUME NEW y \in S PROVE x <= y
    <2>1. ~(y < x)
      BY <1>2, <1>3
    <2> QED BY <2>1
  <1> QED BY <1>4

LEMMA Greatest ==
  ASSUME NEW n \in Nat, NEW S \in SUBSET 1..n, S # {} PROVE \E x \in S : \A y \in S : y <= x
  <1> DEFINE R == {n - y : y \in S}
  <1>1. R \in SUBSET Nat /\ R # {}
    <2>1. \A y \in S : y \in Nat /\ y <= n
      OBVIOUS
    <2>2. \A y \in S : n - y \in Nat
      BY <2>1
    <2> QED BY <2>2
  <1>2. PICK r \in R : \A q \in R : r <= q
    BY <1>1, Least
  <1>3. PICK x \in S : r = n - x
    OBVIOUS
  <1>4. ASSUME NEW y \in S PROVE y <= x
    <2>1. r <= n - y
      BY <1>2
    <2>2. x \in Nat /\ y \in Nat
      OBVIOUS
    <2> HIDE DEF R
    <2> QED BY <1>3, <2>1, <2>2
  <1> QED BY <1>4

LEMMA NewestMatches ==
  ASSUME StartTypeOK, NEW d \in Delivery, Matching(d) # {}
  PROVE  \E i \in Matching(d) : Newest(d) = snap[d].comments[i]
  <1>1. snap[d].comments \in Seq([by : Account, sha : Text])
    BY DEF StartTypeOK, Comments
  <1>2. Len(snap[d].comments) \in Nat /\ DOMAIN snap[d].comments = 1..Len(snap[d].comments)
    BY <1>1
  <1>3. Matching(d) \in SUBSET 1..Len(snap[d].comments)
    BY <1>2 DEF Matching
  <1>4. \E i \in Matching(d) : \A j \in Matching(d) : j <= i
    BY <1>2, <1>3, Greatest
  <1> QED BY <1>4 DEF Newest

\* An approval that moves, and the account it acts for.
LEMMA ApproveStands ==
  ASSUME StartTypeOK, ConfirmedInv, NEW a \in Approve, ApproveStep(a)
  PROVE  ConfirmedInv'
  <1>1. confirmed \subseteq confirmed' /\ UNCHANGED startVars
    BY ApproveTypes
  <1>2. \A b \in Approve : b # a => step'[b] = step[b] /\ shown'[b] = shown[b]
    BY DEF StartTypeOK, ApproveStep, ShowEarlier, Show, Answer, Post, Label, StepTo, ApproveFails
  <1>3. /\ step'[a] \in {"answer", "post", "label"} => shown'[a] \in Text
        /\ step'[a] = "post" => <<Who[a], shown'[a]>> \in confirmed'
    <2> USE DEF StartTypeOK, StepTo, ApproveFails
    <2>1. CASE ShowEarlier(a) \/ Show(a)
      BY <2>1 DEF ShowEarlier, Show
    <2>2. CASE Answer(a)
      BY <2>2 DEF Answer, ConfirmedInv
    <2>3. CASE Post(a)
      BY <2>3 DEF Post, ConfirmedInv
    <2>4. CASE Label(a)
      BY <2>4 DEF Label
    <2> QED BY <2>1, <2>2, <2>3, <2>4 DEF ApproveStep
  <1>4. \A i \in DOMAIN comments' : comments'[i].by \in Listed =>
          <<comments'[i].by, comments'[i].sha>> \in confirmed'
    <2>1. CASE comments' = comments
      BY <1>1, <2>1 DEF ConfirmedInv
    <2>2. CASE step[a] = "post" /\ comments' = Append(comments, [by |-> Who[a], sha |-> shown[a]])
      <3>1. comments \in Seq([by : Account, sha : Text])
        BY DEF StartTypeOK, Comments
      <3>2. <<Who[a], shown[a]>> \in confirmed'
        BY <1>1, <2>2 DEF ConfirmedInv
      <3>3. \A i \in DOMAIN comments' :
              \/ i \in DOMAIN comments /\ comments'[i] = comments[i]
              \/ comments'[i] = [by |-> Who[a], sha |-> shown[a]]
        <4> DEFINE c == [by |-> Who[a], sha |-> shown[a]]
        <4>1. comments' = Append(comments, c)
          BY <2>2
        <4> HIDE DEF c
        <4>2. \A i \in DOMAIN comments' :
              \/ i \in DOMAIN comments /\ comments'[i] = comments[i]
              \/ comments'[i] = c
          BY <3>1, <4>1
        <4> QED BY <4>2 DEF c
      <3> QED BY <1>1, <3>2, <3>3 DEF ConfirmedInv
    <2> QED BY <2>1, <2>2 DEF ApproveStep, ShowEarlier, Show, Answer, Post, Label, issueVars
  <1>5. \A d \in Delivery : \A i \in DOMAIN snap'[d].comments : snap'[d].comments[i].by \in Listed =>
          <<snap'[d].comments[i].by, snap'[d].comments[i].sha>> \in confirmed'
    BY <1>1 DEF ConfirmedInv, startVars
  <1> QED BY <1>1, <1>2, <1>3, <1>4, <1>5 DEF ConfirmedInv

\* A confirmation or an edit changes nothing that a delivery has found out.
LEMMA StandsElsewhere ==
  ASSUME StandsInv, WorksFromTheApproved, RefusedForCause,
         UNCHANGED <<at, startVars, read, taken, box>>, confirmed \subseteq confirmed',
         \A d \in Delivery : lacked[d] \subseteq lacked'[d],
         \A d \in Delivery : at[d] = "judge" => Account \ writers' \subseteq lacked'[d]
  PROVE  StandsInv' /\ WorksFromTheApproved' /\ RefusedForCause'
  <1> USE DEF startVars
  <1>1. \A d \in Delivery : \A t : MayBeRead(d, t) => MayBeRead(d, t)'
    BY DEF MayBeRead
  <1>2. StandsInv'
    BY <1>1 DEF StandsInv, Stands, MayBeRead
  <1>3. WorksFromTheApproved'
    BY DEF WorksFromTheApproved
  <1>4. RefusedForCause'
    BY DEF RefusedForCause, WellFormed
  <1> QED BY <1>2, <1>3, <1>4

LEMMA ApproveKeeps ==
  ASSUME StartInv, BriefInv, NEW a \in Approve, ApproveStep(a)
  PROVE  StartInv' /\ BriefInv'
  <1>1. ConfirmedInv'
    BY ApproveStands DEF StartInv
  <1>2. StartTypeOK'
    BY ApproveTypes DEF StartInv, StartTypeOK, startVars
  <1>3. StandsInv' /\ WorksFromTheApproved' /\ RefusedForCause'
    BY ApproveTypes, StandsElsewhere DEF StartInv, StandsInv, Stands, briefVars, paneVars, briefHistory
  <1>4. events' \in Nat
    BY DEF ApproveStep, ShowEarlier, Show, Answer, Post, Label, ApproveFails, Event, BriefInv, BriefTypeOK
  <1>5. BriefInv'
    <2>1. UNCHANGED briefVars /\ at' = at
      BY ApproveTypes DEF StartInv
    <2> QED BY <1>4, <2>1, ElsewhereStays
  <1> QED BY <1>1, <1>2, <1>3, <1>5 DEF StartInv

LEMMA GitHubKeeps ==
  ASSUME StartInv, BriefInv,
         EditIssue \/ SetLabel \/ \E c \in Account : CopyApproval(c) \/ SetPermission(c)
  PROVE  StartInv' /\ BriefInv'
  <1> USE DEF GitHubRest, Event
  <1>1. UNCHANGED <<at, briefVars, startVars, read, approveVars, confirmed>> /\ events' \in Nat
    <2>1. events' = events + 1 /\ UNCHANGED <<at, briefVars, startVars, read, approveVars, confirmed>>
      BY DEF EditIssue, SetLabel, CopyApproval, SetPermission
    <2> QED BY <2>1 DEF BriefInv, BriefTypeOK
  <1>2. BriefInv'
    BY <1>1, ElsewhereStays
  <1>3. /\ text' \in Text /\ labelled' \in BOOLEAN /\ writers' \subseteq Account
        /\ lacked' \in [Delivery -> SUBSET Account]
        /\ \A d \in Delivery : lacked[d] \subseteq lacked'[d]
        /\ \A d \in Delivery : at[d] = "judge" => Account \ writers' \subseteq lacked'[d]
    <2> USE DEF StartInv, StartTypeOK, StandsInv, Stands
    <2>1. CASE EditIssue
      BY <2>1 DEF EditIssue
    <2>2. CASE SetLabel
      BY <2>2 DEF SetLabel
    <2>3. ASSUME NEW c \in Account, CopyApproval(c) PROVE <1>3!1 /\ <1>3!2 /\ <1>3!3 /\ <1>3!4
      BY <2>3 DEF CopyApproval
    <2>4. ASSUME NEW c \in Account, SetPermission(c) PROVE <1>3!1 /\ <1>3!2 /\ <1>3!3 /\ <1>3!4
      <3>1. writers' \subseteq Account
        BY <2>4 DEF SetPermission
      <3>2. \A d \in Delivery : lacked'[d] = lacked[d] \cup (Account \ writers')
        BY <2>4 DEF SetPermission
      <3>3. lacked' \in [Delivery -> SUBSET Account]
        BY <2>4, <3>1 DEF SetPermission
      <3> QED BY <2>4, <3>1, <3>2, <3>3 DEF SetPermission
    <2> QED BY <2>1, <2>2, <2>3, <2>4
  <1>4. comments' \in Comments /\ (\A i \in DOMAIN comments' : comments'[i].by \in Listed =>
          <<comments'[i].by, comments'[i].sha>> \in confirmed)
    <2>1. CASE comments' = comments
      BY <2>1 DEF StartInv, StartTypeOK, ConfirmedInv
    <2>2. ASSUME NEW c \in Account, CopyApproval(c) PROVE <1>4!1 /\ <1>4!2
      <3> DEFINE C == [by : Account, sha : Text]
                 new == [by |-> c, sha |-> comments[Len(comments)].sha]
      <3>1. comments \in Seq(C) /\ comments # <<>> /\ c \notin Listed /\ comments' = Append(comments, new)
        BY <2>2 DEF StartInv, StartTypeOK, Comments, CopyApproval
      <3>2. comments[Len(comments)] \in C
        <4> HIDE DEF C, new
        <4> QED BY <3>1
      <3>3. new \in C /\ new.by \notin Listed
        BY <3>1, <3>2
      <3>4. /\ comments' \in Seq(C)
            /\ \A i \in DOMAIN comments' : comments'[i] = new \/ (i \in DOMAIN comments /\ comments'[i] = comments[i])
        <4> HIDE DEF C, new
        <4> QED BY <3>1, <3>3
      <3>5. \A i \in DOMAIN comments : comments[i].by \in Listed =>
              <<comments[i].by, comments[i].sha>> \in confirmed
        BY DEF StartInv, ConfirmedInv
      <3> HIDE DEF new
      <3> QED BY <3>3, <3>4, <3>5 DEF Comments
    <2> QED BY <2>1, <2>2 DEF EditIssue, SetLabel, SetPermission
  <1>5. StartTypeOK'
    BY <1>1, <1>3, <1>4 DEF StartInv, StartTypeOK, startVars, approveVars
  <1>6. ConfirmedInv'
    BY <1>1, <1>4 DEF StartInv, ConfirmedInv, startVars, approveVars
  <1>7. StandsInv' /\ WorksFromTheApproved' /\ RefusedForCause'
    BY <1>1, <1>3, StandsElsewhere DEF StartInv, briefVars, paneVars, briefHistory
  <1> QED BY <1>2, <1>5, <1>6, <1>7 DEF StartInv

\* A step of one delivery changes nothing that another one has found out.
Apart(d) ==
  \A e \in Delivery : e # d =>
    /\ at'[e] = at[e] /\ guarded'[e] = guarded[e] /\ snap'[e] = snap[e]
    /\ checked'[e] = checked[e] /\ pinned'[e] = pinned[e] /\ read'[e] = read[e]
    /\ lacked'[e] = lacked[e] /\ box'[e] = box[e] /\ (e \in taken' <=> e \in taken)

\* What a delivery may read, and why it was refused.
Right(d) == guarded[d] /\ read[d] # NoText => MayBeRead(d, read[d])

Cause(d) ==
  at[d] = "refused" /\ kind[d] = "start" /\ WellFormed(snap[d].text) =>
    \A i \in DOMAIN snap[d].comments :
      LET c == snap[d].comments[i]
      IN  c.sha = snap[d].text => c.by \notin Listed \/ c.by \in lacked[d]

LEMMA RightAndCause ==
  /\ WorksFromTheApproved <=> \A d \in Delivery : Right(d)
  /\ RefusedForCause <=> \A d \in Delivery : Cause(d)
  <1>1. WorksFromTheApproved <=> \A d \in Delivery : Right(d)
    BY DEF WorksFromTheApproved, Right, MayBeRead
  <1>2. RefusedForCause <=> \A d \in Delivery : Cause(d)
    BY DEF RefusedForCause, Cause
  <1> QED BY <1>1, <1>2

LEMMA Joined ==
  ASSUME StandsInv, WorksFromTheApproved, RefusedForCause, NEW d \in Delivery, Apart(d),
         UNCHANGED <<kind, want, writers, confirmed>>, Stands(d)', Right(d)', Cause(d)'
  PROVE  StandsInv' /\ WorksFromTheApproved' /\ RefusedForCause'
  <1>1. \A e \in Delivery : Right(e) /\ Cause(e)
    BY RightAndCause
  <1>2. ASSUME NEW e \in Delivery, e # d PROVE Stands(e)' /\ Right(e)' /\ Cause(e)'
    <2>1. /\ at'[e] = at[e] /\ guarded'[e] = guarded[e] /\ snap'[e] = snap[e]
          /\ checked'[e] = checked[e] /\ pinned'[e] = pinned[e] /\ read'[e] = read[e]
          /\ lacked'[e] = lacked[e] /\ box'[e] = box[e] /\ (e \in taken' <=> e \in taken)
      BY <1>2 DEF Apart
    <2>2. Stands(e)'
      BY <2>1 DEF StandsInv, Stands, MayBeRead
    <2>3. Right(e)' /\ Cause(e)'
      BY <1>1, <2>1 DEF Right, Cause, MayBeRead, WellFormed
    <2> QED BY <2>2, <2>3
  <1>3. StandsInv'
    BY <1>2 DEF StandsInv
  <1>4. \A e \in Delivery : Right(e)' /\ Cause(e)'
    BY <1>2
  <1>5. WorksFromTheApproved'
    BY <1>4 DEF WorksFromTheApproved, Right, MayBeRead
  <1>6. RefusedForCause'
    BY <1>4 DEF RefusedForCause, Cause
  <1> QED BY <1>3, <1>5, <1>6

\* The comments fetched are some of the comments.
LEMMA LatestAreComments ==
  ASSUME comments \in Comments
  PROVE  /\ Latest(comments) \in Comments
         /\ \A i \in DOMAIN Latest(comments) : \E j \in DOMAIN comments : Latest(comments)[i] = comments[j]
  <1> DEFINE C == [by : Account, sha : Text]
             first == IF Len(comments) > Window THEN Len(comments) - Window + 1 ELSE 1
  <1>1. comments \in Seq(C)
    BY DEF Comments
  <1>2. Window \in Nat
    BY StartAssumption DEF StartAssumption
  <1> HIDE DEF C
  <1>3. Len(comments) \in Nat /\ first \in 1..(Len(comments) + 1)
    BY <1>1, <1>2
  <1>4. Latest(comments) = SubSeq(comments, first, Len(comments))
    BY DEF Latest
  <1> HIDE DEF first
  <1>5. /\ SubSeq(comments, first, Len(comments)) \in Seq(C)
        /\ \A i \in DOMAIN SubSeq(comments, first, Len(comments)) :
             \E j \in DOMAIN comments : SubSeq(comments, first, Len(comments))[i] = comments[j]
    <2> DEFINE sub == SubSeq(comments, first, Len(comments))
               n == Len(comments) - first + 1
    <2>1. n \in Nat /\ sub = [i \in 1..n |-> comments[first + i - 1]]
      BY <1>1, <1>3
    <2>2. \A i \in 1..n : first + i - 1 \in DOMAIN comments
      BY <1>1, <1>3
    <2> HIDE DEF n
    <2>3. \A i \in 1..n : comments[first + i - 1] \in C
      BY <1>1, <2>2
    <2>4. sub \in Seq(C)
      BY <2>1, <2>3
    <2> QED BY <2>1, <2>2, <2>4
  <1> QED BY <1>4, <1>5 DEF C, Comments

\* Before a pane exists: the issue is read and judged, a worktree made, the copy pinned.
LEMMA StandsBefore ==
  ASSUME StartInv, BriefInv, NEW d \in Delivery,
         ReadIssue(d) \/ Fetch(d) \/ JudgeApproval(d) \/ Create(d) \/ Pin(d)
  PROVE  Stands(d)' /\ Right(d)' /\ Cause(d)'
  <1> USE DEF StartInv, StartTypeOK, BriefInv, BriefTypeOK, BoxInv, GoTo, Fails, Elsewhere, startVars,
              briefVars, paneVars, briefHistory, issueVars, Early, AtPane
  <1>1. Stands(d) /\ Right(d) /\ Cause(d)
    BY RightAndCause DEF StandsInv
  <1>2. CASE ReadIssue(d)
    BY <1>1, <1>2 DEF ReadIssue, Stands, Right, Cause, MayBeRead
  <1>3. CASE Fetch(d)
    <2>1. CASE Fails(d) /\ UNCHANGED snap
      BY <1>1, <1>3, <2>1 DEF Fetch, Stands, Right, Cause, MayBeRead
    <2>2. CASE /\ snap' = [snap EXCEPT ![d] = [text |-> text, comments |-> Latest(comments)]]
               /\ lacked' = [lacked EXCEPT ![d] = Account \ writers]
               /\ GoTo(d, IF ~WellFormed(text) THEN "refused"
                          ELSE IF kind[d] = "start" THEN "judge"
                          ELSE IF want[d] = text THEN "create" ELSE "refused")
      <3>1. snap'[d].text = text /\ lacked'[d] = Account \ writers
        BY <1>3, <2>2 DEF Fetch
      <3>2. at'[d] = IF ~WellFormed(text) THEN "refused"
                     ELSE IF kind[d] = "start" THEN "judge"
                     ELSE IF want[d] = text THEN "create" ELSE "refused"
        BY <1>3, <2>2 DEF Fetch
      <3> QED BY <1>1, <1>3, <3>1, <3>2 DEF Fetch, Stands, Right, Cause, MayBeRead, WellFormed
    <2> QED BY <1>3, <2>1, <2>2 DEF Fetch
  <1>4. CASE JudgeApproval(d)
    <2>1. CASE Matching(d) = {}
      <3>1. at'[d] = "refused" /\ UNCHANGED <<snap, checked, lacked, pinned, read, guarded, taken, kind, confirmed, box>>
        BY <1>4, <2>1 DEF JudgeApproval
      <3>2. Cause(d)'
        <4> SUFFICES ASSUME NEW i \in DOMAIN snap[d].comments, snap[d].comments[i].sha = snap[d].text,
                            snap[d].comments[i].by \in Listed
                     PROVE  snap[d].comments[i].by \in lacked[d]
          BY <3>1 DEF Cause
        <4>1. snap[d].comments[i].by \in checked[d]
          BY <2>1 DEF Matching
        <4> QED BY <1>1, <1>4, <4>1 DEF Stands, JudgeApproval
      <3> QED BY <1>1, <1>4, <3>1, <3>2 DEF Stands, Right, MayBeRead, JudgeApproval
    <2>2. CASE Matching(d) # {}
      <3>1. PICK i \in Matching(d) : Newest(d) = snap[d].comments[i]
        BY <2>2, NewestMatches
      <3>2. /\ Newest(d).by \in Listed /\ Newest(d).by \in Account
            /\ <<Newest(d).by, snap[d].text>> \in confirmed
        BY <3>1 DEF Matching, ConfirmedInv
      <3>3. CASE at' = [at EXCEPT ![d] = "create"] /\ UNCHANGED <<checked, lacked>>
        BY <1>1, <1>4, <3>2, <3>3 DEF JudgeApproval, Stands, Right, Cause, MayBeRead
      <3>4. CASE at' = at /\ checked' = [checked EXCEPT ![d] = @ \cup {Newest(d).by}]
                 /\ Newest(d).by \in lacked'[d] /\ lacked[d] \subseteq lacked'[d]
        BY <1>1, <1>4, <3>2, <3>4 DEF JudgeApproval, Stands, Right, Cause, MayBeRead
      <3>5. CASE Newest(d).by \notin writers /\ checked' = [checked EXCEPT ![d] = @ \cup {Newest(d).by}]
                 /\ UNCHANGED <<at, lacked, events>>
        BY <1>1, <1>4, <3>2, <3>4, <3>5 DEF JudgeApproval, Stands
      <3>6. CASE lacked' = [lacked EXCEPT ![d] = @ \cup {Newest(d).by}] /\ UNCHANGED at
                 /\ checked' = [checked EXCEPT ![d] = @ \cup {Newest(d).by}]
        BY <3>4, <3>6
      <3> QED BY <1>4, <2>2, <3>3, <3>5, <3>6 DEF JudgeApproval
    <2> QED BY <2>1, <2>2
  <1>5. CASE Create(d)
    <2>1. at'[d] \in {"pin", "failed"}
      BY <1>5 DEF Create
    <2> QED BY <1>1, <1>5, <2>1 DEF Create, Stands, Right, Cause, MayBeRead
  <1>6. CASE Pin(d)
    <2>1. CASE /\ pinned' = [pinned EXCEPT ![d] = IF guarded[d] THEN snap[d].text ELSE NoText]
               /\ GoTo(d, IF kind[d] = "live" THEN "await" ELSE "staff")
      <3>1. pinned'[d] = IF guarded[d] THEN snap[d].text ELSE NoText
        BY <2>1
      <3>2. at'[d] \in {"await", "staff"}
        BY <1>6, <2>1 DEF Pin
      <3>3. UNCHANGED <<kind, want, guarded, snap, checked, lacked, read, confirmed, taken, box>>
        BY <1>6 DEF Pin
      <3>4. Right(d)' /\ Cause(d)'
        BY <1>1, <1>6, <3>2, <3>3 DEF Pin, Stands, Right, Cause
      <3>5. /\ at[d] = "pin" /\ read[d] = NoText
            /\ guarded[d] => snap[d].text \in Text /\ MayBeRead(d, snap[d].text)
        BY <1>1, <1>6 DEF Pin, Stands
      <3>6. guarded[d] => pinned'[d] # NoText
        BY <3>1, <3>5
      <3>7. pinned'[d] # NoText => MayBeRead(d, pinned[d])'
        BY <3>1, <3>3, <3>5 DEF MayBeRead
      <3>8. Stands(d)'
        <4> HIDE DEF StartInv, StartTypeOK, BriefInv, BriefTypeOK, BoxInv
        <4> QED BY <3>2, <3>3, <3>5, <3>6, <3>7 DEF Stands
      <3> QED BY <3>4, <3>8
    <2>2. CASE Fails(d) /\ UNCHANGED pinned
      BY <1>1, <1>6, <2>2 DEF Pin, Stands, Right, Cause, MayBeRead
    <2> QED BY <1>6, <2>1, <2>2 DEF Pin
  <1> QED BY <1>2, <1>3, <1>4, <1>5, <1>6

LEMMA ApartBefore ==
  ASSUME StartInv, BriefInv, NEW d \in Delivery,
         ReadIssue(d) \/ Fetch(d) \/ JudgeApproval(d) \/ Create(d) \/ Pin(d)
  PROVE  /\ Apart(d) /\ UNCHANGED <<kind, want, confirmed, briefVars, issueVars, approveVars>>
         /\ at[d] \in Early \ {"staff"}
         /\ \E l \in Early \cup {"await", "failed", "refused"} : at' = [at EXCEPT ![d] = l]
         /\ events' \in Nat
  <1> USE DEF StartInv, StartTypeOK, BriefInv, BriefTypeOK, GoTo, Fails, Event, Elsewhere, startVars,
              briefVars, paneVars, briefHistory, Early, Apart
  <1>1. CASE ReadIssue(d)
    BY <1>1 DEF ReadIssue
  <1>2. CASE Fetch(d)
    BY <1>2 DEF Fetch
  <1>3. CASE JudgeApproval(d)
    BY <1>3 DEF JudgeApproval
  <1>4. CASE Create(d)
    BY <1>4 DEF Create
  <1>5. CASE Pin(d)
    BY <1>5 DEF Pin
  <1> QED BY <1>1, <1>2, <1>3, <1>4, <1>5

LEMMA TypesBefore ==
  ASSUME StartInv, NEW d \in Delivery,
         ReadIssue(d) \/ Fetch(d) \/ JudgeApproval(d) \/ Create(d) \/ Pin(d)
  PROVE  StartTypeOK' /\ ConfirmedInv'
  <1> USE DEF StartInv, StartTypeOK, Elsewhere, startVars, issueVars, approveVars
  <1>1. CASE ReadIssue(d)
    BY <1>1 DEF ReadIssue, ConfirmedInv
  <1>2. CASE Fetch(d)
    <2>1. snap'[d] = [text |-> text, comments |-> Latest(comments)] \/ snap' = snap
      BY <1>2 DEF Fetch
    <2>2. snap' \in [Delivery -> [text : Text \cup {NoText}, comments : Comments]]
      BY <1>2, LatestAreComments DEF Fetch
    <2>3. lacked' \in [Delivery -> SUBSET Account] /\ guarded' \in [Delivery -> BOOLEAN]
      BY <1>2 DEF Fetch
    <2>4. ASSUME NEW e \in Delivery
          PROVE  \A i \in DOMAIN snap'[e].comments : snap'[e].comments[i].by \in Listed =>
                   <<snap'[e].comments[i].by, snap'[e].comments[i].sha>> \in confirmed
      <3>1. CASE snap'[e] = snap[e]
        BY <3>1 DEF ConfirmedInv
      <3>2. CASE snap'[e].comments = Latest(comments)
        BY <3>2, LatestAreComments DEF ConfirmedInv
      <3> QED BY <1>2, <3>1, <3>2 DEF Fetch
    <2>5. UNCHANGED <<kind, want, checked, pinned, issueVars, approveVars, read, confirmed>>
      BY <1>2 DEF Fetch
    <2> QED BY <2>2, <2>3, <2>4, <2>5 DEF ConfirmedInv
  <1>3. CASE JudgeApproval(d)
    <2>1. CASE UNCHANGED <<checked, lacked>>
      BY <1>3, <2>1 DEF JudgeApproval, ConfirmedInv
    <2>2. CASE Matching(d) # {}
      <3>1. Newest(d).by \in Account
        BY <2>2, NewestMatches DEF Matching
      <3>2. checked' \in [Delivery -> SUBSET Account] /\ lacked' \in [Delivery -> SUBSET Account]
        BY <1>3, <2>2, <3>1 DEF JudgeApproval
      <3> QED BY <1>3, <3>2 DEF JudgeApproval, ConfirmedInv
    <2> QED BY <1>3, <2>1, <2>2 DEF JudgeApproval
  <1>4. CASE Create(d)
    BY <1>4 DEF Create, ConfirmedInv
  <1>5. CASE Pin(d)
    BY <1>5 DEF Pin, ConfirmedInv
  <1> QED BY <1>1, <1>2, <1>3, <1>4, <1>5

\* At the pane: an agent is launched and briefed, and its worker reads.
LEMMA StandsAtPane ==
  ASSUME StartInv, BriefInv, NEW d \in Delivery,
         \/ Staff(d) \/ WorkerReads(d)
         \/ /\ Deliver(d) \/ Pane(d)
            /\ UNCHANGED <<issueVars, startVars, read, approveVars, confirmed, lacked>>
  PROVE  Apart(d) /\ Stands(d)' /\ Right(d)' /\ Cause(d)'
  <1> USE DEF StartInv, StartTypeOK, BriefInv, BriefTypeOK, GoTo, Fails, startVars, issueVars, Early,
              AtPane, briefHistory, paneVars
  <1>1. Stands(d) /\ Right(d) /\ Cause(d)
    BY RightAndCause DEF StandsInv
  <1>2. CASE Staff(d)
    <2>1. at'[d] \in {"await", "failed"}
      BY <1>2 DEF Staff
    <2> QED BY <1>1, <1>2, <2>1 DEF Staff, Stands, Right, Cause, MayBeRead, Apart
  <1>3. CASE WorkerReads(d)
    <2>1. read'[d] = IF pinned[d] # NoText THEN pinned[d] ELSE text
      BY <1>3 DEF WorkerReads
    <2>2. at[d] \notin Early
      BY <1>3 DEF WorkerReads, BoxInv
    <2> QED BY <1>1, <1>3, <2>1, <2>2 DEF WorkerReads, briefVars, Stands, Right, Cause, MayBeRead, Apart
  <1>4. CASE /\ Deliver(d) \/ Pane(d)
             /\ UNCHANGED <<issueVars, startVars, read, approveVars, confirmed, lacked>>
    <2>1. /\ \A e \in Delivery : e # d => /\ at'[e] = at[e] /\ box'[e] = box[e]
                                          /\ (e \in taken' <=> e \in taken)
          /\ d \in taken => d \in taken'
          /\ d \in taken' \/ "brief" \in box'[d] =>
               d \in taken \/ "brief" \in box[d] \/ at[d] \in AtPane
          /\ at'[d] \in AtPane => at[d] \in AtPane \cup {"await"}
          /\ at'[d] = at[d] \/ at'[d] \in AtPane \cup {"briefed", "failed"}
      <3>1. CASE Await(d)
        BY <3>1 DEF Await
      <3>2. CASE Look(d) \/ ScreenAgain(d)
        BY <3>2 DEF Look, ScreenAgain, RefuseGatekeeper
      <3>3. CASE Type(d)
        BY <3>3 DEF Type
      <3>4. CASE Press(d)
        BY <3>4 DEF Press, Enter, Prompted
      <3>5. CASE Status(d)
        BY <3>5 DEF Status, LookAgain
      <3>6. CASE Echo(d)
        BY <3>6 DEF Echo, LookAgain
      <3>7. CASE Pane(d)
        <4>1. CASE HumanPrompts(d)
          BY <3>7, <4>1 DEF Pane, HumanPrompts, Prompted
        <4>2. CASE Exits(d) \/ BoxLost(d)
          BY <3>7, <4>2 DEF Pane, Exits, BoxLost
        <4>3. CASE ~(HumanPrompts(d) \/ Exits(d) \/ BoxLost(d))
          BY <3>7, <4>3 DEF Pane, Launches, StartsUp, DialogDrawn, Asks, PersonAnswers, TurnEnds, Scrolls
        <4> QED BY <4>1, <4>2, <4>3
      <3> QED BY <1>4, <3>1, <3>2, <3>3, <3>4, <3>5, <3>6, <3>7 DEF Deliver
    <2>2. UNCHANGED <<kind, want, guarded, snap, checked, pinned, writers, read, confirmed, lacked>>
      BY <1>4
    <2>3. Apart(d)
      BY <2>1, <2>2 DEF Apart
    <2>4. Stands(d)'
      <3> HIDE DEF StartInv, StartTypeOK, BriefInv, BriefTypeOK
      <3>1. at'[d] # at[d] => at'[d] \in AtPane \cup {"briefed", "failed"}
        BY <2>1
      <3>2. /\ at'[d] \in Early => at'[d] = at[d]
            /\ at'[d] = "await" => at[d] = "await"
            /\ at'[d] \in {"staff", "await"} \cup AtPane => at[d] \in {"staff", "await"} \cup AtPane
        BY <2>1, <3>1
      <3>3. \A t : MayBeRead(d, t)' <=> MayBeRead(d, t)
        BY <2>2 DEF MayBeRead
      <3>4. pinned'[d] # NoText => MayBeRead(d, pinned[d])'
        BY <1>1, <2>2 DEF Stands, MayBeRead
      <3>5. at'[d] \in {"create", "pin"} /\ guarded'[d] =>
              snap'[d].text \in Text /\ MayBeRead(d, snap[d].text)'
        BY <1>1, <2>2, <3>2 DEF Stands, MayBeRead
      <3>6. d \in taken' \/ "brief" \in box'[d] \/ at'[d] \in {"staff", "await"} \cup AtPane =>
              (guarded'[d] => pinned'[d] # NoText)
        BY <1>1, <2>1, <2>2, <3>2 DEF Stands
      <3>7. at'[d] = "judge" => Account \ writers' \subseteq lacked'[d]
        BY <1>1, <2>2, <3>2 DEF Stands
      <3>8. /\ at'[d] \in Early \ {"staff"} => pinned'[d] = NoText /\ read'[d] = NoText
            /\ at'[d] \in {"issue", "fetch"} => checked'[d] = {}
            /\ at'[d] = "judge" => /\ guarded'[d] /\ kind'[d] = "start" /\ snap'[d].text \in Text
                                   /\ checked'[d] \subseteq lacked'[d]
            /\ read'[d] # NoText => d \in taken'
        BY <1>1, <2>1, <2>2, <3>2 DEF Stands
      <3> QED BY <3>4, <3>5, <3>6, <3>7, <3>8 DEF Stands
    <2>5. Right(d)' /\ Cause(d)'
      BY <1>1, <2>1, <2>2 DEF Right, Cause, MayBeRead
    <2> QED BY <2>3, <2>4, <2>5
  <1> QED BY <1>2, <1>3, <1>4

LEMMA DeliveryKeeps ==
  ASSUME StartInv, BriefInv, NEW d \in Delivery,
         \/ StartStep(d) \/ WorkerReads(d)
         \/ Pane(d) /\ UNCHANGED <<issueVars, startVars, read, approveVars, confirmed, lacked>>
  PROVE  StartInv' /\ BriefInv'
  <1>1. CASE ReadIssue(d) \/ Fetch(d) \/ JudgeApproval(d) \/ Create(d) \/ Pin(d)
    <2>1. BriefInv'
      BY <1>1, ApartBefore, BriefElsewhere
    <2>2. StandsInv' /\ WorksFromTheApproved' /\ RefusedForCause'
      BY <1>1, ApartBefore, StandsBefore, Joined DEF StartInv, issueVars
    <2> QED BY <1>1, <2>1, <2>2, TypesBefore DEF StartInv
  <1>2. CASE Staff(d)
    <2>1. /\ UNCHANGED <<polls, box, echoed, finished, briefHistory, issueVars, startVars, read,
                         approveVars, confirmed, lacked>>
          /\ at[d] = "staff" /\ events' \in Nat
          /\ at' = [at EXCEPT ![d] = "await"] \/ at' = [at EXCEPT ![d] = "failed"]
          /\ screen' \in [Delivery -> Screens]
          /\ \A e \in Delivery : e # d => screen'[e] = screen[e]
      BY <1>2 DEF Staff, BriefInv, BriefTypeOK, GoTo, Fails, Event, Screens
    <2>2. BriefTypeOK'
      BY <2>1 DEF BriefInv, BriefTypeOK, briefHistory, Places
    <2>3. BoxInv'
      BY <2>1 DEF BriefInv, BriefTypeOK, BoxInv, briefHistory, Early
    <2>4. PaneInv'
      BY <2>1 DEF BriefInv, BriefTypeOK, PaneInv, briefHistory, AtPane
    <2>5. NoBlindKey' /\ IdleIsReadRightly'
      BY <2>1 DEF BriefInv, NoBlindKey, IdleIsReadRightly, briefHistory
    <2>6. StandsInv' /\ WorksFromTheApproved' /\ RefusedForCause'
      BY <1>2, <2>1, StandsAtPane, Joined DEF StartInv, issueVars, startVars
    <2>7. StartTypeOK' /\ ConfirmedInv'
      BY <2>1 DEF StartInv, StartTypeOK, ConfirmedInv, issueVars, startVars, approveVars
    <2> QED BY <2>2, <2>3, <2>4, <2>5, <2>6, <2>7 DEF BriefInv, StartInv
  <1>3. CASE WorkerReads(d)
    <2>1. UNCHANGED <<at, events, briefVars, issueVars, startVars, approveVars, confirmed, lacked>>
      BY <1>3 DEF WorkerReads
    <2>2. BriefInv'
      BY <2>1, ElsewhereStays DEF BriefInv, BriefTypeOK
    <2>3. read' \in [Delivery -> Text \cup {NoText}]
      BY <1>3 DEF WorkerReads, StartInv, StartTypeOK
    <2>4. StartTypeOK' /\ ConfirmedInv'
      BY <2>1, <2>3 DEF StartInv, StartTypeOK, ConfirmedInv, issueVars, startVars, approveVars
    <2>5. StandsInv' /\ WorksFromTheApproved' /\ RefusedForCause'
      BY <1>3, <2>1, StandsAtPane, Joined DEF StartInv, issueVars, startVars
    <2> QED BY <2>2, <2>4, <2>5 DEF StartInv
  <1>4. CASE /\ Deliver(d) \/ Pane(d)
             /\ UNCHANGED <<issueVars, startVars, read, approveVars, confirmed, lacked>>
    <2>1. BriefInv'
      BY <1>4, BriefStep
    <2>2. StartTypeOK' /\ ConfirmedInv'
      BY <1>4 DEF StartInv, StartTypeOK, ConfirmedInv, issueVars, startVars, approveVars
    <2>3. StandsInv' /\ WorksFromTheApproved' /\ RefusedForCause'
      BY <1>4, StandsAtPane, Joined DEF StartInv, issueVars, startVars
    <2> QED BY <2>1, <2>2, <2>3 DEF StartInv
  <1> QED BY <1>1, <1>2, <1>3, <1>4 DEF StartStep

LEMMA StartStart == ASSUME Fresh, \A d \in Delivery : at[d] \in {"issue", "fetch", "failed"},
                           \A d \in Delivery : at[d] = "fetch" => kind[d] = "live",
                           at \in [Delivery -> Places]
                    PROVE  StartInv /\ BriefInv
  <1>0. BriefInit /\ PaneInit /\ snap = [d \in Delivery |-> NoSnap] /\ comments = <<>> /\ confirmed = {}
        /\ step \in [Approve -> {"idle", "over"}]
    BY DEF Fresh
  <1>1. BriefTypeOK
    BY <1>0 DEF BriefTypeOK, BriefInit, PaneInit, Screens, Writers, Hows, Statuses
  <1>2. BoxInv /\ PaneInv /\ NoBlindKey /\ IdleIsReadRightly
    <2>1. \A d \in Delivery : /\ box[d] = {} /\ blind[d] = {} /\ judged[d].how = "not"
                               /\ "brief" \notin echoed[d] /\ d \notin taken /\ at[d] \notin AtPane
                               /\ at[d] \notin {"type", "press"}
      <3> TAKE d \in Delivery
      <3>1. box[d] = {} /\ blind[d] = {} /\ judged[d].how = "not" /\ d \notin taken
        BY <1>0 DEF BriefInit
      <3>2. echoed[d] \in {{}, {"earlier"}}
        BY <1>0 DEF PaneInit
      <3>3. at[d] \notin AtPane /\ at[d] \notin {"type", "press"}
        BY DEF AtPane
      <3> QED BY <3>1, <3>2, <3>3
    <2> QED BY <2>1 DEF BoxInv, PaneInv, NoBlindKey, IdleIsReadRightly
  <1>3. snap \in [Delivery -> [text : Text \cup {NoText}, comments : Comments]] /\ comments \in Comments
    BY <1>0 DEF NoSnap, Comments
  <1>4. StartTypeOK
    BY <1>3 DEF StartTypeOK, Fresh
  <1>5. ConfirmedInv
    <2>1. (\A d \in Delivery : snap[d].comments = <<>>) /\ DOMAIN comments = {}
      BY <1>0 DEF NoSnap
    <2>2. \A a \in Approve : step[a] \notin {"answer", "post", "label"}
      BY <1>0
    <2> QED BY <2>1, <2>2 DEF ConfirmedInv
  <1>6. StandsInv /\ WorksFromTheApproved /\ RefusedForCause
    <2>1. \A d \in Delivery : /\ pinned[d] = NoText /\ read[d] = NoText /\ checked[d] = {}
                               /\ ~guarded[d] /\ d \notin taken
      BY DEF Fresh, BriefInit
    <2> QED BY <2>1 DEF StandsInv, Stands, WorksFromTheApproved, RefusedForCause
  <1> QED BY <1>1, <1>2, <1>4, <1>5, <1>6 DEF StartInv, BriefInv

-----------------------------------------------------------------------------
(* The theorems *)

LEMMA IInvHolds == OnboardingInit => IInv
  <1>1. ASSUME Init PROVE StartInv /\ BriefInv
    BY <1>1, StartStart DEF Init, Fresh, Places
  <1>2. ASSUME NoStart PROVE StartInv /\ BriefInv
    BY <1>2, StartStart DEF NoStart, Places
  <1> QED BY <1>1, <1>2, LessonsStart DEF OnboardingInit, NoLessons, IInv

LEMMA IInvKept == IInv /\ [OnboardingNext]_<<vars, lessonVars, about>> => IInv'
  <1> SUFFICES ASSUME IInv, [OnboardingNext]_<<vars, lessonVars, about>> PROVE IInv'
    OBVIOUS
  <1>1. ASSUME UNCHANGED lessonVars PROVE LessonsInv'
    <2> USE <1>1 DEF lessonVars, files, IInv, LessonsInv
    <2>1. LessonsTypeOK' /\ PinInv'
      BY DEF LessonsTypeOK, PinInv
    <2>2. AgreedInv' /\ DropInv'
      BY DEF AgreedInv, DropInv, Asked, Is, Id, Ids
    <2>3. HandInv'
      BY DEF HandInv, Asked, Is, Id, Shown, Entry, Draft
    <2>4. TaughtAsAgreed' /\ LessonsKept'
      BY DEF TaughtAsAgreed, LessonsKept, Lapsed, Ids
    <2> QED BY <2>1, <2>2, <2>3, <2>4
  <1>2. ASSUME UNCHANGED vars PROVE StartInv' /\ BriefInv'
    <2>1. BriefInv'
      BY <1>2, ElsewhereStays DEF vars, IInv, BriefInv, BriefTypeOK
    <2>2. StartTypeOK' /\ ConfirmedInv'
      BY <1>2 DEF vars, IInv, StartInv, StartTypeOK, ConfirmedInv, issueVars, startVars, approveVars
    <2>3. StandsInv' /\ WorksFromTheApproved' /\ RefusedForCause'
      <3>1. UNCHANGED <<at, startVars, read, taken, box, confirmed, lacked, writers>>
        BY <1>2 DEF vars, briefVars, paneVars, briefHistory, issueVars
      <3>2. \A d \in Delivery : at[d] = "judge" => Account \ writers' \subseteq lacked'[d]
        BY <3>1 DEF IInv, StartInv, StandsInv, Stands
      <3> QED BY <3>1, <3>2, StandsElsewhere DEF IInv, StartInv
    <2> QED BY <2>1, <2>2, <2>3 DEF StartInv
  <1>3. ASSUME Next PROVE StartInv' /\ BriefInv'
    BY <1>3, DeliveryKeeps, ApproveKeeps, GitHubKeeps DEF Next, Environment, IInv
  <1>4. ASSUME LessonsNext PROVE LessonsInv'
    BY <1>4, LessonsStep DEF IInv
  <1> QED BY <1>1, <1>2, <1>3, <1>4 DEF OnboardingNext, IInv

\* Every reachable state of the composition satisfies the inductive invariant.
THEOREM Invariant == OnboardingSpec => []IInv
  <1>1. OnboardingInit /\ [][OnboardingNext]_<<vars, lessonVars, about>> => []IInv
    BY IInvHolds, IInvKept, PTL
  <1> QED BY <1>1, PTL DEF OnboardingSpec

\* What a worker reads of an issue that needs an approval is text that somebody listed
\* confirmed to have been shown, or that the caller named (factoryApproval, pinIssue).
THEOREM ReadsTheApproved == OnboardingSpec => []WorksFromTheApproved
  BY Invariant, PTL DEF IInv, StartInv

\* A well-formed text is refused only where every comment with its hash is by somebody
\* not listed, or who could not be shown to have write access (factoryApproval).
THEOREM NotRefusedWithout == OnboardingSpec => []RefusedForCause
  BY Invariant, PTL DEF IInv, StartInv

\* No key or text of a delivery meets a dialog or a shell that a look of it could have
\* shown (refuseGatekeeper, awaitInteractive).
THEOREM KeysAreAimed == OnboardingSpec => []NoBlindKey
  BY Invariant, PTL DEF IInv, BriefInv

\* What a delivery concludes from an idle agent's screen is so (briefTaken).
THEOREM ScreenTells == OnboardingSpec => []IdleIsReadRightly
  BY Invariant, PTL DEF IInv, BriefInv

\* What a worker is taught, a person agreed to, and it has not lapsed (lessonsApprove,
\* briefLessons).
THEOREM TeachesTheAgreed == OnboardingSpec => []TaughtAsAgreed
  BY Invariant, PTL DEF IInv, LessonsInv

\* A lesson is in one of the files until somebody takes it out, unless an older copy
\* overwrote it (lessonsApprove, lessonsRemove, appendDraft).
THEOREM LessonsStay == OnboardingSpec => []LessonsKept
  BY Invariant, PTL DEF IInv, LessonsInv
=============================================================================
