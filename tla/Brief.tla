-------------------------------- MODULE Brief --------------------------------
(***************************************************************************)
(* Handing an agent its brief (start.go, trustscreen.go): wait until herdr   *)
(* says the pane takes input, look at the screen, type the brief, and press  *)
(* Enter until the agent has reacted or a deadline has passed.               *)
(*                                                                           *)
(* Each call of herdr is a step; the agent, its dialogs and a person at the  *)
(* pane move between any two.  Every delivery has a pane of its own.  herdr  *)
(* reads an agent's status off its screen, and not always rightly.  This     *)
(* module is extended by the commands that deliver briefs.                   *)
(***************************************************************************)
EXTENDS Naturals

CONSTANTS
  Delivery,  \* runs of a command that briefs an agent in a pane
  OldHerdr,  \* whether herdr predates interactive_ready
  Faults,    \* which faults this instance admits
  MaxPolls,  \* polls that fit into agentReadyWait and into briefConfirmWait
  MaxEvents  \* what agents, people and faults do in one behavior

VARIABLES
  at,        \* where each delivery stands
  polls,     \* polls it has made in the wait it is in
  screen,    \* what its pane shows
  box,       \* who has text in the composer, or at the shell's prompt
  echoed,    \* whose prompts the last briefTakenLines of the transcript show
  finished,  \* the agent has ended a turn nobody has looked at
  events,    \* events so far
  taken,     \* history: deliveries whose brief the agent took as a prompt
  sinceReady,\* history: the pane changed since the delivery found it ready
  sinceCall, \* history: the pane changed since its previous call of herdr
  blind,     \* history: keys that hit something other than a composer
  judged     \* history: what the delivery decided by, and how

paneVars == <<screen, box, echoed, finished>>
briefHistory == <<taken, sinceReady, sinceCall, blind, judged>>
briefVars == <<polls, paneVars, briefHistory>>

\* Whose text a line of the composer or of the transcript can be.
Writers == {"brief", "human", "earlier"}

\* "deaf" is a composer drawn before Claude Code acts on Enter.
\* "asks" is the question of an agent in the middle of a turn.
Screens == {"none", "shell", "launching", "deaf", "dialog", "prompt", "turn", "asks"}

Composer == {"deaf", "prompt", "turn"}

\* What herdr says of an agent; and what a delivery has decided by.
Statuses == {"idle", "done", "working", "blocked", "unknown"}
Hows == Statuses \cup {"not", "echo"}

\* Where a delivery stands: in a command of its own, at the pane, or at an end.
Places == {"issue", "fetch", "judge", "create", "pin", "staff",
           "await", "look", "type", "screen", "press", "status", "echo",
           "briefed", "failed", "refused"}

BriefTypeOK ==
  /\ at \in [Delivery -> Places]
  /\ polls \in [Delivery -> Nat] /\ events \in Nat
  /\ screen \in [Delivery -> Screens]
  /\ box \in [Delivery -> SUBSET Writers] /\ echoed \in [Delivery -> SUBSET Writers]
  /\ finished \in [Delivery -> BOOLEAN]
  /\ taken \subseteq Delivery /\ sinceReady \subseteq Delivery /\ sinceCall \subseteq Delivery
  /\ blind \in [Delivery -> SUBSET [key : {"text", "enter"}, on : Screens, late : BOOLEAN]]
  /\ judged \in [Delivery -> [how : Hows, read : BOOLEAN, shown : SUBSET Writers]]

\* Before anything is delivered; what the panes show is for the command to say.
BriefInit ==
  /\ polls = [d \in Delivery |-> 0]
  /\ box = [d \in Delivery |-> {}]
  /\ events = 0
  /\ taken = {}
  /\ sinceReady = {} /\ sinceCall = {}
  /\ blind = [d \in Delivery |-> {}]
  /\ judged = [d \in Delivery |-> [how |-> "not", read |-> FALSE, shown |-> {}]]

GoTo(d, label) == at' = [at EXCEPT ![d] = label]

Event == events < MaxEvents /\ events' = events + 1

\* People, notices and exits are left out of instances about something else.
PaneEvent == "paneMoves" \in Faults /\ Event

\* A call of herdr fails, and with it the delivery.
Fails(d) == "callFails" \in Faults /\ Event /\ GoTo(d, "failed")

-----------------------------------------------------------------------------
(* What herdr answers *)

Agent(d) == screen[d] \notin {"none", "shell"}

\* A herdr that does not know says nothing, which is taken for yes.
InteractiveReady(d) == OldHerdr \/ screen[d] \in Composer

\* launch_pending
LaunchOver(d) == ~OldHerdr /\ screen[d] = "shell"

\* A worker mid-turn with long output on its screen is reported idle.
AgentStatus(d) ==
  CASE screen[d] \in {"dialog", "asks"} -> {"blocked", "unknown"}
    [] screen[d] \in {"deaf", "prompt"} -> {IF finished[d] THEN "done" ELSE "idle", "unknown"}
    [] screen[d] = "turn" -> {"working", "idle", "unknown"}
    [] OTHER -> {"unknown"}

-----------------------------------------------------------------------------
(* Before the brief is typed *)

\* Mutant: an agent that is not ready is waited for without end.
AwaitForever(d) ==
  /\ at[d] = "await"
  /\ \E status \in AgentStatus(d) :
       GoTo(d, IF InteractiveReady(d) \/ status = "blocked" THEN "look"
               ELSE IF LaunchOver(d) THEN "failed" ELSE "await")
  /\ UNCHANGED <<polls, paneVars, events, taken, sinceReady, blind, judged>>

\* awaitInteractive
Await(d) ==
  /\ at[d] = "await"
  /\ \/ /\ \E status \in AgentStatus(d) :
             IF InteractiveReady(d) \/ status = "blocked"
             THEN /\ GoTo(d, "look")
                  /\ polls' = [polls EXCEPT ![d] = 0]
                  /\ sinceReady' = sinceReady \ {d}
             ELSE /\ UNCHANGED sinceReady
                  /\ IF LaunchOver(d) \/ polls[d] = MaxPolls
                     THEN GoTo(d, "failed") /\ UNCHANGED polls
                     ELSE UNCHANGED at /\ polls' = [polls EXCEPT ![d] = @ + 1]
        /\ UNCHANGED events
     \/ Fails(d) /\ UNCHANGED <<polls, sinceReady>>
  /\ UNCHANGED <<paneVars, taken, blind, judged>>

\* refuseGatekeeper: a dialog is left to a person.
RefuseGatekeeper(d, next) ==
  \/ /\ GoTo(d, IF screen[d] = "dialog" THEN "failed" ELSE next)
     /\ UNCHANGED events
  \/ Fails(d)

Look(d) ==
  /\ at[d] = "look"
  /\ RefuseGatekeeper(d, "type")
  /\ UNCHANGED <<polls, paneVars, taken, sinceReady, blind, judged>>

\* A key, or text, that meets something other than a composer, and whether that
\* came after the delivery last had the chance to learn of it.
Meets(d, key) ==
  blind' = [blind EXCEPT ![d] = @ \cup {[key |-> key, on |-> screen[d],
             late |-> d \in IF screen[d] = "shell" THEN sinceReady ELSE sinceCall]}]

\* PaneSendText, into whatever takes text there by now.
Type(d) ==
  /\ at[d] = "type"
  /\ \/ /\ GoTo(d, "screen")
        /\ IF screen[d] \in {"dialog", "asks"} THEN UNCHANGED box
           ELSE box' = [box EXCEPT ![d] = @ \cup {"brief"}]
        /\ IF screen[d] \in {"dialog", "asks", "shell"} THEN Meets(d, "text") ELSE UNCHANGED blind
        /\ UNCHANGED events
     \/ Fails(d) /\ UNCHANGED <<box, blind>>
  /\ UNCHANGED <<polls, screen, echoed, finished, taken, sinceReady, judged>>

-----------------------------------------------------------------------------
(* submitBrief *)

\* Mutant: looked at before the typing and not before the key.
ScreenNotRead(d) ==
  /\ at[d] = "screen"
  /\ GoTo(d, "press")
  /\ UNCHANGED <<polls, paneVars, events, taken, sinceReady, blind, judged>>

ScreenAgain(d) ==
  /\ at[d] = "screen"
  /\ RefuseGatekeeper(d, "press")
  /\ UNCHANGED <<polls, paneVars, taken, sinceReady, blind, judged>>

\* What the composer holds becomes a prompt, or is queued behind a turn.
Prompted(d, texts) ==
  /\ taken' = IF "brief" \in texts THEN taken \cup {d} ELSE taken
  /\ echoed' = [echoed EXCEPT ![d] = @ \cup texts]
  /\ box' = [box EXCEPT ![d] = {}]
  /\ screen' = [screen EXCEPT ![d] = "turn"]
  /\ finished' = [finished EXCEPT ![d] = FALSE]

\* Enter: it submits, is dropped, runs a command line, or answers a question.
Enter(d) ==
  CASE screen[d] \in {"prompt", "turn"} /\ box[d] # {} ->
         Prompted(d, box[d]) /\ UNCHANGED blind
    [] screen[d] = "shell" /\ box[d] # {} ->
         /\ Meets(d, "enter")
         /\ box' = [box EXCEPT ![d] = {}]
         /\ UNCHANGED <<taken, screen, echoed, finished>>
    [] screen[d] \in {"dialog", "asks"} ->
         /\ Meets(d, "enter")
         /\ screen' = [screen EXCEPT ![d] = IF screen[d] = "dialog" THEN "deaf" ELSE "turn"]
         /\ UNCHANGED <<taken, box, echoed, finished>>
    [] OTHER -> UNCHANGED <<taken, paneVars, blind>>

Press(d) ==
  /\ at[d] = "press"
  /\ \/ Enter(d) /\ GoTo(d, "status") /\ UNCHANGED events
     \/ Fails(d) /\ UNCHANGED <<taken, paneVars, blind>>
  /\ UNCHANGED <<polls, sinceReady, judged>>

Judge(d, how) ==
  judged' = [judged EXCEPT ![d] = [how |-> how, read |-> d \in taken,
                                          shown |-> IF Agent(d) THEN echoed[d] ELSE {}]]

\* At the deadline, or on to the next poll, with or without another press.
LookAgain(d, how) ==
  IF polls[d] = MaxPolls
  THEN GoTo(d, "failed") /\ Judge(d, how) /\ UNCHANGED polls
  ELSE /\ at' \in {[at EXCEPT ![d] = l] : l \in {"screen", "status"}}
       /\ polls' = [polls EXCEPT ![d] = @ + 1]
       /\ UNCHANGED judged

\* Mutant: idle is taken for unread, and the transcript is not looked at.
StatusOnly(d) ==
  /\ at[d] = "status"
  /\ \E status \in AgentStatus(d) :
       IF status \in {"idle", "unknown"} THEN LookAgain(d, status)
       ELSE GoTo(d, "briefed") /\ Judge(d, status) /\ UNCHANGED polls
  /\ UNCHANGED <<paneVars, events, taken, sinceReady, blind>>

\* AgentGet: any sign of life but idle and unknown counts.
Status(d) ==
  /\ at[d] = "status"
  /\ \/ /\ \E status \in AgentStatus(d) :
             CASE status = "idle" -> GoTo(d, "echo") /\ UNCHANGED <<polls, judged>>
               [] status = "unknown" -> LookAgain(d, status)
               [] OTHER -> GoTo(d, "briefed") /\ Judge(d, status) /\ UNCHANGED polls
        /\ UNCHANGED events
     \/ ~Agent(d) /\ GoTo(d, "failed") /\ UNCHANGED <<polls, judged, events>>
     \/ Fails(d) /\ UNCHANGED <<polls, judged>>
  /\ UNCHANGED <<paneVars, taken, sinceReady, blind>>

\* The box no longer holds the brief and the transcript echoes it.  A long paste
\* collapses, and one collapsed paste reads like another.
BriefTaken(d) ==
  /\ screen[d] \in Composer \cup {"dialog", "asks"}
  /\ "brief" \notin box[d]
  /\ echoed[d] \cap {"brief", "earlier"} # {}

Echo(d) ==
  /\ at[d] = "echo"
  /\ \/ /\ IF BriefTaken(d)
           THEN GoTo(d, "briefed") /\ Judge(d, "echo") /\ UNCHANGED polls
           ELSE LookAgain(d, "idle")
        /\ UNCHANGED events
     \/ Fails(d) /\ UNCHANGED <<polls, judged>>
  /\ UNCHANGED <<paneVars, taken, sinceReady, blind>>

Deliver(d) ==
  /\ Await(d) \/ Look(d) \/ Type(d) \/ ScreenAgain(d) \/ Press(d) \/ Status(d) \/ Echo(d)
  /\ sinceCall' = sinceCall \ {d}

-----------------------------------------------------------------------------
(* The agent, and a person at the pane *)

Redraw(d, to) ==
  /\ screen' = [screen EXCEPT ![d] = to]
  /\ sinceReady' = sinceReady \cup {d}
  /\ sinceCall' = sinceCall \cup {d}

\* The launch: a composer, a dialog, or a command line that failed.
Launches(d) ==
  /\ screen[d] = "launching"
  /\ \E to \in {"deaf", "dialog", "shell"} : Redraw(d, to)
  /\ UNCHANGED <<box, echoed, finished, events, taken, blind, judged>>

StartsUp(d) ==
  /\ screen[d] = "deaf"
  /\ Redraw(d, "prompt")
  /\ UNCHANGED <<box, echoed, finished, events, taken, blind, judged>>

DialogDrawn(d) ==
  /\ screen[d] \in {"deaf", "prompt"}
  /\ PaneEvent
  /\ Redraw(d, "dialog")
  /\ UNCHANGED <<box, echoed, finished, taken, blind, judged>>

Asks(d) ==
  /\ screen[d] = "turn"
  /\ PaneEvent
  /\ Redraw(d, "asks")
  /\ UNCHANGED <<box, echoed, finished, taken, blind, judged>>

PersonAnswers(d) ==
  /\ screen[d] \in {"dialog", "asks"}
  /\ PaneEvent
  /\ Redraw(d, IF screen[d] = "dialog" THEN "deaf" ELSE "turn")
  /\ UNCHANGED <<box, echoed, finished, taken, blind, judged>>

Exits(d) ==
  /\ Agent(d)
  /\ PaneEvent
  /\ Redraw(d, "shell")
  /\ box' = [box EXCEPT ![d] = {}]
  /\ UNCHANGED <<echoed, finished, taken, blind, judged>>

\* Claude Code redraws for a notice, and the composer's text is gone.
BoxLost(d) ==
  /\ screen[d] = "deaf" /\ box[d] # {}
  /\ PaneEvent
  /\ Redraw(d, "deaf")
  /\ box' = [box EXCEPT ![d] = {}]
  /\ UNCHANGED <<echoed, finished, taken, blind, judged>>

TurnEnds(d) ==
  /\ screen[d] = "turn"
  /\ Redraw(d, "prompt")
  /\ finished' \in {finished, [finished EXCEPT ![d] = TRUE]}
  /\ UNCHANGED <<box, echoed, events, taken, blind, judged>>

\* The agent prints so much that its prompts leave the lines that are read.
Scrolls(d) ==
  /\ screen[d] = "turn" /\ echoed[d] # {}
  /\ PaneEvent
  /\ echoed' = [echoed EXCEPT ![d] = {}]
  /\ UNCHANGED <<screen, box, finished, taken, sinceReady, sinceCall, blind, judged>>

\* A person writes a prompt of their own and submits it with what the box holds.
HumanPrompts(d) ==
  /\ screen[d] = "prompt"
  /\ PaneEvent
  /\ Prompted(d, box[d] \cup {"human"})
  /\ sinceReady' = sinceReady \cup {d} /\ sinceCall' = sinceCall \cup {d}
  /\ UNCHANGED <<blind, judged>>

Pane(d) ==
  /\ \/ Launches(d) \/ StartsUp(d) \/ DialogDrawn(d) \/ Asks(d) \/ PersonAnswers(d) \/ Exits(d)
     \/ BoxLost(d) \/ TurnEnds(d) \/ Scrolls(d) \/ HumanPrompts(d)
  /\ UNCHANGED <<at, polls>>

-----------------------------------------------------------------------------
(* Properties *)

\* No key meets a gatekeeper dialog that was drawn before the call that precedes
\* it, and no brief is typed or run at a shell's prompt unless the agent left
\* after herdr last said it was ready (refuseGatekeeper, awaitInteractive).  An
\* old herdr cannot say that.
NoBlindKey ==
  \A d \in Delivery : \A k \in blind[d] :
    k.late \/ k.on = "asks" \/ (k.on = "shell" /\ OldHerdr)

\* What a delivery concludes from an idle agent's screen is so: a brief judged
\* taken was taken, unless an earlier prompt reads the same, and one given up on
\* was not, unless its echo has scrolled away or the agent has left
\* (briefTaken, submitBrief).
IdleIsReadRightly ==
  \A d \in Delivery :
    /\ judged[d].how = "echo" => judged[d].read \/ "earlier" \in judged[d].shown
    /\ judged[d].how = "idle" => ~judged[d].read \/ "brief" \notin judged[d].shown

-----------------------------------------------------------------------------
(* What the repository says and the code does not do *)

\* submitBrief says it presses Enter until the agent takes the brief up, and
\* fails if it never does.
BriefedIsTaken == \A d \in Delivery : at[d] = "briefed" => d \in taken
=============================================================================
