-------------------------------- MODULE Gate --------------------------------
(***************************************************************************)
(* `gate` (gate.go) waiting on several workers, and `report` (report.go,   *)
(* metadata.go) telling it.  A report travels on two channels of a pane:   *)
(* its metadata tokens, numbered from the pane itself and announced by a   *)
(* frame on the subscription, and its terminal, where an envelope may show *)
(* and scroll away and nobody announces it.                                *)
(*                                                                         *)
(* Every herdr call is a step.  A report is what the predicate can see of  *)
(* it; the note is not.                                                    *)
(***************************************************************************)
EXTENDS Naturals, Sequences, FiniteSets

CONSTANTS
  Pane,          \* the panes of the session that matter
  Targets,       \* those the gate waits on, in the order they were named
  WsOf,          \* the workspace of each pane
  Writer,        \* the invocations of `report`
  Of,            \* the pane each of them runs in
  Answered,      \* panes that hold an earlier task's report when all begins
  Until,         \* the statuses that release
  Mode,          \* "plain", "pr" (--require-pr) or "scout" (--scout)
  MetadataOnly,  \* the terminal is read and not judged, as `review` asks
  Faults,        \* which faults this instance admits
  Earlier,       \* who wrote the earlier task's reports
  NoReport,      \* a channel that shows no report
  NoPane,        \* a frame or an outcome about no pane
  Window,        \* envelopes the terminal snapshot holds
  Says,          \* the statuses the workers report with
  MaxEvents      \* what herdr and its users do of their own accord, in one behavior

Target   == {Targets[i] : i \in DOMAIN Targets}
Channel  == {"meta", "term"}
Statuses == {"planned", "blocked", "done"}

Reports  == [by : Writer \cup {Earlier}, status : Statuses, pr : BOOLEAN, sha : Nat, new : BOOLEAN]

\* No worker is waited on under two names (resolveTargets).
ASSUME TargetAssumption ==
  /\ IsFiniteSet(Pane) /\ Targets \in Seq(Pane) /\ Targets # <<>>
  /\ \A i, j \in DOMAIN Targets : Targets[i] = Targets[j] => i = j
  /\ Of \in [Writer -> Pane]
  /\ Answered \subseteq Pane
  /\ NoPane \notin Pane /\ Earlier \notin Writer /\ NoReport \notin Reports
ASSUME OptionAssumption ==
  /\ Until \subseteq Statuses
  /\ Mode \in {"plain", "pr", "scout"}
  /\ MetadataOnly \in BOOLEAN
  /\ Faults \subseteq {"readFails", "ghFails", "baselineFails", "writeFails", "streamFails", "clears"}
  /\ Says \subseteq Statuses
  /\ Window \in Nat \ {0, 1} /\ MaxEvents \in Nat

VARIABLES
  pane,       \* each pane: "open", "exited" and still readable, or "closed"
  version,    \* commits on each pane's branch since its worker started
  tokens,     \* each pane's metadata: the number, and the report it decodes to
  screen,     \* the envelopes in each pane's terminal snapshot, oldest first
  writer,     \* where each `report` stands, what it says, the number it took
  events,     \* what herdr and its users did so far
  stream,     \* frames on the subscription the gate has not read
  gate,       \* where the gate stands, channels to read, what a look turned up
  mark,       \* gateMarks: the count each channel showed last
  outcome,    \* what the gate ended with
  closedWs,   \* workspaces closed so far, which herdr replays to a subscriber
  ended,      \* history: panes whose worker can no longer report
  early,      \* history: those that ended unheard before the subscription
  lastWords,  \* history: what each pane's channels had to say when it ended
  judged,     \* history: reports the gate has weighed
  spoiled,    \* history: reports a channel lost: they took a number already taken
              \* on the pane, were cleared away, scrolled, or were replaced on a
              \* pane whose worker had ended
  unread,     \* history: channels that could not be read at some look
  blind       \* history: those of them whose baseline could not

paneVars    == <<pane, version, closedWs, ended, early, lastWords>>
reportVars  == <<tokens, screen, writer, spoiled>>
gateVars    == <<gate, mark, outcome, judged, unread, blind>>
vars == <<paneVars, reportVars, events, stream, gateVars>>

NoOutcome == [kind |-> "none", about |-> NoPane, report |-> NoReport]

Report(by, status, pr, sha, new) ==
  [by |-> by, status |-> status, pr |-> pr, sha |-> sha, new |-> new]

\* What an earlier task left in a pane, printed once and repeated in its reply.
Old == Report(Earlier, "done", TRUE, 0, FALSE)

Init ==
  /\ pane = [p \in Pane |-> "open"]
  /\ version = [p \in Pane |-> 0]
  /\ tokens = [p \in Pane |-> IF p \in Answered THEN [seq |-> 1, report |-> Old]
                                               ELSE [seq |-> 0, report |-> NoReport]]
  /\ screen = [p \in Pane |-> IF p \in Answered THEN <<Old, Old>> ELSE <<>>]
  /\ writer = [w \in Writer |-> [at |-> "idle", report |-> NoReport, seq |-> 0]]
  /\ events = 0
  /\ stream = <<>>
  /\ gate = [at |-> "resolve", todo |-> {}, base |-> TRUE, fresh |-> {}, gone |-> NoPane]
  /\ mark = [p \in Target |-> [c \in Channel |-> 0]]
  /\ outcome = NoOutcome
  /\ closedWs = {}
  /\ ended = {}
  /\ early = {}
  /\ lastWords = [p \in Pane |-> {}]
  /\ judged = {}
  /\ spoiled = {}
  /\ unread = {} /\ blind = {}

-----------------------------------------------------------------------------
(* Frames *)

Subscribed == gate.at \in {"look", "next"}

Frame(event, p, ws) == [event |-> event, pane |-> p, ws |-> ws]

\* Mutant: the stream is opened once the baselines are read.
EmitOnceWaiting(frame) ==
  stream' = IF Subscribed /\ ~gate.base THEN Append(stream, frame) ELSE stream

\* herdr pushes a frame to whoever is subscribed by now.
Emit(frame) == stream' = IF Subscribed THEN Append(stream, frame) ELSE stream

\* gateVerdict: what a frame means to one worker.
Verdict(f, p) ==
  IF f.event = "workspaceClosed" THEN IF f.ws = WsOf[p] THEN "gone" ELSE "ignore"
  ELSE IF f.pane # p THEN "ignore"
  ELSE IF f.event \in {"exited", "unknown"} THEN "gone"
  ELSE "check"

\* The backlog a new subscriber gets, in any order: the panes that were updated, and
\* every workspace that was closed.
Backlog ==
  LET frames == {Frame("updated", p, WsOf[p]) : p \in {q \in Pane : tokens[q].seq > 0}}
                  \cup {Frame("workspaceClosed", NoPane, ws) : ws \in closedWs}
  IN  {s \in [1..Cardinality(frames) -> frames] : \A f \in frames : \E i \in DOMAIN s : s[i] = f}

-----------------------------------------------------------------------------
(* The gate *)

At(label) == gate' = [gate EXCEPT !.at = label]

\* The wait is over, and the stream is closed as gateWait returns.
Leave(label, kind, p, report) ==
  /\ outcome' = [kind |-> kind, about |-> p, report |-> report]
  /\ gate' = [gate EXCEPT !.at = label, !.todo = {}, !.fresh = {}, !.gone = NoPane]
  /\ stream' = <<>>

End(kind, p, report) == Leave("over", kind, p, report)

WaitOn == gate' = [gate EXCEPT !.at = "next", !.fresh = {}] /\ UNCHANGED <<outcome, stream>>

\* resolveTargets: a target herdr does not know, or has lost, fails the wait
\* before it begins.
Resolve ==
  /\ gate.at = "resolve"
  /\ IF Target \cap ended = {} THEN At("subscribe") /\ UNCHANGED <<outcome, stream>>
                               ELSE End("error", NoPane, NoReport)
  /\ UNCHANGED <<paneVars, reportVars, events, mark, judged, unread, blind>>

\* A look reads both channels of each of its panes, in the order the panes were named.
Looks(panes) == panes \X Channel

Place(p) == CHOOSE i \in DOMAIN Targets : Targets[i] = p

Before(x, y) == \/ Place(x[1]) < Place(y[1])
                \/ x[1] = y[1] /\ x[2] = "meta" /\ y[2] = "term"

\* Subscribe, BEFORE the baselines are read.
Subscribe ==
  /\ gate.at = "subscribe"
  /\ gate' = [gate EXCEPT !.at = "look", !.todo = Looks(Target)]
  /\ stream' \in Backlog
  /\ UNCHANGED <<paneVars, reportVars, events, mark, outcome, judged, unread, blind>>

\* The gate has taken the baseline of channel c of pane p.
Opened(p, c) ==
  /\ Subscribed
  /\ ~(gate.base /\ <<p, c>> \in gate.todo)

\* Tokens that decode to no report show no number either.
MetaSeq(p) == IF tokens[p].report = NoReport THEN 0 ELSE tokens[p].seq

\* Mutant: any change of the count is news.
IsNewsIfChanged(seq, m) == seq > 0 /\ seq # m

\* advance: news is a count higher than the channel showed last.
IsNews(seq, m) == seq > m

\* The channel a look comes to next.
Reading(x) == /\ gate.at = "look"
              /\ x \in gate.todo /\ \A y \in gate.todo : ~Before(y, x)

\* What channel c of pane p shows: its count, and the newest report.
Seen(p, c) == IF c = "meta" THEN [seq |-> MetaSeq(p), report |-> tokens[p].report]
              ELSE [seq |-> Len(screen[p]),
                    report |-> IF screen[p] = <<>> THEN NoReport ELSE screen[p][Len(screen[p])]]

\* One channel of one pane.  The first look only sets the marks.
ReadChannel(x) ==
  LET p     == x[1]
      c     == x[2]
      shown == Seen(p, c)
      judge == ~(c = "term" /\ MetadataOnly)
      news  == ~gate.base /\ judge /\ IsNews(shown.seq, mark[p][c])
  IN  /\ Reading(x)
      /\ pane[p] # "closed"
      /\ gate' = [gate EXCEPT !.todo = @ \ {x},
                    !.fresh = IF news THEN @ \cup {[look |-> x, report |-> shown.report]} ELSE @]
      /\ mark' = IF judge THEN [mark EXCEPT ![p][c] = shown.seq] ELSE mark
      /\ UNCHANGED <<paneVars, reportVars, events, stream, outcome, judged, unread, blind>>

\* A read that fails is no observation at all, at the baseline too.
ReadFails(x) ==
  /\ Reading(x)
  /\ pane[x[1]] = "closed" \/ (IF gate.base THEN "baselineFails" ELSE "readFails") \in Faults
  /\ gate' = [gate EXCEPT !.todo = @ \ {x}]
  /\ unread' = unread \cup {x}
  /\ blind' = IF gate.base THEN blind \cup {x} ELSE blind
  /\ UNCHANGED <<paneVars, reportVars, events, stream, mark, outcome, judged>>

BaselineRead ==
  /\ gate.at = "look" /\ gate.base /\ gate.todo = {}
  /\ gate' = [gate EXCEPT !.at = "next", !.base = FALSE]
  /\ UNCHANGED <<paneVars, reportVars, events, stream, mark, outcome, judged, unread, blind>>

Hit(f) == {p \in Target : Verdict(f, p) # "ignore"}

\* The first of the targets a frame ends.
FirstGone(f) ==
  LET dead == {p \in Target : Verdict(f, p) = "gone"}
  IN  IF dead = {} THEN {NoPane} ELSE {p \in dead : \A q \in dead : Place(p) <= Place(q)}

\* A frame is read, and every target is asked what it means to it.
NextFrame ==
  /\ gate.at = "next"
  /\ stream # <<>>
  /\ stream' = Tail(stream)
  /\ \E p \in FirstGone(Head(stream)) :
       gate' = [gate EXCEPT !.at = "look", !.todo = Looks(Hit(Head(stream))), !.gone = p]
  /\ UNCHANGED <<paneVars, reportVars, events, mark, outcome, judged, unread, blind>>

\* satisfies: a status from the closed set and, in pr mode, the pr slot.
Satisfies(report) == report.status \in Until /\ (Mode = "pr" => report.pr)

\* A done is held to the commit it names, or to a checkout nobody touched.
Verified(report) == Mode # "plain" /\ report.status = "done"

\* The first report that a look turned up of those meant.
First(f, meant) == f \in meant /\ \A g \in meant : ~Before(g.look, f.look)

Releasing == {f \in gate.fresh : Satisfies(f.report)}
Blocking  == {f \in gate.fresh : f.report.status = "blocked"}

Weigh == /\ gate.at = "look" /\ ~gate.base /\ gate.todo = {}
         /\ judged' = judged \cup {f.report.by : f \in gate.fresh}

\* Mutant: the death is acted on before what the look turned up.
JudgeDeathsFirst ==
  /\ Weigh
  /\ \/ gate.gone # NoPane /\ End("gone", gate.gone, NoReport)
     \/ /\ gate.gone = NoPane
        /\ \E f \in gate.fresh : First(f, Releasing) /\ End("released", f.look[1], f.report)
     \/ gate.gone = NoPane /\ Releasing = {} /\ WaitOn
  /\ UNCHANGED <<paneVars, reportVars, events, mark, unread, blind>>

\* Everything the look turned up is weighed for release, then for blocked, and
\* only then is a death acted on.
Judge ==
  /\ Weigh
  /\ \/ \E f \in gate.fresh :
          /\ First(f, Releasing)
          /\ IF Verified(f.report) THEN Leave("verify", "verifying", f.look[1], f.report)
                                   ELSE End("released", f.look[1], f.report)
     \/ \E f \in gate.fresh :
          /\ Releasing = {} /\ First(f, Blocking)
          /\ End("blocked", f.look[1], f.report)
     \/ /\ Releasing = {} /\ Blocking = {} /\ gate.gone # NoPane
        /\ End("gone", gate.gone, NoReport)
     \/ Releasing = {} /\ Blocking = {} /\ gate.gone = NoPane /\ WaitOn
  /\ UNCHANGED <<paneVars, reportVars, events, mark, unread, blind>>

\* gateHead and gateScout, asked after the wait and never earlier.  gh may not
\* answer.
Verify ==
  LET p == outcome.about
      agrees == IF Mode = "pr" THEN outcome.report.sha = version[p] ELSE version[p] = 0
  IN  /\ gate.at = "verify"
      /\ \/ End(IF agrees THEN "released" ELSE "moved", p, outcome.report)
         \/ "ghFails" \in Faults /\ End("error", p, outcome.report)
      /\ UNCHANGED <<paneVars, reportVars, events, mark, judged, unread, blind>>

\* Mutant: the deadline is looked at when a frame arrives.
TimeoutOnFrame ==
  /\ gate.at = "next" /\ stream # <<>>
  /\ End("timeout", NoPane, NoReport)
  /\ UNCHANGED <<paneVars, reportVars, events, mark, judged, unread, blind>>

\* The read of the stream meets the gate's deadline, which may be at any wait: a
\* frame that was there by then is read or is not.
Timeout ==
  /\ gate.at = "next"
  /\ End("timeout", NoPane, NoReport)
  /\ UNCHANGED <<paneVars, reportVars, events, mark, judged, unread, blind>>

StreamFails ==
  /\ "streamFails" \in Faults
  /\ gate.at \in {"subscribe", "next"}
  /\ End("error", NoPane, NoReport)
  /\ UNCHANGED <<paneVars, reportVars, events, mark, judged, unread, blind>>

-----------------------------------------------------------------------------
(* report *)

Writing(w, label) == writer' = [writer EXCEPT ![w].at = label]

\* The terminal of pane p once an envelope is printed below the others.
Printed(p, envelope) ==
  LET all == Append(screen[p], envelope)
  IN  [screen EXCEPT ![p] = IF Len(all) > Window THEN Tail(all) ELSE all]

\* A report that another one covers when its own worker can no longer repeat it.
Covered(w, p) ==
  LET shown == Seen(p, "term").report
  IN  IF p \in ended /\ shown # NoReport /\ shown.by # w THEN {<<shown.by, "term">>} ELSE {}

\* The envelope goes to stdout, which the agent's screen may show or collapse.
PrintEnvelope(w) ==
  LET p == Of[w]
  IN  /\ writer[w].at = "idle"
      /\ pane[p] = "open"
      /\ \E status \in Says : \E pr \in IF Mode = "pr" /\ status \in Until THEN BOOLEAN ELSE {FALSE} :
           LET said == Report(w, status, pr, version[p], Opened(p, "term"))
           IN  /\ writer' = [writer EXCEPT ![w].at = "number", ![w].report = said]
               /\ \/ UNCHANGED <<screen, spoiled>>
                  \/ screen' = Printed(p, said) /\ spoiled' = spoiled \cup Covered(w, p)
      /\ UNCHANGED <<paneVars, tokens, events, stream, gateVars>>

\* nextSeq: one past what the pane carries.
TakeNumber(w) ==
  /\ writer[w].at = "number"
  /\ pane[Of[w]] = "open"
  /\ writer' = [writer EXCEPT ![w].at = "deliver", ![w].seq = tokens[Of[w]].seq + 1]
  /\ UNCHANGED <<paneVars, tokens, screen, spoiled, events, stream, gateVars>>

\* The slots are attached in one call, and herdr says the pane was updated.
Deliver(w) ==
  LET p == Of[w]
      said == [writer[w].report EXCEPT !.new = Opened(p, "meta")]
      taken == {writer[v].seq : v \in {u \in Writer \ {w} : Of[u] = p}}
                 \cup (IF p \in Answered THEN {1} ELSE {})
  IN  /\ writer[w].at = "deliver"
      /\ pane[p] = "open"
      /\ tokens' = [tokens EXCEPT ![p] = [seq |-> writer[w].seq, report |-> said]]
      /\ Emit(Frame("updated", p, WsOf[p]))
      /\ spoiled' = spoiled
           \cup (IF \E n \in taken : n >= writer[w].seq THEN {<<w, "meta">>} ELSE {})
           \cup (IF p \in ended /\ tokens[p].report # NoReport
                 THEN {<<tokens[p].report.by, "meta">>} ELSE {})
      /\ Writing(w, "confirm")
      /\ UNCHANGED <<paneVars, screen, events, gateVars>>

\* A report as its slots have it, which do not say who wrote it.
Slots(r) == IF r = NoReport THEN r ELSE <<r.status, r.pr, r.sha>>

\* confirmTokens: what herdr stored is what was written.
Confirm(w) ==
  LET stored == tokens[Of[w]]
      intact == stored.seq = writer[w].seq /\ Slots(stored.report) = Slots(writer[w].report)
  IN
  /\ writer[w].at = "confirm"
  /\ pane[Of[w]] # "closed"
  /\ Writing(w, IF intact THEN "delivered" ELSE "failed")
  /\ UNCHANGED <<paneVars, tokens, screen, spoiled, events, stream, gateVars>>

ReportFails(w) ==
  /\ writer[w].at \in {"number", "deliver", "confirm"}
  /\ pane[Of[w]] # "open" \/ "writeFails" \in Faults
  /\ Writing(w, "failed")
  /\ UNCHANGED <<paneVars, tokens, screen, spoiled, events, stream, gateVars>>

\* The worker's reply repeats the envelope where a screen shows it.
Reply(w) ==
  LET p == Of[w]
  IN  /\ writer[w].at \in {"delivered", "failed"}
      /\ pane[p] = "open"
      /\ screen' = Printed(p, [writer[w].report EXCEPT !.new = Opened(p, "term")])
      /\ spoiled' = spoiled \cup Covered(w, p)
      /\ Writing(w, "told")
      /\ UNCHANGED <<paneVars, tokens, events, stream, gateVars>>

-----------------------------------------------------------------------------
(* herdr and the people in it *)

World ==
  /\ gate.at # "over"
  /\ events < MaxEvents /\ events' = events + 1
  /\ UNCHANGED gateVars

\* Other output pushes the oldest envelope out of the snapshot.
Scroll(p) ==
  /\ screen[p] # <<>>
  /\ screen' = [screen EXCEPT ![p] = Tail(@)]
  /\ spoiled' = spoiled \cup {<<screen[p][i].by, "term">> : i \in DOMAIN screen[p]}
  /\ UNCHANGED <<paneVars, tokens, writer, stream>> /\ World

TurnEnds(p) ==
  /\ pane[p] = "open"
  /\ Emit(Frame("status", p, WsOf[p]))
  /\ UNCHANGED <<paneVars, reportVars>> /\ World

\* One push is enough to move a head past the commit a report names.
Pushes(p) ==
  /\ (\E w \in Writer : Of[w] = p) /\ pane[p] = "open" /\ version[p] = 0
  /\ version' = [version EXCEPT ![p] = @ + 1]
  /\ UNCHANGED <<pane, closedWs, ended, early, lastWords, reportVars, stream>> /\ World

\* Another writer of the pane's token map takes the number out of it.
Clears(p) ==
  /\ "clears" \in Faults /\ pane[p] = "open"
  /\ tokens[p].seq # 0
  /\ tokens' = [tokens EXCEPT ![p] = [seq |-> 0, report |-> NoReport]]
  /\ spoiled' = spoiled \cup {<<tokens[p].report.by, "meta">>}
  /\ Emit(Frame("updated", p, WsOf[p]))
  /\ UNCHANGED <<paneVars, screen, writer>> /\ World

\* What a pane shows as it ends: its metadata, and an envelope its terminal has
\* on top of those the gate counted.
Shown(p) ==
  {<<"meta", tokens[p].report>>}
    \cup (IF p \in Target /\ ~MetadataOnly /\ Len(screen[p]) > mark[p]["term"]
          THEN {<<"term", Seen(p, "term").report>>} ELSE {})

Ending(panes) ==
  /\ ended' = ended \cup panes
  /\ lastWords' = [p \in Pane |-> IF p \in panes \ ended THEN Shown(p) ELSE lastWords[p]]

\* The pane's process exits, the pane is closed, or herdr loses its agent.
WorkerEnds(p) ==
  /\ p \notin ended
  /\ \E how \in {"exited", "closed", "unknown"} :
       /\ pane' = [pane EXCEPT ![p] = IF how = "unknown" THEN @ ELSE how]
       /\ Emit(Frame(IF how = "closed" THEN "exited" ELSE how, p, WsOf[p]))
  /\ Ending({p})
  /\ early' = IF Subscribed THEN early ELSE early \cup {p}
  /\ UNCHANGED <<version, closedWs, reportVars>> /\ World

\* Closing a workspace closes its panes and says nothing of them.
WorkspaceCloses(ws) ==
  LET inside == {p \in Pane : WsOf[p] = ws}
  IN  /\ ws \notin closedWs
      /\ pane' = [p \in Pane |-> IF p \in inside THEN "closed" ELSE pane[p]]
      /\ closedWs' = closedWs \cup {ws}
      /\ Ending(inside)
      /\ Emit(Frame("workspaceClosed", NoPane, ws))
      /\ UNCHANGED <<version, early, reportVars>> /\ World

-----------------------------------------------------------------------------
GateStep ==
  \/ Resolve \/ Subscribe \/ BaselineRead
  \/ (\E x \in gate.todo : ReadChannel(x) \/ ReadFails(x))
  \/ NextFrame \/ Judge \/ Verify \/ Timeout

ReportStep(w) ==
  /\ gate.at # "over"
  /\ \/ PrintEnvelope(w) \/ TakeNumber(w) \/ Deliver(w) \/ Confirm(w) \/ ReportFails(w)
     \/ Reply(w)

Environment ==
  \/ StreamFails
  \/ \E p \in Pane : Scroll(p) \/ TurnEnds(p) \/ Pushes(p) \/ Clears(p) \/ WorkerEnds(p)
  \/ \E p \in Pane : WorkspaceCloses(WsOf[p])

Next == GateStep \/ (\E w \in Writer : ReportStep(w)) \/ Environment

Spec == Init /\ [][Next]_vars

\* The gate's process is scheduled, and its clock moves while it waits.  Workers
\* owe nothing, and no stream has to fail.
Fairness == WF_vars(GateStep)

FairSpec == Spec /\ Fairness

-----------------------------------------------------------------------------
(* Properties *)

Frames == [event : {"updated", "status", "exited", "unknown", "workspaceClosed"},
           pane : Pane \cup {NoPane}, ws : {WsOf[p] : p \in Pane}]

TypeOK ==
  /\ pane \in [Pane -> {"open", "exited", "closed"}] /\ version \in [Pane -> Nat]
  /\ tokens \in [Pane -> [seq : Nat, report : Reports \cup {NoReport}]]
  /\ screen \in [Pane -> Seq(Reports)]
  /\ writer \in [Writer -> [at : {"idle", "number", "deliver", "confirm", "delivered", "failed", "told"},
                             report : Reports \cup {NoReport}, seq : Nat]]
  /\ events \in 0..MaxEvents
  /\ stream \in Seq(Frames)
  /\ gate \in [at : {"resolve", "subscribe", "look", "next", "verify", "over"},
               todo : SUBSET (Target \X Channel), base : BOOLEAN,
               fresh : SUBSET [look : Target \X Channel, report : Reports],
               gone : Target \cup {NoPane}]
  /\ mark \in [Target -> [Channel -> Nat]]
  /\ outcome \in [kind : {"none", "verifying", "released", "blocked", "gone", "moved", "timeout", "error"},
                  about : Target \cup {NoPane}, report : Reports \cup {NoReport}]
  /\ closedWs \subseteq {WsOf[p] : p \in Pane}
  /\ ended \subseteq Pane /\ early \subseteq ended
  /\ lastWords \in [Pane -> SUBSET (Channel \X (Reports \cup {NoReport}))]
  /\ judged \subseteq Writer \cup {Earlier}
  /\ spoiled \subseteq (Writer \cup {Earlier}) \X Channel
  /\ unread \subseteq Target \X Channel /\ blind \subseteq unread

\* An earlier task's answer never decides a gate: what it ends on came to its
\* channel after the gate had taken that channel's baseline, although counts go
\* down when a buffer scrolls or another writer clears the tokens; unless that
\* baseline could not be read (advance).
NotStale ==
  outcome.report # NoReport =>
    outcome.report.new \/ \E c \in Channel : <<outcome.about, c>> \in blind

\* The gate never waits on with news in front of it: when it is waiting and no
\* frame is due, every target is alive, or ended before the subscription; and it has
\* weighed what every target's metadata shows, unless that was there at the baseline,
\* took a number twice or could not be read (subscribe before the baselines, one
\* look for every frame, gateSubscriptions).
NoSleepOnNews ==
  (gate.at = "next" /\ stream = <<>>) =>
    /\ Target \cap ended \subseteq early
    /\ \A p \in Target :
         LET shown == tokens[p].report
         IN  \/ shown = NoReport
             \/ ~shown.new
             \/ shown.by \in judged
             \/ <<shown.by, "meta">> \in spoiled
             \/ <<p, "meta">> \in unread

\* A worker that reported and died in the same breath is heard: a gate that calls
\* a worker gone names one that ended, and no channel had a report of it that
\* satisfies the predicate, is no earlier task's, was not lost there and could
\* be read (drain, gateSubscriptions).
HeardBeforeLost ==
  outcome.kind = "gone" =>
    /\ outcome.about \in ended
    /\ \A said \in lastWords[outcome.about] :
         LET channel == said[1]
             report  == said[2]
         IN  \/ report = NoReport
             \/ ~report.new
             \/ ~Satisfies(report)
             \/ <<report.by, channel>> \in spoiled
             \/ <<outcome.about, channel>> \in unread

\* No gate waits for ever.
GateEnds == gate.at = "resolve" ~> gate.at = "over"

=============================================================================
