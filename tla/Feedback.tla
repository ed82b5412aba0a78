------------------------------- MODULE Feedback -------------------------------
(***************************************************************************)
(* pr-feedback (prfeedback.go): a pass looks at every branch's pull request *)
(* and types what is new about it at the worker of that branch, at most     *)
(* MaxRounds times a pull request.  What was said is kept in one state file  *)
(* that every watching session's passes load and save, with no lock.         *)
(*                                                                           *)
(* Every call and every file operation is a step.  Reviews and comments are  *)
(* items; a check is red when its latest run failed.  A notice is what it    *)
(* counts and names, and whether it says it is the last.                     *)
(***************************************************************************)
EXTENDS Naturals, FiniteSets

CONSTANTS
  Watcher,   \* sessions that run pr-feedback, one pass at a time each
  Branch,    \* branches with a worker in a pane
  Item,      \* reviews and comments of one pull request
  Check,     \* names of checks
  NoFile,    \* no such file
  Torn,      \* a file with half a state in it, or parts of two
  NoSeen,    \* nothing recorded for a branch
  Faults,    \* which faults this instance admits
  MaxRounds, \* --max-rounds
  MaxPR,     \* pull requests a branch gets one after another
  MaxEvents  \* what people, CI, workers and faults do in one behavior

PR == 1..MaxPR

\* prSeen
Seen == [pr : PR, items : SUBSET Item, failing : SUBSET Check, rounds : 0..MaxRounds]

State == [Branch -> Seen \cup {NoSeen}]

ASSUME FeedbackAssumption ==
  /\ NoFile # Torn /\ NoSeen \notin Seen /\ Branch # {}
  /\ Faults \subseteq {"callFails", "answerLost", "crash", "saveFails"}
  /\ MaxRounds \in Nat /\ MaxPR \in Nat \ {0} /\ MaxEvents \in Nat

VARIABLES
  at,        \* where each pass stands
  mem,       \* the state each pass has in memory
  todo,      \* branches it has not looked at
  row,       \* the branch it is at
  look,      \* what gh said of that branch's pull request
  file,      \* pr-feedback.json
  tmp,       \* pr-feedback.json.tmp, one name for all passes
  fd,        \* where what each pass has open is by now
  open,      \* the open pull request of each branch, 0 for none
  last,      \* the latest pull request of each branch
  posted,    \* its reviews and comments
  red,       \* its checks whose latest run failed
  prompt,    \* branches whose worker waits at its prompt
  events,    \* events so far
  told,      \* history: how often each item was typed, saturating at 2
  notices,   \* history: notices typed per pull request, saturating
  warned,    \* history: pull requests whose worker was told a notice is the last
  held,      \* history: items printed CAPPED, for a human
  redTold,   \* history: checks named in a notice or held for a human
  typed,     \* history: branches each pass has typed at since it loaded
  spoiled,   \* history: branches of which a mark was lost
  forgotten  \* history: branches looked at while their pull request was closed

passVars == <<at, mem, todo, row, look>>
fileVars == <<file, tmp, fd>>
prVars   == <<open, last, posted, red>>
saidVars == <<told, notices, warned, held, redTold>>
history  == <<saidVars, typed, spoiled, forgotten>>
vars == <<passVars, fileVars, prVars, prompt, events, history>>

Empty == [b \in Branch |-> NoSeen]
NoLook == [pr |-> 0, items |-> {}, failing |-> {}]

Init ==
  /\ at = [w \in Watcher |-> "rest"]
  /\ mem = [w \in Watcher |-> Empty]
  /\ todo = [w \in Watcher |-> {}]
  /\ row \in [Watcher -> {CHOOSE b \in Branch : TRUE}]
  /\ look = [w \in Watcher |-> NoLook]
  /\ file = NoFile /\ tmp = NoFile
  /\ fd = [w \in Watcher |-> "none"]
  /\ open = [b \in Branch |-> 1] /\ last = open
  /\ posted = [b \in Branch |-> {}] /\ red = [b \in Branch |-> {}]
  /\ prompt \in SUBSET Branch
  /\ events = 0
  /\ told = [b \in Branch |-> [p \in PR |-> [i \in Item |-> 0]]]
  /\ notices = [b \in Branch |-> [p \in PR |-> 0]]
  /\ warned = [b \in Branch |-> {}]
  /\ held = [b \in Branch |-> {}]
  /\ redTold = [b \in Branch |-> {}]
  /\ typed = [w \in Watcher |-> {}]
  /\ spoiled = {} /\ forgotten = {}

Event == events < MaxEvents /\ events' = events + 1

Fault(f) == f \in Faults /\ Event

GoTo(w, label) == at' = [at EXCEPT ![w] = label]

-----------------------------------------------------------------------------
(* Beginning a pass *)

\* loadPRFeedbackState.  An unreadable file is refused, and the pass is over.
Load(w) ==
  /\ at[w] = "rest"
  /\ file # Torn
  /\ mem' = [mem EXCEPT ![w] = IF file = NoFile THEN Empty ELSE file]
  /\ GoTo(w, "rows")
  /\ typed' = [typed EXCEPT ![w] = {}]
  /\ spoiled' = IF \E v \in Watcher : at[v] # "rest" THEN Branch ELSE spoiled
  /\ UNCHANGED <<todo, row, look, fileVars, prVars, prompt, events, saidVars, forgotten>>

\* prFeedbackRows.  Without herdr the pass ends, and saves nothing.
Rows(w) ==
  /\ at[w] = "rows"
  /\ \/ /\ GoTo(w, "look")
        /\ todo' = [todo EXCEPT ![w] = Branch]
        /\ UNCHANGED events
     \/ /\ Fault("callFails")
        /\ GoTo(w, "rest")
        /\ UNCHANGED todo
  /\ UNCHANGED <<mem, row, look, fileVars, prVars, prompt, history>>

-----------------------------------------------------------------------------
(* One branch: runPRFeedback *)

\* A pull request seen for the first time starts from nothing.
SeenOf(w, b, p) ==
  IF mem[w][b] # NoSeen /\ mem[w][b].pr = p THEN mem[w][b]
  ELSE [pr |-> p, items |-> {}, failing |-> {}, rounds |-> 0]

\* newsFor
NewsItems(seen, items) == items \ seen.items
NewsRed(seen, failing) == failing \ seen.failing
NoNews(seen, l) == NewsItems(seen, l.items) = {} /\ NewsRed(seen, l.failing) = {}

Marked(seen, l) == [seen EXCEPT !.items = @ \cup l.items, !.failing = l.failing]

LookupFails(w) ==
  /\ at[w] = "look"
  /\ Fault("callFails")
  /\ \E b \in todo[w] : todo' = [todo EXCEPT ![w] = @ \ {b}]
  /\ UNCHANGED <<at, mem, row, look, fileVars, prVars, prompt, history>>

\* Merged, closed or never opened: what is known of the branch is dropped.
NoneOpen(w, b) ==
  /\ look'[w].pr = 0
  /\ mem' = [mem EXCEPT ![w][b] = NoSeen]
  /\ forgotten' = forgotten \cup {b}
  /\ UNCHANGED <<at, saidVars>>

\* Nothing new; a check that has recovered is forgotten.
Nothing(w, b) ==
  LET l == look'[w] seen == SeenOf(w, b, l.pr) IN
  /\ l.pr # 0 /\ NoNews(seen, l)
  /\ mem' = [mem EXCEPT ![w][b] = Marked(seen, l)]
  /\ UNCHANGED <<at, saidVars, forgotten>>

\* Past the cap the news is printed for a human, once.
Capped(w, b) ==
  LET l == look'[w] seen == SeenOf(w, b, l.pr) IN
  /\ l.pr # 0 /\ ~NoNews(seen, l) /\ seen.rounds >= MaxRounds
  /\ mem' = [mem EXCEPT ![w][b] = Marked(seen, l)]
  /\ held' = [held EXCEPT ![b] = @ \cup ({l.pr} \X NewsItems(seen, l.items))]
  /\ redTold' = [redTold EXCEPT ![b] = @ \cup ({l.pr} \X NewsRed(seen, l.failing))]
  /\ UNCHANGED <<at, told, notices, warned, forgotten>>

News(w, b) ==
  LET l == look'[w] seen == SeenOf(w, b, l.pr) IN
  /\ l.pr # 0 /\ ~NoNews(seen, l) /\ seen.rounds < MaxRounds
  /\ GoTo(w, "ask")
  /\ UNCHANGED <<mem, saidVars, forgotten>>

\* ghPRFeedback and what follows from its answer alone.
Lookup(w) ==
  /\ at[w] = "look"
  /\ \E b \in todo[w] :
       /\ todo' = [todo EXCEPT ![w] = @ \ {b}]
       /\ row' = [row EXCEPT ![w] = b]
       /\ look' = [look EXCEPT ![w] = [pr |-> open[b], items |-> posted[b], failing |-> red[b]]]
       /\ NoneOpen(w, b) \/ Nothing(w, b) \/ Capped(w, b) \/ News(w, b)
  /\ UNCHANGED <<fileVars, prVars, prompt, events, typed, spoiled>>

\* Mutant: news put off is marked.
AskMarksDeferred(w) ==
  LET b == row[w] IN
  /\ at[w] = "ask"
  /\ IF b \in prompt THEN GoTo(w, "type") /\ UNCHANGED mem
     ELSE /\ GoTo(w, "look")
          /\ mem' = [mem EXCEPT ![w][b] = Marked(SeenOf(w, b, look[w].pr), look[w])]
  /\ UNCHANGED <<todo, row, look, fileVars, prVars, prompt, events, history>>

\* AgentGet: only into an agent waiting at its prompt; otherwise the news waits
\* for the next pass.
AskAgent(w) ==
  /\ at[w] = "ask"
  /\ \/ /\ GoTo(w, IF row[w] \in prompt THEN "type" ELSE "look")
        /\ UNCHANGED events
     \/ Fault("callFails") /\ GoTo(w, "look")
  /\ UNCHANGED <<mem, todo, row, look, fileVars, prVars, prompt, history>>

\* What the worker reads from the notice of pass w.
Say(w) ==
  LET b == row[w] l == look[w] seen == SeenOf(w, b, l.pr) IN
  /\ told' = [told EXCEPT ![b][l.pr] =
       [i \in Item |-> IF i \in NewsItems(seen, l.items) /\ @[i] < 2 THEN @[i] + 1 ELSE @[i]]]
  /\ notices' = [notices EXCEPT ![b][l.pr] = IF @ <= MaxRounds THEN @ + 1 ELSE @]
  /\ warned' = IF seen.rounds + 1 >= MaxRounds
               THEN [warned EXCEPT ![b] = @ \cup {l.pr}] ELSE warned
  /\ redTold' = [redTold EXCEPT ![b] = @ \cup ({l.pr} \X NewsRed(seen, l.failing))]
  /\ typed' = [typed EXCEPT ![w] = @ \cup {b}]
  /\ UNCHANGED held

\* Mutant: marked before it is typed.
TypeMarksFirst(w) ==
  LET b == row[w] l == look[w] IN
  /\ at[w] = "type"
  /\ mem' = [mem EXCEPT ![w][b] = [Marked(SeenOf(w, b, l.pr), l) EXCEPT !.rounds = @ + 1]]
  /\ \/ Say(w) /\ GoTo(w, "submit") /\ UNCHANGED <<events, spoiled>>
     \/ Fault("callFails") /\ GoTo(w, "look") /\ UNCHANGED <<saidVars, typed, spoiled>>
  /\ UNCHANGED <<todo, row, look, fileVars, prVars, prompt, forgotten>>

\* Mutant: a round is not counted.
TypeUncounted(w) ==
  LET b == row[w] l == look[w] IN
  /\ at[w] = "type"
  /\ Say(w)
  /\ mem' = [mem EXCEPT ![w][b] = Marked(SeenOf(w, b, l.pr), l)]
  /\ GoTo(w, "submit")
  /\ UNCHANGED <<todo, row, look, fileVars, prVars, prompt, events, spoiled, forgotten>>

\* PaneSendText.  Marked said, and a round counted, once the text is in the
\* composer; where the call fails the next pass finds the same news.
Type(w) ==
  LET b == row[w] l == look[w] IN
  /\ at[w] = "type"
  /\ \/ /\ Say(w)
        /\ mem' = [mem EXCEPT ![w][b] = [Marked(SeenOf(w, b, l.pr), l) EXCEPT !.rounds = @ + 1]]
        /\ GoTo(w, "submit")
        /\ UNCHANGED <<events, spoiled>>
     \/ /\ Fault("answerLost") /\ Say(w)
        /\ spoiled' = spoiled \cup {b}
        /\ GoTo(w, "look")
        /\ UNCHANGED mem
     \/ /\ Fault("callFails")
        /\ GoTo(w, "look")
        /\ UNCHANGED <<mem, saidVars, typed, spoiled>>
  /\ UNCHANGED <<todo, row, look, fileVars, prVars, prompt, forgotten>>

\* submitBrief: taken, or given up on with the notice in the composer, which
\* Brief looks into.  Either way the pass goes on.
Submit(w) ==
  /\ at[w] = "submit"
  /\ prompt' \in {prompt, prompt \ {row[w]}}
  /\ GoTo(w, "look")
  /\ UNCHANGED <<mem, todo, row, look, fileVars, prVars, events, history>>

-----------------------------------------------------------------------------
(* Saving *)

\* A save that does not happen loses the marks made in this pass.
Unsaved(w) == spoiled' = spoiled \cup typed[w]

\* os.WriteFile opens with O_TRUNC and then writes.
OpenTmp(w) ==
  /\ at[w] = "look" /\ todo[w] = {}
  /\ \/ /\ tmp' = Torn
        /\ fd' = [fd EXCEPT ![w] = "tmp"]
        /\ GoTo(w, "write")
        /\ UNCHANGED <<events, spoiled>>
     \/ /\ Fault("saveFails")
        /\ GoTo(w, "rest") /\ Unsaved(w)
        /\ UNCHANGED <<tmp, fd>>
  /\ look' = [look EXCEPT ![w] = NoLook]
  /\ UNCHANGED <<mem, todo, row, file, prVars, prompt, saidVars, typed, forgotten>>

\* What another pass wrote meanwhile is written over from its beginning, and its
\* end may stay.
Over(old, new) == IF old \in {NoFile, Torn, new} THEN {new} ELSE {new, Torn}

WriteTmp(w) ==
  /\ at[w] = "write"
  /\ \/ fd[w] = "tmp" /\ tmp' \in Over(tmp, mem[w]) /\ UNCHANGED file
     \/ fd[w] = "file" /\ file' \in Over(file, mem[w]) /\ UNCHANGED tmp
     \/ fd[w] = "gone" /\ UNCHANGED <<file, tmp>>
  /\ fd' = [fd EXCEPT ![w] = "none"]
  /\ GoTo(w, "rename")
  /\ UNCHANGED <<mem, todo, row, look, prVars, prompt, events, history>>

\* Whoever has the temporary file open has the state file open after it.
Rename(w) ==
  /\ at[w] = "rename"
  /\ IF tmp = NoFile
     THEN Unsaved(w) /\ UNCHANGED fileVars
     ELSE /\ file' = tmp /\ tmp' = NoFile
          /\ fd' = [v \in Watcher |-> CASE fd[v] = "tmp" -> "file"
                                       [] fd[v] = "file" -> "gone"
                                       [] OTHER -> fd[v]]
          /\ UNCHANGED spoiled
  /\ GoTo(w, "rest")
  /\ mem' = [mem EXCEPT ![w] = Empty]
  /\ typed' = [typed EXCEPT ![w] = {}]
  /\ UNCHANGED <<todo, row, look, prVars, prompt, events, saidVars, forgotten>>

\* A killed pass; the session runs another one later.
Crash(w) ==
  /\ at[w] # "rest"
  /\ Fault("crash")
  /\ GoTo(w, "rest")
  /\ Unsaved(w)
  /\ mem' = [mem EXCEPT ![w] = Empty]
  /\ todo' = [todo EXCEPT ![w] = {}]
  /\ look' = [look EXCEPT ![w] = NoLook]
  /\ fd' = [fd EXCEPT ![w] = "none"]
  /\ UNCHANGED <<row, file, tmp, prVars, prompt, saidVars, typed, forgotten>>

-----------------------------------------------------------------------------
(* People, CI and workers *)

World == UNCHANGED <<passVars, fileVars, history>> /\ Event

Close(b) ==
  /\ open[b] # 0
  /\ open' = [open EXCEPT ![b] = 0]
  /\ UNCHANGED <<last, posted, red, prompt>> /\ World

Reopen(b) ==
  /\ open[b] = 0
  /\ open' = [open EXCEPT ![b] = last[b]]
  /\ UNCHANGED <<last, posted, red, prompt>> /\ World

OpenNext(b) ==
  /\ open[b] = 0 /\ last[b] < MaxPR
  /\ last' = [last EXCEPT ![b] = @ + 1]
  /\ open' = [open EXCEPT ![b] = last[b] + 1]
  /\ posted' = [posted EXCEPT ![b] = {}]
  /\ red' = [red EXCEPT ![b] = {}]
  /\ UNCHANGED prompt /\ World

Post(b, i) ==
  /\ open[b] # 0 /\ i \notin posted[b]
  /\ posted' = [posted EXCEPT ![b] = @ \cup {i}]
  /\ UNCHANGED <<open, last, red, prompt>> /\ World

CheckRuns(b, c) ==
  /\ open[b] # 0
  /\ red' = [red EXCEPT ![b] = IF c \in @ THEN @ \ {c} ELSE @ \cup {c}]
  /\ UNCHANGED <<open, last, posted, prompt>> /\ World

WorkerMoves(b) ==
  /\ prompt' = IF b \in prompt THEN prompt \ {b} ELSE prompt \cup {b}
  /\ UNCHANGED prVars /\ World

-----------------------------------------------------------------------------
Pass(w) ==
  \/ Load(w) \/ Rows(w) \/ LookupFails(w) \/ Lookup(w) \/ AskAgent(w) \/ Type(w)
  \/ Submit(w) \/ OpenTmp(w) \/ WriteTmp(w) \/ Rename(w)

Environment ==
  \E b \in Branch :
    \/ Close(b) \/ Reopen(b) \/ OpenNext(b) \/ WorkerMoves(b)
    \/ \E i \in Item : Post(b, i)
    \/ \E c \in Check : CheckRuns(b, c)

Next == (\E w \in Watcher : Pass(w) \/ Crash(w)) \/ Environment

Spec == Init /\ [][Next]_vars

\* Each session runs pass after pass; nobody else is obliged to anything.
FairSpec == Spec /\ \A w \in Watcher : WF_vars(Pass(w))

-----------------------------------------------------------------------------
(* Properties *)

TypeOK ==
  /\ at \in [Watcher -> {"rest", "rows", "look", "ask", "type", "submit", "write", "rename"}]
  /\ mem \in [Watcher -> State]
  /\ todo \in [Watcher -> SUBSET Branch] /\ typed \in [Watcher -> SUBSET Branch]
  /\ look \in [Watcher -> [pr : 0..MaxPR, items : SUBSET Item, failing : SUBSET Check]]
  /\ row \in [Watcher -> Branch]
  /\ file \in State \cup {NoFile, Torn}
  /\ tmp \in State \cup {NoFile, Torn}
  /\ fd \in [Watcher -> {"none", "tmp", "file", "gone"}]
  /\ last \in [Branch -> PR] /\ open \in [Branch -> 0..MaxPR]
  /\ \A b \in Branch : open[b] \in {0, last[b]}
  /\ posted \in [Branch -> SUBSET Item] /\ red \in [Branch -> SUBSET Check]
  /\ prompt \subseteq Branch /\ events \in Nat
  /\ told \in [Branch -> [PR -> [Item -> 0..2]]]
  /\ notices \in [Branch -> [PR -> 0..MaxRounds + 1]]
  /\ warned \in [Branch -> SUBSET PR]
  /\ held \in [Branch -> SUBSET (PR \X Item)] /\ redTold \in [Branch -> SUBSET (PR \X Check)]
  /\ spoiled \subseteq Branch /\ forgotten \subseteq Branch

Records(b) == {mem[w][b] : w \in Watcher} \cup {s[b] : s \in {file, tmp} \ {NoFile, Torn}}

\* What is marked as said is what was said: whatever fails, is killed or overlaps, no
\* review and no failure is marked that was not typed at the worker or printed for a
\* human; and a review or comment is typed once, unless a mark was lost: to a kill, a
\* lost answer, a failed save or an overlapping pass, or because a pass saw the pull
\* request closed (runPRFeedback, prFeedbackState).
SaidAsMarked ==
  \A b \in Branch :
    /\ \A s \in Records(b) \ {NoSeen} :
         /\ \A i \in s.items : told[b][s.pr][i] > 0 \/ <<s.pr, i>> \in held[b]
         /\ {s.pr} \X s.failing \subseteq redTold[b]
    /\ b \notin spoiled \cup forgotten => \A p \in PR, i \in Item : told[b][p][i] <= 1

\* No worker gets more notices about one pull request than --max-rounds, with the
\* same exceptions; and before any feedback of it is held back from the worker, the
\* worker was told that a notice is its last, whatever was lost in between (prNotice).
RoundsKept ==
  \A b \in Branch :
    /\ b \notin spoiled \cup forgotten => \A p \in PR : notices[b][p] <= MaxRounds
    /\ \A h \in held[b] : h[1] \in warned[b] \/ MaxRounds = 0

\* A review of a pull request that stays open reaches its worker or a human, once
\* the worker waits at its prompt and the state file can be read.
NewsTold ==
  \A b \in Branch, i \in Item :
    <>[](open[b] # 0 /\ i \in posted[b] /\ b \in prompt /\ file # Torn)
      => <>(told[b][last[b]][i] > 0 \/ <<last[b], i>> \in held[b])

-----------------------------------------------------------------------------
(* What the repository says and the code does not do *)

\* runPRFeedback says that a check that has recovered is forgotten, so failing
\* again later is news again: a pass that has found a check of an open pull
\* request passing does not keep it among those already told.
RecoveredIsForgotten ==
  \A w \in Watcher :
    LET l == look[w] s == mem[w][row[w]]
    IN  at[w] = "look" /\ l.pr # 0 /\ s # NoSeen /\ s.pr = l.pr => s.failing \subseteq l.failing
=============================================================================
