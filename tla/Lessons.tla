------------------------------- MODULE Lessons -------------------------------
(***************************************************************************)
(* What a dispatch that failed and was fixed teaches the next worker         *)
(* (lessons.go): `propose` drafts, a person writes, `approve` moves a draft  *)
(* into the file `start` reads, `remove` takes it out again.                 *)
(*                                                                           *)
(* The files of one role are modelled; those of two roles never meet.  Each  *)
(* command reads a file whole and replaces it whole, and nothing keeps two   *)
(* commands, an editor and a start apart: a read and a write of a file are    *)
(* steps of their own, and approve waits for a person between them.  A file  *)
(* is the set of its lessons: nothing that is said of them depends on their  *)
(* order but which ones fit into a brief.                                    *)
(***************************************************************************)
EXTENDS Naturals, Sequences, FiniteSets

CONSTANTS
  Command,   \* runs of propose, approve and remove
  Starter,   \* starts of a worker in the role
  Lesson,    \* ids: a repository and a pull request
  Words,     \* what a person may write
  Todo,      \* the placeholder a draft carries until then
  Nobody,    \* no approver named
  Ledger,    \* the done reports and feedback rounds of each dispatch, in order
  PerBrief,  \* lessonsPerBrief: 5 in the program
  Lifetime,  \* --days
  MaxEdits   \* what people, clocks and faults do in one behavior

ASSUME LessonsAssumption ==
  /\ Todo \notin Words
  /\ Ledger \in [Lesson -> Seq({"done", "feedback"})]
  /\ PerBrief \in Nat /\ MaxEdits \in Nat
  /\ Lifetime \in Nat \ {0}

VARIABLES
  live,      \* <role>.md, a set of lessons
  drafts,    \* <role>.proposed.md
  garbled,   \* which of the two files do not parse
  today,
  todo,      \* what each command still has to do: its kind, its ids
  hand,      \* the copies of the files it holds
  brief,     \* what each start pinned, and whether it tells its worker
  edits,     \* edits, days and faults so far
  agreed,    \* history: lessons a person said yes to, as they were shown
  fate,      \* history: what each lesson last came to: a draft or approval, or its removal
  anew,      \* history: approvals whose lesson was drafted again after they published it
  clobbered  \* history: lessons replaced by an older copy of their file

files == <<live, drafts, garbled>>
lessonVars == <<files, today, todo, hand, brief, edits, agreed, fate, anew, clobbered>>

Kinds == {"propose", "approve", "remove"}
Stages == {"read", "drafts", "live", "ask", "publish", "drop", "write", "over"}

Ids(file) == {l.id : l \in file}
Entry(file, id) == {l \in file : l.id = id}
Without(file, id) == {l \in file : l.id # id}

\* failedThenFixed: done twice, or done after the last feedback round.
FailedThenFixed(reports) ==
  LET dones == {i \in DOMAIN reports : reports[i] = "done"}
      rounds == DOMAIN reports \ dones
  IN  \/ \E i, j \in dones : i # j
      \/ rounds # {} /\ \E i \in dones : \A j \in rounds : i > j

Candidates == {id \in Lesson : FailedThenFixed(Ledger[id])}

Draft(id, words) == [id |-> id, text |-> words]
Live(id, words, by, until) == [id |-> id, text |-> words, by |-> by, until |-> until]

Drafts == [id : Lesson, text : Words \cup {Todo}]
LiveLessons == [id : Lesson, text : Words, by : {"person", Nobody}, until : Nat]

LessonsTypeOK ==
  /\ live \subseteq LiveLessons /\ drafts \subseteq Drafts
  /\ garbled \subseteq {"live", "drafts"}
  /\ today \in Nat /\ edits \in 0..MaxEdits
  /\ todo \in [Command -> [kind : Kinds, at : Stages, ids : SUBSET Lesson]]
  /\ hand \in [Command -> [live : SUBSET LiveLessons, drafts : SUBSET Drafts]]
  /\ brief \in [Starter -> [at : {"pin", "briefed"}, lessons : SUBSET LiveLessons,
                            told : BOOLEAN, day : Nat]]
  /\ agreed \subseteq LiveLessons
  /\ fate \in [Lesson -> {"none", "kept", "gone"}]
  /\ anew \subseteq Command /\ clobbered \subseteq Lesson

\* Commands of any kind, each about to read the files.
AnyCommands ==
  /\ todo \in [Command -> [kind : Kinds, at : {"read"}, ids : SUBSET Lesson]]
  /\ \A c \in Command : IF todo[c].kind = "propose" THEN todo[c].ids = Candidates
                         ELSE \E id \in Lesson : todo[c].ids = {id}

\* A lesson of yesterday's that lapses today or later, and one in any state of drafting.
LessonsInit ==
  /\ live \in {{}} \cup {{Live(id, w, "person", u)} : id \in Lesson, w \in Words, u \in 1..Lifetime}
  /\ drafts \in {{}} \cup {{Draft(id, w)} : id \in Lesson, w \in Words \cup {Todo}}
  /\ Ids(live) \cap Ids(drafts) = {}
  /\ garbled = {}
  /\ today = 0
  /\ AnyCommands
  /\ hand = [c \in Command |-> [live |-> {}, drafts |-> {}]]
  /\ brief = [s \in Starter |-> [at |-> "pin", lessons |-> {}, told |-> FALSE, day |-> 0]]
  /\ edits = 0
  /\ agreed = live
  /\ fate = [id \in Lesson |-> IF id \in Ids(live) \cup Ids(drafts) THEN "kept" ELSE "none"]
  /\ anew = {} /\ clobbered = {}

Becomes(id, end) == fate' = [fate EXCEPT ![id] = end]

Act == edits < MaxEdits /\ edits' = edits + 1

Turn(c, label) == todo' = [todo EXCEPT ![c].at = label]
Holds(c, l, d) == hand' = [hand EXCEPT ![c] = [live |-> l, drafts |-> d]]
LetsGo(c) == Holds(c, {}, {})

Ends(c) == todo' = [todo EXCEPT ![c].at = "over", ![c].ids = {}] /\ LetsGo(c)

Is(c, kind, label) == todo[c].kind = kind /\ todo[c].at = label

\* The one id of an approve or a remove, the next one of a propose.
Id(c) == CHOOSE id \in todo[c].ids : TRUE

\* Whoever changed a file since this copy of it was read is overruled by writing it.
Changed(file, copy) == {id \in Lesson : Entry(file, id) # Entry(copy, id)}

Overrules(ids) == clobbered' = clobbered \cup ids

Still == UNCHANGED <<garbled, today, brief>>

-----------------------------------------------------------------------------
(* propose --write *)

NextDraft(c) == todo' = [todo EXCEPT ![c].at = "read", ![c].ids = @ \ {Id(c)}] /\ LetsGo(c)

\* appendDraft reads the live file, then the proposals.  There is no draft for a pull
\* request gh could not answer for.
ProposeReadsLive(c) ==
  /\ Is(c, "propose", "read")
  /\ \/ /\ todo[c].ids # {} /\ "live" \notin garbled
        /\ Turn(c, "drafts") /\ Holds(c, live, {})
     \/ todo[c].ids # {} /\ NextDraft(c)
     \/ (todo[c].ids = {} \/ "live" \in garbled) /\ Ends(c)
  /\ UNCHANGED <<live, drafts, edits, agreed, fate, anew, clobbered>> /\ Still

ProposeReadsDrafts(c) ==
  /\ Is(c, "propose", "drafts")
  /\ IF "drafts" \in garbled
     THEN Ends(c)
     ELSE Turn(c, "write") /\ Holds(c, hand[c].live, drafts)
  /\ UNCHANGED <<live, drafts, edits, agreed, fate, anew, clobbered>> /\ Still

\* An id that is live or proposed already is not proposed again.
ProposeWrites(c) ==
  /\ Is(c, "propose", "write")
  /\ IF Id(c) \in Ids(hand[c].live) \cup Ids(hand[c].drafts)
     THEN UNCHANGED <<drafts, garbled, fate, anew, clobbered>>
     ELSE /\ drafts' = hand[c].drafts \cup {Draft(Id(c), Todo)}
          /\ garbled' = garbled \ {"drafts"}
          /\ Becomes(Id(c), "kept")
          /\ anew' = anew \cup {a \in Command : Is(a, "approve", "drop") /\ Id(a) = Id(c)}
          /\ Overrules(Changed(drafts, hand[c].drafts))
  /\ NextDraft(c)
  /\ UNCHANGED <<live, edits, agreed, today, brief>>

-----------------------------------------------------------------------------
(* approve *)

\* findLesson, and what makes a draft fit to be approved.
ApproveReadsDrafts(c) ==
  /\ Is(c, "approve", "read")
  /\ IF "drafts" \notin garbled /\ \E w \in Words : Entry(drafts, Id(c)) = {Draft(Id(c), w)}
     THEN Turn(c, "live") /\ Holds(c, {}, drafts)
     ELSE Ends(c)
  /\ UNCHANGED <<live, drafts, edits, agreed, fate, anew, clobbered>> /\ Still

\* What is going to be written, and is shown.
Approved(c) ==
  LET words == (CHOOSE l \in Entry(hand[c].drafts, Id(c)) : TRUE).text
  IN  Live(Id(c), words, "person", today + Lifetime)

\* lessonApprover, then the live file; then the lesson is printed.
ApproveReadsLive(c) ==
  /\ Is(c, "approve", "live")
  /\ IF "live" \in garbled \/ Id(c) \in Ids(live)
     THEN Ends(c)
     ELSE /\ Turn(c, "ask")
          /\ Holds(c, live \cup {Approved(c)}, hand[c].drafts)
  /\ UNCHANGED <<live, drafts, edits, agreed, fate, anew, clobbered>> /\ Still

Shown(c) == CHOOSE l \in Entry(hand[c].live, Id(c)) : TRUE
Before(c) == Without(hand[c].live, Id(c))

\* --yes, or a person types it, however late.
PersonSaysYes(c) ==
  /\ Is(c, "approve", "ask")
  /\ agreed' = agreed \cup {Shown(c)}
  /\ Turn(c, "publish")
  /\ UNCHANGED <<live, drafts, hand, edits, fate, anew, clobbered>> /\ Still

PersonSaysNo(c) ==
  /\ Is(c, "approve", "ask")
  /\ Ends(c)
  /\ UNCHANGED <<live, drafts, edits, agreed, fate, anew, clobbered>> /\ Still

\* Mutant: the draft is read again once the answer is in.
PublishFresh(c) ==
  /\ Is(c, "approve", "publish")
  /\ Turn(c, "drop")
  /\ LET now == Entry(drafts, Id(c))
         words == IF now = {} THEN Shown(c).text ELSE (CHOOSE l \in now : TRUE).text
     IN  live' = Before(c) \cup {[Shown(c) EXCEPT !.text = words]}
  /\ garbled' = garbled \ {"live"}
  /\ Becomes(Id(c), "kept")
  /\ Overrules(Changed(live, Before(c)) \ {Id(c)})
  /\ UNCHANGED <<drafts, hand, edits, agreed, anew, today, brief>>

\* Mutant: the draft is dropped first.
DropThenPublish(c) ==
  /\ Is(c, "approve", "publish") \/ Is(c, "approve", "drop")
  /\ IF todo[c].at = "publish"
     THEN /\ Turn(c, "drop")
          /\ drafts' = Without(hand[c].drafts, Id(c))
          /\ UNCHANGED <<live, hand, fate>>
     ELSE /\ Ends(c)
          /\ live' = hand[c].live
          /\ Becomes(Id(c), "kept")
          /\ UNCHANGED drafts
  /\ UNCHANGED <<garbled, edits, agreed, anew, clobbered, today, brief>>

\* The live file first, from the copy read before the question.
Publish(c) ==
  /\ Is(c, "approve", "publish")
  /\ Turn(c, "drop")
  /\ live' = hand[c].live
  /\ garbled' = garbled \ {"live"}
  /\ Becomes(Id(c), "kept")
  /\ Overrules(Changed(live, Before(c)) \ {Id(c)})
  /\ UNCHANGED <<drafts, hand, edits, agreed, anew, today, brief>>

\* Then the proposals, from the copy read before that.
DropDraft(c) ==
  /\ Is(c, "approve", "drop")
  /\ drafts' = Without(hand[c].drafts, Id(c))
  /\ garbled' = garbled \ {"drafts"}
  /\ Overrules(Changed(drafts, hand[c].drafts) \cup IF c \in anew THEN {Id(c)} ELSE {})
  /\ Ends(c)
  /\ UNCHANGED <<live, edits, agreed, fate, anew, today, brief>>

-----------------------------------------------------------------------------
(* remove *)

RemoveReads(c) ==
  /\ Is(c, "remove", "read")
  /\ IF "live" \notin garbled /\ Id(c) \in Ids(live)
     THEN Turn(c, "write") /\ Holds(c, live, {})
     ELSE Ends(c)
  /\ UNCHANGED <<live, drafts, edits, agreed, fate, anew, clobbered>> /\ Still

RemoveWrites(c) ==
  /\ Is(c, "remove", "write")
  /\ live' = Without(hand[c].live, Id(c))
  /\ garbled' = garbled \ {"live"}
  /\ Becomes(Id(c), "gone")
  /\ Overrules(Changed(live, hand[c].live) \ {Id(c)})
  /\ Ends(c)
  /\ UNCHANGED <<drafts, edits, agreed, anew, today, brief>>

\* A command is interrupted, or a write of it fails.
Dies(c) ==
  /\ todo[c].at \notin {"read", "over"}
  /\ Act
  /\ Ends(c)
  /\ UNCHANGED <<files, today, brief, agreed, fate, anew, clobbered>>

-----------------------------------------------------------------------------
(* start: pinLessons *)

\* problem and expired: a lesson lapses ON its date.
Valid(l) == l.text \in Words /\ l.by # Nobody
Lapsed(l, day) == day >= l.until

Usable(file, day) == {l \in file : Valid(l) /\ ~Lapsed(l, day)}

\* briefLessons: as many as fit, the first ones of the file.
BriefLessons(file, day) ==
  LET usable == Cardinality(Usable(file, day))
  IN  {given \in SUBSET Usable(file, day) :
         Cardinality(given) = IF usable > PerBrief THEN PerBrief ELSE usable}

\* Where the lessons cannot be read or pinned the worker starts without; where the
\* brief has no room for the sentence it is not told (withLessons).
PinLessons(s) ==
  /\ brief[s].at = "pin"
  /\ \/ /\ \E use \in IF "live" \in garbled THEN {{}} ELSE BriefLessons(live, today),
              told \in BOOLEAN :
             /\ told => use # {}
             /\ brief' = [brief EXCEPT ![s] =
                   [at |-> "briefed", lessons |-> use, told |-> told, day |-> today]]
        /\ UNCHANGED edits
     \/ /\ Act
        /\ brief' = [brief EXCEPT ![s].at = "briefed", ![s].day = today]
  /\ UNCHANGED <<files, today, todo, hand, agreed, fate, anew, clobbered>>

-----------------------------------------------------------------------------
(* A person with an editor, and the calendar *)

EditRest == UNCHANGED <<todo, hand, brief, agreed, anew, clobbered>> /\ Act

\* The lesson is written, and written again; a draft may be thrown away.
EditDraft ==
  /\ \E l \in drafts :
       \/ /\ \E w \in Words : drafts' = (drafts \ {l}) \cup {Draft(l.id, w)}
          /\ UNCHANGED fate
       \/ /\ drafts' = Without(drafts, l.id)
          /\ IF l.id \in Ids(live) THEN UNCHANGED fate ELSE Becomes(l.id, "gone")
  /\ UNCHANGED <<live, garbled, today>> /\ EditRest

\* A line is deleted from the live file, or its approver.
EditLive ==
  /\ \E l \in live :
       \/ live' = Without(live, l.id) /\ Becomes(l.id, "gone")
       \/ live' = (live \ {l}) \cup {[l EXCEPT !.by = Nobody]} /\ UNCHANGED fate
  /\ UNCHANGED <<drafts, garbled, today>> /\ EditRest

\* A misspelt key makes the whole file one that no command reads.
Misspell ==
  /\ \E f \in {"live", "drafts"} : garbled' = garbled \cup {f}
  /\ UNCHANGED <<live, drafts, today, fate>> /\ EditRest

DayPasses ==
  /\ today' = today + 1
  /\ UNCHANGED <<files, fate>> /\ EditRest

CommandStep(c) ==
  \/ ProposeReadsLive(c) \/ ProposeReadsDrafts(c) \/ ProposeWrites(c)
  \/ ApproveReadsDrafts(c) \/ ApproveReadsLive(c) \/ PersonSaysYes(c) \/ PersonSaysNo(c)
  \/ Publish(c) \/ DropDraft(c)
  \/ RemoveReads(c) \/ RemoveWrites(c)
  \/ Dies(c)

LessonsNext ==
  \/ \E c \in Command : CommandStep(c)
  \/ \E s \in Starter : PinLessons(s)
  \/ EditDraft \/ EditLive \/ Misspell \/ DayPasses

LessonsSpec == LessonsInit /\ [][LessonsNext]_lessonVars

-----------------------------------------------------------------------------
(* Properties *)

\* What a worker is given is what a person agreed to when shown it, word for word, and
\* has not lapsed on the day the start read it, whatever was written, edited or left
\* half done meanwhile; and a brief that sends its worker to a lesson gives it one
\* (lessonsApprove, briefLessons, withLessons).
TaughtAsAgreed ==
  \A s \in Starter :
    LET given == brief[s].lessons
    IN  /\ \A l \in given : l \in agreed /\ ~Lapsed(l, brief[s].day)
        /\ brief[s].told => given # {}

\* A lesson stays in one of the two files until somebody takes it out, whenever a
\* command dies, and out of the live one from then on until it is approved again;
\* unless a file was replaced by a copy read before the lesson changed in it, or the
\* draft that an approval drops is a later one than it approved (lessonsApprove,
\* lessonsRemove, appendDraft).
LessonsKept ==
  \A id \in Lesson \ clobbered :
    /\ fate[id] = "kept" => id \in Ids(live) \cup Ids(drafts)
    /\ fate[id] = "gone" => id \notin Ids(live)

-----------------------------------------------------------------------------
(* What the repository says and the code does not do *)

\* Removing a lesson removes it from every worker started afterwards, with nothing
\* cached anywhere to resurrect it (the comment at the head of lessons.go).
RemovedStaysRemoved == \A id \in Lesson : fate[id] = "gone" => id \notin Ids(live)
=============================================================================
