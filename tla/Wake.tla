-------------------------------- MODULE Wake --------------------------------
(***************************************************************************)
(* A report announcing itself to the coordinator that dispatched its worker *)
(* (wake.go): it queues an entry in the worker's queue file, waits until the *)
(* coordinator sits at an empty prompt, claims the queue by renaming it, and *)
(* types everything in it as one line.                                       *)
(*                                                                           *)
(* Every file operation and every herdr call is a step, since processes of   *)
(* several reports and the person at the coordinator's keyboard run between. *)
(* An entry is named by the report that wrote it, and no two entries read    *)
(* the same.  A file or a line is the set of the entries in it: no property  *)
(* is about their order, and OnePlace has that none is in one twice.         *)
(***************************************************************************)
EXTENDS Naturals, Sequences, FiniteSets

CONSTANTS
  Run,       \* invocations of `report`, one process each
  Worker,    \* the workers one coordinator dispatched
  Of,        \* the worker each run reports for
  Human,     \* text the person at the coordinator's keyboard typed
  NoFile,    \* no open file
  Unlinked,  \* an open file that has no name any more
  Faults,    \* which faults this instance admits
  MaxPolls,  \* polls that fit into wakeWait
  MaxEvents  \* what the coordinator, its user and the clock do in one behavior

ASSUME WakeAssumption ==
  /\ Of \in [Run -> Worker]
  /\ Human \notin Run /\ {NoFile, Unlinked} \cap (Run \cup Worker) = {}
  /\ Run \cap Worker = {}
  /\ Faults \subseteq {"callFails", "answerLost", "crash"}
  /\ MaxPolls \in Nat /\ MaxEvents \in Nat

VARIABLES
  at,        \* where each process stands
  polls,     \* how often it has found the coordinator not ready
  fd,        \* the file appendQueue has open: a queue, or what became of it
  queue,     \* entries in each worker's queue file
  exists,    \* workers whose queue file exists
  claimed,   \* entries in the file each process renamed the queue to
  kept,      \* the entries of its claim that it means to type
  there,     \* the pane is still the recorded terminal and agent
  busy,      \* the coordinator is in the middle of a turn
  composer,  \* what its input box holds: wake lines, and what a human typed
  events,    \* what the coordinator, its user and the clock did so far
  old,       \* entries past wakeStale
  said,      \* history: what each Enter a process pressed submitted, if answered
  excused,   \* history: entries that nothing in the code keeps
  slipped    \* history: processes behind whose check the composer changed

fileVars == <<fd, queue, exists, claimed>>
paneVars == <<there, busy, composer>>
history  == <<said, excused, slipped>>
vars == <<at, polls, fileVars, kept, paneVars, events, old, history>>

Init ==
  /\ at = [r \in Run |-> "idle"]
  /\ polls = [r \in Run |-> 0]
  /\ fd = [r \in Run |-> NoFile]
  /\ queue = [w \in Worker |-> {}]
  /\ exists = {}
  /\ claimed = [r \in Run |-> {}]
  /\ kept = [r \in Run |-> {}]
  /\ there = TRUE
  /\ busy \in BOOLEAN
  /\ composer \in {<<>>, <<Human>>}
  /\ events = 0
  /\ old = {}
  /\ said = <<>>
  /\ excused = {}
  /\ slipped = {}

-----------------------------------------------------------------------------
(* Files *)

GoTo(r, label) == at' = [at EXCEPT ![r] = label]

\* Whoever has file f open has file g open when f is renamed or removed.
Moved(f, g) == [r \in Run |-> IF fd[r] = f THEN g ELSE fd[r]]

\* appendQueue, O_APPEND|O_CREATE.
OpenQueue(r) ==
  /\ fd' = [fd EXCEPT ![r] = Of[r]]
  /\ exists' = exists \cup {Of[r]}

\* A claim whose owner has read it is not read again, and one it has removed is
\* gone: what is written to either is lost.
WriteTo(r, entries) ==
  LET f == fd[r]
  IN  /\ fd' = [fd EXCEPT ![r] = NoFile]
      /\ queue' = IF f \in Worker THEN [queue EXCEPT ![f] = @ \cup entries] ELSE queue
      /\ claimed' = IF f \in Run THEN [claimed EXCEPT ![f] = @ \cup entries] ELSE claimed
      /\ excused' = IF f \in Worker \/ (f \in Run /\ at[f] = "read") THEN excused
                    ELSE excused \cup entries

Append_(r) ==
  /\ at[r] = "idle"
  /\ OpenQueue(r)
  /\ GoTo(r, "write")
  /\ UNCHANGED <<polls, queue, claimed, kept, paneVars, events, old, history>>

WriteEntry(r) ==
  /\ at[r] = "write"
  /\ WriteTo(r, {r})
  /\ GoTo(r, "ask")
  /\ UNCHANGED <<polls, exists, kept, paneVars, events, old, said, slipped>>

-----------------------------------------------------------------------------
(* Waiting for the coordinator: wakeFor and coordinatorReady *)

\* herdr does not answer; what was queued stays queued.
AskFails(r) ==
  /\ "callFails" \in Faults
  /\ at[r] \in {"ask", "peek"}
  /\ GoTo(r, "over")
  /\ UNCHANGED <<polls, fileVars, kept, paneVars, events, old, history>>

\* AgentGet.  A pane that is not the recorded one costs the queue.
Ask(r) ==
  LET w == Of[r]
  IN  /\ at[r] = "ask"
      /\ IF there
         THEN /\ GoTo(r, IF busy THEN "wait" ELSE "peek")
              /\ UNCHANGED <<fd, queue, exists, excused>>
         ELSE /\ GoTo(r, "over")
              /\ exists' = exists \ {w}
              /\ fd' = Moved(w, Unlinked)
              /\ queue' = [queue EXCEPT ![w] = {}]
              /\ excused' = excused \cup queue[w]
      /\ UNCHANGED <<polls, claimed, kept, paneVars, events, old, said, slipped>>

\* PaneRead: the composer has to be empty.
Peek(r) ==
  /\ at[r] = "peek"
  /\ GoTo(r, IF composer = <<>> THEN "claim" ELSE "wait")
  /\ UNCHANGED <<polls, fileVars, kept, paneVars, events, old, history>>

\* Mutant: the deadline is never looked at.
WaitForever(r) ==
  /\ at[r] = "wait"
  /\ GoTo(r, "ask")
  /\ UNCHANGED <<polls, fileVars, kept, paneVars, events, old, history>>

\* Not ready: give up at the deadline, or sleep and ask again.
Wait(r) ==
  /\ at[r] = "wait"
  /\ IF polls[r] = MaxPolls
     THEN GoTo(r, "over") /\ UNCHANGED polls
     ELSE GoTo(r, "ask") /\ polls' = [polls EXCEPT ![r] = @ + 1]
  /\ UNCHANGED <<fileVars, kept, paneVars, events, old, history>>

-----------------------------------------------------------------------------
(* flushWake *)

\* The queue is claimed by rename; where there is none, another process has it.
Claim(r) ==
  LET w == Of[r]
  IN  /\ at[r] = "claim"
      /\ IF w \in exists
         THEN /\ claimed' = [claimed EXCEPT ![r] = queue[w]]
              /\ queue' = [queue EXCEPT ![w] = {}]
              /\ exists' = exists \ {w}
              /\ fd' = Moved(w, r)
              /\ GoTo(r, "read")
         ELSE GoTo(r, "over") /\ UNCHANGED fileVars
      /\ UNCHANGED <<polls, kept, paneVars, events, old, history>>

\* Entries past their time are dropped.
ReadClaim(r) ==
  LET fresh == claimed[r] \ old
  IN  /\ at[r] = "read"
      /\ kept' = [kept EXCEPT ![r] = fresh]
      /\ GoTo(r, IF fresh = {} THEN "remove" ELSE "type")
      /\ UNCHANGED <<polls, fileVars, paneVars, events, old, history>>

\* Someone touched the composer, or the pane, behind the check of a process.
Slip(actors) == slipped' = slipped \cup {r \in Run \ actors : at[r] = "enter"}

\* Mutant: a failed call is not put right.
TypeAndForget(r) ==
  /\ at[r] = "type"
  /\ \/ /\ composer' = Append(composer, kept[r])
        /\ \/ GoTo(r, "check")
           \/ "answerLost" \in Faults /\ GoTo(r, "remove")
        /\ Slip({r})
     \/ /\ "callFails" \in Faults
        /\ GoTo(r, "remove")
        /\ UNCHANGED <<composer, slipped>>
  /\ UNCHANGED <<polls, fileVars, kept, there, busy, events, old, said, excused>>

\* PaneSendText types the line after whatever the composer holds by now.
Type(r) ==
  /\ at[r] = "type"
  /\ \/ /\ composer' = Append(composer, kept[r])
        /\ \/ GoTo(r, "check")
           \/ "answerLost" \in Faults /\ GoTo(r, "requeue")
        /\ Slip({r})
     \/ /\ "callFails" \in Faults
        /\ GoTo(r, "requeue")
        /\ UNCHANGED <<composer, slipped>>
  /\ UNCHANGED <<polls, fileVars, kept, there, busy, events, old, said, excused>>

\* Mutant: the line only has to be in the box.
HoldsLine(r) == \E i \in DOMAIN composer : composer[i] = kept[r]

\* The composer holds exactly the wake line.
HoldsExactly(r) == composer = <<kept[r]>>

Check(r) ==
  /\ at[r] = "check"
  /\ \/ GoTo(r, IF HoldsExactly(r) THEN "enter" ELSE "requeue")
     \/ "callFails" \in Faults /\ GoTo(r, "requeue")
  /\ UNCHANGED <<polls, fileVars, kept, paneVars, events, old, history>>

\* Enter submits what the box holds when it arrives.
Submit(r, heard) ==
  /\ said' = Append(said, [by |-> r, text |-> composer, heard |-> heard])
  /\ composer' = <<>>
  /\ busy' = (busy \/ composer # <<>>)
  /\ excused' = IF r \in slipped THEN excused \cup kept[r] ELSE excused
  /\ Slip({r})

\* PaneSendKeys, once and never again.
Enter(r) ==
  /\ at[r] = "enter"
  /\ \/ Submit(r, TRUE) /\ GoTo(r, "remove")
     \/ "answerLost" \in Faults /\ Submit(r, FALSE) /\ GoTo(r, "requeue")
     \/ /\ "callFails" \in Faults
        /\ GoTo(r, "requeue")
        /\ UNCHANGED <<composer, busy, history>>
  /\ UNCHANGED <<polls, fileVars, kept, there, events, old>>

Requeue(r) ==
  /\ at[r] = "requeue"
  /\ OpenQueue(r)
  /\ GoTo(r, "putback")
  /\ UNCHANGED <<polls, queue, claimed, kept, paneVars, events, old, history>>

PutBack(r) ==
  /\ at[r] = "putback"
  /\ WriteTo(r, kept[r])
  /\ GoTo(r, "remove")
  /\ UNCHANGED <<polls, exists, kept, paneVars, events, old, said, slipped>>

RemoveClaim(r) ==
  /\ at[r] = "remove"
  /\ claimed' = [claimed EXCEPT ![r] = {}]
  /\ fd' = Moved(r, Unlinked)
  /\ GoTo(r, "over")
  /\ UNCHANGED <<polls, queue, exists, kept, paneVars, events, old, history>>

\* A killed process leaves its claim behind, and nothing looks for it.
Crash(r) ==
  /\ "crash" \in Faults
  /\ at[r] \notin {"idle", "over", "dead"}
  /\ GoTo(r, "dead")
  /\ fd' = [fd EXCEPT ![r] = NoFile]
  /\ excused' = excused \cup claimed[r] \cup (IF at[r] = "write" THEN {r} ELSE {})
  /\ UNCHANGED <<polls, queue, exists, claimed, kept, paneVars, events, old, said, slipped>>

-----------------------------------------------------------------------------
(* The coordinator, the person at it, and the clock *)

World ==
  /\ events < MaxEvents /\ events' = events + 1
  /\ UNCHANGED <<at, polls, fileVars, kept, said, excused>>

HumanTypes ==
  /\ composer' = Append(composer, Human)
  /\ Slip({})
  /\ UNCHANGED <<there, busy, old>> /\ World

\* Submitted, or deleted.
HumanEmpties ==
  /\ composer # <<>>
  /\ composer' = <<>>
  /\ busy' \in {busy, TRUE}
  /\ Slip({})
  /\ UNCHANGED <<there, old>> /\ World

TurnEnds ==
  /\ busy
  /\ busy' = FALSE
  /\ UNCHANGED <<there, composer, old, slipped>> /\ World

\* The pane is handed out again, to something that should not read this.
PaneReused ==
  /\ there
  /\ there' = FALSE
  /\ composer' = <<>>
  /\ Slip({})
  /\ UNCHANGED <<busy, old>> /\ World

\* An entry gets older than wakeStale, long after the process that wrote it.
Ages(e) ==
  /\ e \notin old
  /\ at[e] \in {"over", "dead"}
  /\ old' = old \cup {e}
  /\ UNCHANGED <<paneVars, slipped>> /\ World

-----------------------------------------------------------------------------
Step(r) ==
  \/ Append_(r) \/ WriteEntry(r) \/ AskFails(r) \/ Ask(r) \/ Peek(r) \/ Wait(r)
  \/ Claim(r) \/ ReadClaim(r) \/ Type(r) \/ Check(r) \/ Enter(r)
  \/ Requeue(r) \/ PutBack(r) \/ RemoveClaim(r)

Environment ==
  \/ HumanTypes \/ HumanEmpties \/ TurnEnds \/ PaneReused
  \/ \E e \in Run : Ages(e)

Next == (\E r \in Run : Step(r) \/ Crash(r)) \/ Environment

Spec == Init /\ [][Next]_vars

\* A process that runs is scheduled; nobody owes it a free coordinator.
FairSpec == Spec /\ \A r \in Run : WF_vars(Step(r))

-----------------------------------------------------------------------------
(* Properties *)

Written(e) == at[e] \notin {"idle", "write"}

Holding(r) == at[r] \in {"read", "type", "check", "enter", "requeue", "putback"}

\* What a process that is Holding has of the queue.
Hand(r) == IF at[r] = "read" THEN claimed[r] ELSE kept[r]

Labels ==
  {"idle", "write", "ask", "peek", "wait", "claim", "read", "type", "check", "enter",
   "requeue", "putback", "remove", "over", "dead"}

Files == Worker \cup Run \cup {NoFile, Unlinked}

\* What one entry of the input box is: a wake line, or something a human typed.
Item == {Human} \cup SUBSET Run

TypeOK ==
  /\ at \in [Run -> Labels]
  /\ fd \in [Run -> Files]
  /\ queue \in [Worker -> SUBSET Run] /\ exists \subseteq Worker
  /\ claimed \in [Run -> SUBSET Run]
  /\ kept \in [Run -> SUBSET Run]
  /\ composer \in Seq(Item)
  /\ said \in Seq([by : Run, text : Seq(Item), heard : BOOLEAN])
  /\ old \cup excused \cup slipped \subseteq Run

Exact(i) == said[i].text = <<kept[said[i].by]>>

Saying(e) == {i \in DOMAIN said : Exact(i) /\ e \in kept[said[i].by]}

Told(e) == \E i \in Saying(e) : said[i].heard

\* In the queue, or in the hands of a process that means to type it or put it back.
Waiting(e) == e \in queue[Of[e]] \/ \E r \in Run : Holding(r) /\ e \in Hand(r)

Status ==
  [e \in Run |->
    CASE ~Written(e) -> "new"
      [] Written(e) /\ Told(e) -> "told"
      [] Written(e) /\ ~Told(e) /\ Waiting(e) -> "owed"
      [] OTHER -> IF e \in old \cup excused THEN "dropped" ELSE "lost"]

Calls == [e \in Run |-> Cardinality(Saying(e))]

Excuse == old \cup excused

Box == INSTANCE Outbox WITH Entry <- Run, status <- Status, calls <- Calls, excuse <- Excuse

\* The queue, its claims and the keys carry out what Outbox promises: through every
\* change of hands an entry is owed until it is told, is told once where the answer was
\* heard, and goes missing only if it is stale, a process died with it, it was written
\* to a file already claimed, its line was submitted behind a changed composer or the
\* coordinator is gone (flushWake, requeue, appendQueue).
Delivers == Box!Spec

\* What Enter submits is the wake line and nothing else, least of all what a human
\* has begun to write, unless it was typed between the check and the key.
NothingElse ==
  \A i \in DOMAIN said :
    Exact(i) \/ said[i].by \in slipped

\* No report holds its worker for ever, whatever the coordinator does (wakeWait).
ReportsEnd ==
  \A r \in Run : at[r] = "write" ~> at[r] \in {"over", "dead"}

-----------------------------------------------------------------------------
(* What the repository says and the code does not do *)

\* flushWake says that of several reports waiting on one coordinator exactly one
\* types: no two have typed and not yet pressed Enter or given up.
OneTypes ==
  \A r, s \in Run : at[r] \in {"check", "enter"} /\ at[s] \in {"check", "enter"} => r = s
=============================================================================
