-------------------------------- MODULE Start --------------------------------
(***************************************************************************)
(* From an issue to a briefed worker (start.go, approval.go, approve.go):    *)
(* what a person confirmed to have been shown is what the worker reads,      *)
(* although the issue, its comments and everybody's permissions change       *)
(* between any two calls.                                                    *)
(*                                                                           *)
(* A delivery is a run of `start`, of `start --sha256`, or of `rework` where *)
(* the worker is still in its pane.  A text is an issue's title and body; its *)
(* payload and hash determine it and are determined by it, so a text stands   *)
(* for all three.                                                            *)
(***************************************************************************)
EXTENDS Brief, Sequences

CONSTANTS
  Approve,   \* runs of `approve`
  Account,   \* GitHub accounts
  Who,       \* the account each run of `approve` acts for
  Listed,    \* WORKTENDER_APPROVERS, or every account where it is not set
  Text,      \* what the issue may say
  Filed,     \* what it says at first
  Malformed, \* texts whose Acceptance section does not parse
  NoText,    \* nothing read, nothing pinned
  Required,  \* WORKTENDER_REQUIRE_APPROVAL
  Window     \* how many of the latest comments are fetched

ASSUME StartAssumption ==
  /\ Who \in [Approve -> Account] /\ Listed \subseteq Account
  /\ Malformed \subseteq Text /\ Filed \in Text /\ NoText \notin Text
  /\ Required \in BOOLEAN /\ OldHerdr \in BOOLEAN
  /\ Window \in Nat /\ MaxPolls \in Nat /\ MaxEvents \in Nat
  /\ Faults \subseteq {"callFails", "answerLost", "paneMoves"}

VARIABLES
  text,      \* what the issue says
  labelled,  \* whether it is factory:ready
  comments,  \* approval comments, the latest last
  writers,   \* accounts with write access
  kind,      \* which command each delivery is
  want,      \* the payload its --sha256 names, if it has one
  guarded,   \* whether it has found that it needs an approval
  snap,      \* the text and the comments it fetched, at once
  checked,   \* authors it has asked the permission of
  pinned,    \* the copy it wrote into the worktree's git dir
  read,      \* what its worker read
  step,      \* where each run of approve stands
  mode,      \* how it is confirmed
  seen,      \* what an earlier run showed its caller
  shown,     \* what it prints
  confirmed, \* history: who confirmed to have been shown what
  lacked     \* history: who lacked write access since a delivery's fetch, or could
             \* not be asked

issueVars == <<text, labelled, comments, writers>>
startVars == <<kind, want, guarded, snap, checked, pinned>>
approveVars == <<step, mode, seen, shown>>
vars == <<at, events, briefVars, issueVars, startVars, read, approveVars, confirmed, lacked>>

NoSnap == [text |-> NoText, comments |-> <<>>]

Comments == Seq([by : Account, sha : Text])

StartTypeOK ==
  /\ text \in Text /\ labelled \in BOOLEAN /\ comments \in Comments
  /\ writers \subseteq Account
  /\ kind \in [Delivery -> {"start", "hash", "live"}]
  /\ want \in [Delivery -> Text \cup {NoText}]
  /\ guarded \in [Delivery -> BOOLEAN]
  /\ snap \in [Delivery -> [text : Text \cup {NoText}, comments : Comments]]
  /\ checked \in [Delivery -> SUBSET Account] /\ lacked \in [Delivery -> SUBSET Account]
  /\ pinned \in [Delivery -> Text \cup {NoText}] /\ read \in [Delivery -> Text \cup {NoText}]
  /\ step \in [Approve -> {"idle", "answer", "post", "label", "over"}]
  /\ mode \in [Approve -> {"ask", "sha"}]
  /\ seen \in [Approve -> Text \cup {NoText}] /\ shown \in [Approve -> Text \cup {NoText}]
  /\ confirmed \subseteq Account \X Text

\* What a pane shows before a delivery: a live worker, or nothing yet.
PaneInit ==
  /\ screen \in [Delivery -> {"none", "prompt", "turn", "asks"}]
  /\ echoed \in [Delivery -> {{}, {"earlier"}}]
  /\ finished \in [Delivery -> BOOLEAN]
  /\ \A d \in Delivery :
       /\ screen[d] = "none" <=> kind[d] # "live"
       /\ screen[d] = "none" => echoed[d] = {}
       /\ finished[d] => screen[d] = "prompt"

\* A caller that names the payload looks at no approval: none is under way where
\* every delivery is of that kind.
ApprovalMatters ==
  IF \E d \in Delivery : kind[d] = "start"
  THEN \A a \in Approve : step[a] = "idle"
  ELSE ~labelled /\ writers = {} /\ \A a \in Approve : step[a] = "over" /\ mode[a] = "ask"

\* Nothing has been read, pinned or typed.
Fresh ==
  /\ kind \in [Delivery -> {"start", "hash", "live"}]
  /\ PaneInit
  /\ BriefInit
  /\ want \in [Delivery -> Text \cup {NoText}]
  /\ \A d \in Delivery : want[d] = NoText <=> kind[d] = "start"
  /\ text = Filed
  /\ labelled \in BOOLEAN
  /\ comments = <<>>
  /\ writers \in SUBSET Account
  /\ guarded = [d \in Delivery |-> FALSE]
  /\ snap = [d \in Delivery |-> NoSnap]
  /\ checked = [d \in Delivery |-> {}]
  /\ pinned = [d \in Delivery |-> NoText]
  /\ read = [d \in Delivery |-> NoText]
  /\ step \in [Approve -> {"idle", "over"}]
  /\ mode \in [Approve -> {"ask", "sha"}]
  /\ seen = [a \in Approve |-> NoText]
  /\ shown = [a \in Approve |-> NoText]
  /\ confirmed = {}
  /\ ApprovalMatters
  /\ lacked = [d \in Delivery |-> {}]

Init == Fresh /\ at = [d \in Delivery |-> IF kind[d] = "live" THEN "fetch" ELSE "issue"]

\* What a step of a delivery before its pane exists leaves alone.
Elsewhere == UNCHANGED <<briefVars, issueVars, approveVars, read, confirmed>>

-----------------------------------------------------------------------------
(* start: is the issue approved? *)

\* issueFor.  An issue that needs no approval is briefed as it is.
ReadIssue(d) ==
  /\ at[d] = "issue"
  /\ \/ LET g == kind[d] = "hash" \/ labelled \/ Required
        IN  /\ guarded' = [guarded EXCEPT ![d] = g]
            /\ GoTo(d, IF g THEN "fetch" ELSE "create")
            /\ UNCHANGED events
     \/ Fails(d) /\ UNCHANGED guarded
  /\ UNCHANGED <<kind, want, snap, checked, pinned, lacked>> /\ Elsewhere

\* Whether parseAcceptance finds checks and nothing it does not understand.
WellFormed(t) == t \notin Malformed

\* The latest comments, as many as are fetched.
Latest(cs) == SubSeq(cs, IF Len(cs) > Window THEN Len(cs) - Window + 1 ELSE 1, Len(cs))

\* fetchIssueSnapshot, approvalPayload and hashApproval.
Fetch(d) ==
  /\ at[d] = "fetch"
  /\ guarded' = [guarded EXCEPT ![d] = TRUE]
  /\ \/ /\ snap' = [snap EXCEPT ![d] = [text |-> text, comments |-> Latest(comments)]]
        /\ lacked' = [lacked EXCEPT ![d] = Account \ writers]
        /\ GoTo(d, IF ~WellFormed(text) THEN "refused"
                   ELSE IF kind[d] = "start" THEN "judge"
                   ELSE IF want[d] = text THEN "create" ELSE "refused")
        /\ UNCHANGED events
     \/ Fails(d) /\ UNCHANGED <<snap, lacked>>
  /\ UNCHANGED <<kind, want, checked, pinned>> /\ Elsewhere

\* Comments carrying the hash, by somebody listed and not asked about yet.
Matching(d) ==
  LET cs == snap[d].comments
  IN  {i \in DOMAIN cs : /\ cs[i].sha = snap[d].text
                         /\ cs[i].by \in Listed \ checked[d]}

\* The newest of them.
Newest(d) ==
  snap[d].comments[CHOOSE i \in Matching(d) : \A j \in Matching(d) : j <= i]

\* Mutant: only the newest comment counts.
JudgeNewest(d) ==
  /\ at[d] = "judge"
  /\ IF Len(snap[d].comments) \in Matching(d) /\ Newest(d).by \in writers
     THEN GoTo(d, "create") ELSE GoTo(d, "refused")
  /\ UNCHANGED <<startVars, lacked, events>> /\ Elsewhere

\* factoryApproval and collaboratorPermission, newest first.  An author that
\* cannot be shown to have write access is passed over.
JudgeApproval(d) ==
  /\ at[d] = "judge"
  /\ IF Matching(d) = {}
     THEN GoTo(d, "refused") /\ UNCHANGED <<checked, lacked, events>>
     ELSE LET author == Newest(d).by
          IN  \/ /\ author \in writers
                 /\ GoTo(d, "create")
                 /\ UNCHANGED <<checked, lacked, events>>
              \/ /\ author \notin writers
                 /\ checked' = [checked EXCEPT ![d] = @ \cup {author}]
                 /\ UNCHANGED <<at, lacked, events>>
              \/ /\ "callFails" \in Faults /\ Event
                 /\ checked' = [checked EXCEPT ![d] = @ \cup {author}]
                 /\ lacked' = [lacked EXCEPT ![d] = @ \cup {author}]
                 /\ UNCHANGED at
  /\ UNCHANGED <<kind, want, guarded, snap, pinned>> /\ Elsewhere

-----------------------------------------------------------------------------
(* start: a worktree, the pinned copy, an agent *)

\* The role, the base and WorktreeCreate for a start; liveWorker for a rework,
\* which leaves a working agent alone.
Create(d) ==
  /\ at[d] = "create"
  /\ \/ /\ \/ kind[d] # "live" /\ GoTo(d, "pin")
           \/ /\ kind[d] = "live" /\ Agent(d)
              /\ \E status \in AgentStatus(d) : GoTo(d, IF status = "working" THEN "failed" ELSE "pin")
           \/ kind[d] = "live" /\ ~Agent(d) /\ GoTo(d, "failed")
        /\ UNCHANGED events
     \/ Fails(d)
  /\ UNCHANGED <<startVars, lacked>> /\ Elsewhere

\* Mutant: the issue is read again for the copy.
PinLive(d) ==
  /\ at[d] = "pin"
  /\ pinned' = [pinned EXCEPT ![d] = IF guarded[d] THEN text ELSE NoText]
  /\ GoTo(d, IF kind[d] = "live" THEN "await" ELSE "staff")
  /\ UNCHANGED <<kind, want, guarded, snap, checked, lacked, events>> /\ Elsewhere

\* pinIssue, before an agent exists; where it cannot be written nothing starts.
Pin(d) ==
  /\ at[d] = "pin"
  /\ \/ /\ pinned' = [pinned EXCEPT ![d] = IF guarded[d] THEN snap[d].text ELSE NoText]
        /\ GoTo(d, IF kind[d] = "live" THEN "await" ELSE "staff")
        /\ UNCHANGED events
     \/ Fails(d) /\ UNCHANGED pinned
  /\ UNCHANGED <<kind, want, guarded, snap, checked, lacked>> /\ Elsewhere

\* KindStaff through the executor.  ok means that the launch command was typed; a
\* pane another agent is in already is skipped, and that agent briefed in its place.
Staff(d) ==
  /\ at[d] = "staff"
  /\ \/ /\ \E s \in {"launching", "deaf"} : screen' = [screen EXCEPT ![d] = s]
        /\ GoTo(d, "await")
        /\ UNCHANGED events
     \/ Fails(d) /\ UNCHANGED screen
  /\ UNCHANGED <<polls, box, echoed, finished, briefHistory, issueVars, startVars, read,
                 approveVars, confirmed, lacked>>

\* The worker follows its brief to the pinned copy, or to the live issue.
WorkerReads(d) ==
  /\ d \in taken /\ read[d] = NoText
  /\ read' = [read EXCEPT ![d] = IF pinned[d] # NoText THEN pinned[d] ELSE text]
  /\ UNCHANGED <<at, events, briefVars, issueVars, startVars, approveVars, confirmed, lacked>>

-----------------------------------------------------------------------------
(* approve *)

StepTo(a, label) == step' = [step EXCEPT ![a] = label]

ApproveRest == UNCHANGED <<at, briefVars, startVars, read, mode, lacked>>

ApproveFails(a) == "callFails" \in Faults /\ Event /\ StepTo(a, "over")

\* --sha256 names a payload an earlier run printed.
ShowEarlier(a) ==
  /\ step[a] = "idle" /\ mode[a] = "sha" /\ seen[a] = NoText
  /\ seen' = [seen EXCEPT ![a] = text]
  /\ UNCHANGED <<step, shown, issueVars, events, confirmed>> /\ ApproveRest

\* fetchIssueSnapshot and approvalPayload, printed.
Show(a) ==
  /\ step[a] = "idle" /\ (mode[a] = "sha" => seen[a] # NoText)
  /\ \/ /\ shown' = [shown EXCEPT ![a] = text]
        /\ StepTo(a, IF WellFormed(text) THEN "answer" ELSE "over")
        /\ UNCHANGED events
     \/ ApproveFails(a) /\ UNCHANGED shown
  /\ UNCHANGED <<seen, issueVars, confirmed>> /\ ApproveRest

\* A person who answers yes has been shown exactly this.
Answer(a) ==
  /\ step[a] = "answer"
  /\ \/ /\ mode[a] = "sha" => seen[a] = shown[a]
        /\ confirmed' = confirmed \cup {<<Who[a], shown[a]>>}
        /\ StepTo(a, "post")
     \/ /\ mode[a] = "ask" \/ (mode[a] = "sha" /\ seen[a] # shown[a])
        /\ StepTo(a, "over")
        /\ UNCHANGED confirmed
  /\ UNCHANGED <<seen, shown, issueVars, events>> /\ ApproveRest

\* gh issue comment, before the label.
Post(a) ==
  /\ step[a] = "post"
  /\ \/ /\ comments' = Append(comments, [by |-> Who[a], sha |-> shown[a]])
        /\ \/ StepTo(a, "label") /\ UNCHANGED events
           \/ "answerLost" \in Faults /\ Event /\ StepTo(a, "over")
     \/ ApproveFails(a) /\ UNCHANGED comments
  /\ UNCHANGED <<seen, shown, text, labelled, writers, confirmed>> /\ ApproveRest

\* gh issue edit --add-label
Label(a) ==
  /\ step[a] = "label"
  /\ \/ labelled' = TRUE /\ StepTo(a, "over") /\ UNCHANGED events
     \/ ApproveFails(a) /\ UNCHANGED labelled
  /\ UNCHANGED <<seen, shown, text, comments, writers, confirmed>> /\ ApproveRest

-----------------------------------------------------------------------------
(* GitHub *)

GitHubRest == UNCHANGED <<at, briefVars, startVars, read, approveVars, confirmed>> /\ Event

EditIssue ==
  /\ text' \in Text \ {text}
  /\ UNCHANGED <<labelled, comments, writers, lacked>> /\ GitHubRest

SetLabel ==
  /\ labelled' = ~labelled
  /\ UNCHANGED <<text, comments, writers, lacked>> /\ GitHubRest

\* Somebody who is not asked to approve repeats what an approval says.  Whoever is
\* listed approves by `approve` alone.
CopyApproval(c) ==
  /\ c \notin Listed
  /\ comments # <<>>
  /\ comments' = Append(comments, [by |-> c, sha |-> comments[Len(comments)].sha])
  /\ UNCHANGED <<text, labelled, writers, lacked>> /\ GitHubRest

SetPermission(c) ==
  /\ writers' = IF c \in writers THEN writers \ {c} ELSE writers \cup {c}
  /\ lacked' = [d \in Delivery |-> lacked[d] \cup (Account \ writers')]
  /\ UNCHANGED <<text, labelled, comments>> /\ GitHubRest

-----------------------------------------------------------------------------
StartStep(d) ==
  \/ ReadIssue(d) \/ Fetch(d) \/ JudgeApproval(d) \/ Create(d) \/ Pin(d) \/ Staff(d)
  \/ Deliver(d) /\ UNCHANGED <<issueVars, startVars, read, approveVars, confirmed, lacked>>

ApproveStep(a) ==
  \/ ShowEarlier(a) \/ Show(a) \/ Answer(a) \/ Post(a) \/ Label(a)

Environment ==
  \/ \E d \in Delivery :
       \/ Pane(d) /\ UNCHANGED <<issueVars, startVars, read, approveVars, confirmed, lacked>>
       \/ WorkerReads(d)
  \/ EditIssue \/ SetLabel \/ \E c \in Account : CopyApproval(c) \/ SetPermission(c)

Next ==
  \/ \E d \in Delivery : StartStep(d)
  \/ \E a \in Approve : ApproveStep(a)
  \/ Environment

Spec == Init /\ [][Next]_vars

\* A start that runs is scheduled; nobody owes it a ready agent or an approval.
FairSpec == Spec /\ \A d \in Delivery : WF_vars(StartStep(d))

-----------------------------------------------------------------------------
(* Properties *)

\* What a worker reads, where an approval was needed, is text that somebody listed
\* confirmed to have been shown, or that the caller named by its hash; whatever was
\* edited, copied or granted between any two calls (factoryApproval, pinIssue).
WorksFromTheApproved ==
  \A d \in Delivery : guarded[d] /\ read[d] # NoText =>
    IF kind[d] = "start" THEN \E c \in Listed : <<c, read[d]>> \in confirmed
    ELSE read[d] = want[d]

\* An approved issue is not refused: where a well-formed text was refused, each
\* comment fetched with its hash is by somebody not listed, or who could not be
\* shown to have had write access all along.
RefusedForCause ==
  \A d \in Delivery : at[d] = "refused" /\ kind[d] = "start" /\ WellFormed(snap[d].text) =>
    \A i \in DOMAIN snap[d].comments :
      LET c == snap[d].comments[i]
      IN  c.sha = snap[d].text => c.by \notin Listed \/ c.by \in lacked[d]

\* Every start ends, whatever agent comes up or does not (agentReadyWait,
\* briefConfirmWait).
StartEnds == \A d \in Delivery : <>(at[d] \in {"briefed", "failed", "refused"})
=============================================================================
