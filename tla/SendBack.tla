------------------------------- MODULE SendBack -------------------------------
(***************************************************************************)
(* Runs of `review`, `rework` and `verify` on one pull request, beside each  *)
(* other and everybody else.  They share no lock: what holds them together   *)
(* is what each looks at again before it acts.                               *)
(***************************************************************************)
EXTENDS Review, Rework, Verify

CONSTANT Commands  \* which commands run: sets of functions from Run

\* A run of a command begins where the command does; one that is not used is over.
ASSUME SendBackAssumption == Commands \subseteq [Run -> {"view", "approval", "verify", "over"}]

VARIABLES
  agreed,   \* history: texts that were the issue's and approved while a review ran
  heldOn,   \* history: reviews whose commit was the pull request's after the verdict
  green,    \* history: those whose commit was green after it
  known,    \* history: the changes of the branch when a rework had looked at it
  there,    \* history: the agents there when a rework had listed them
  offered,  \* history: what the pull request held when a rework looked at it
  lost      \* history: changes destroyed, and by which rework

history == <<agreed, heldOn, green, known, there, offered, lost>>
vars == <<worldVars, at, events, reviewVars, reworkVars, verifyVars, history>>

TypeOK ==
  /\ WorldTypeOK /\ ReviewTypeOK /\ ReworkTypeOK /\ VerifyTypeOK
  /\ agreed \in [Run -> SUBSET Text]
  /\ heldOn \subseteq Run /\ green \subseteq Run
  /\ known \in [Run -> SUBSET Nat]
  /\ there \in [Run -> SUBSET Agent]
  /\ offered \in [Run -> Commit]
  /\ lost \subseteq Run \X Nat

Under(r) == at[r] \notin {"over", "failed"}

\* What no run of an instance looks at begins with one value; and what is sent back by
\* its hash has been approved.
Matters ==
  /\ (\A r \in Run : at[r] # "approval") => ~dirty /\ tracking = {1} /\ local = {1}
  /\ (\E r \in Run : at[r] = "approval") => approved = {Filed}
  /\ (\A r \in Run : at[r] # "view") => checks[head] = {}

Init ==
  /\ WorldInit /\ ReviewInit /\ ReworkInit /\ VerifyInit
  /\ at \in Commands
  /\ Matters
  /\ agreed = [r \in Run |-> {}]
  /\ heldOn = {} /\ green = {}
  /\ known = [r \in Run |-> {}]
  /\ there = [r \in Run |-> {}]
  /\ offered = [r \in Run |-> {}]
  /\ lost = {}

-----------------------------------------------------------------------------
\* Changes that are on no branch, here or on GitHub, after a step and were before.
Destroyed ==
  {c \in (IF local = NoBranch THEN {} ELSE local) : c \notin head' /\ c \notin local'}
    \cup (IF dirty /\ ~dirty' THEN {0} ELSE {})

\* What the properties remember, while they need it.
Watch ==
  /\ agreed' = [r \in Run |-> IF Under(r) THEN agreed[r] \cup Approval ELSE agreed[r]]
  /\ heldOn' = heldOn \cup {r \in Run : at[r] \in {"reread", "recheck"} /\ head = oid[r]}
  /\ green' = green \cup {r \in Run : at[r] \in {"reread", "recheck"} /\ CommitCI(oid[r]) = "green"}
  /\ known' = [r \in Run |->
       CASE at[r] \in {"pr", "spaces", "agents", "fetch", "status"} -> local
         [] at[r] = "create" -> {}
         [] OTHER -> known[r]]
  /\ there' = [r \in Run |->
       CASE at[r] \in {"pr", "spaces", "agents"} -> agents
         [] at[r] = "close" -> {}
         [] OTHER -> there[r]]
  /\ offered' = [r \in Run |->
       IF at[r] = "pr" THEN head
       ELSE IF at'[r] \in {"over", "failed"} THEN {} ELSE offered[r]]
  /\ lost' = lost \cup ({r \in Run : at[r] \in {"remove", "branch"} /\ at'[r] # at[r]} \X Destroyed)

Next ==
  /\ \/ \E r \in Run : (ReviewStep(r) \/ Reports(r)) /\ UNCHANGED <<reworkVars, verifyVars>>
     \/ \E r \in Run : ReworkStep(r) /\ UNCHANGED <<reviewVars, verifyVars>>
     \/ \E r \in Run : VerifyStep(r) /\ UNCHANGED <<reviewVars, reworkVars>>
     \/ World /\ (\E r \in Run : Under(r)) /\ UNCHANGED <<reviewVars, reworkVars, verifyVars>>
  /\ Watch

Spec == Init /\ [][Next]_vars

-----------------------------------------------------------------------------
(* Properties *)

\* What a review says on the pull request is about a commit that was the pull
\* request's, and green, after its verdict had arrived; and it says verified only of a
\* pass against text that was approved and the issue's while it ran (reviewCommand).
VerdictHolds ==
  \A r \in Run :
    /\ posted[r] # "none" => r \in heldOn /\ r \in green
    /\ outcome[r] = "verified" =>
         r \in heldOn /\ r \in green /\ report[r] = "pass" /\ judged[r] \in agreed[r]

\* A rework destroys no file nobody has committed, and no commit that the branch had
\* when it looked at it, although the fetch, the two looks, the close, the removal and
\* the deletion are calls of their own (checkNothingOnlyLocal, reworkCommand); and the
\* new worker has what the pull request held when the rework looked, whatever
\* origin/<branch> was here before (fetchRemoteBranch).
ReworkLosesNothing ==
  \A r \in Run :
    /\ <<r, 0>> \notin lost
    /\ \A c \in known[r] : <<r, c>> \notin lost
    /\ at[r] = "launch" /\ local # NoBranch => offered[r] \subseteq local

\* Closing the old workspace takes no agent with it that was there when the rework
\* listed agents: none that works, and no reviewer somebody waits for (liveWorker).
WorkersSpared ==
  [][\A r \in Run : CloseSpace(r) => there[r] \cap agents \subseteq agents']_vars

\* What verify calls verified meets every approved check; and some check failed on the
\* base, where its dependencies could be installed: none merely took too long there
\* (runChecks, classifyCheck).
VerifyProves ==
  \A v \in Run : result[v] = "verified" =>
    /\ Check \subseteq truth[v].head
    /\ onBase[v] # [c \in Check |-> "not installed"] => ~(Check \subseteq truth[v].base)

\* What the documentation says, and the code does not: a pull request is sent back to
\* a worker.
SentToAWorker == \A r \in Run : told[r][2] = "worker"
=============================================================================
