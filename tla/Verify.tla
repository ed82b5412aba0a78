-------------------------------- MODULE Verify --------------------------------
(***************************************************************************)
(* `verify` (verify.go): every approved check is run on the merge base and   *)
(* on the head, in exports of their own, and the change counts when nothing  *)
(* fails on the head and something fails on the base; then the tests that    *)
(* came with it are run with the rest of it put back.                        *)
(***************************************************************************)
EXTENDS PullRequest

CONSTANTS
  Check,     \* the acceptance checks of an approved text
  Readable   \* those whose expected outcome verify can judge

ASSUME VerifyAssumption == Readable \subseteq Check

VARIABLES
  subject,  \* the commit each run verifies
  truth,    \* the checks that are met on its merge base, and on it
  onBase,   \* how each check ran on the merge base
  onHead,   \* and on that commit
  result    \* verified, or why not

verifyVars == <<subject, truth, onBase, onHead, result>>

NotRun == [c \in Check |-> "not run"]

VerifyInit ==
  /\ subject = [v \in Run |-> {}]
  /\ truth = [v \in Run |-> [base |-> {}, head |-> {}]]
  /\ onBase = [v \in Run |-> NotRun]
  /\ onHead = [v \in Run |-> NotRun]
  /\ result = [v \in Run |-> "none"]

Ending == {"not run", "no code", "passed", "failed", "not installed"}

VerifyTypeOK ==
  /\ subject \in [Run -> Commit]
  /\ truth \in [Run -> [base : SUBSET Check, head : SUBSET Check]]
  /\ onBase \in [Run -> [Check -> Ending]] /\ onHead \in [Run -> [Check -> Ending]]
  /\ result \in [Run -> {"none", "verified", "needs a human"}]

Concludes(v, how) == GoTo(v, "over") /\ result' = [result EXCEPT ![v] = how]

\* factoryApproval, the pull request's head and git merge-base.  What is approved
\* when it begins is what it checks, whatever the issue says later.
Resolve(v) ==
  /\ at[v] = "verify"
  /\ \/ /\ Approval # {}
        /\ subject' = [subject EXCEPT ![v] = head]
        /\ \E t \in [base : SUBSET Check, head : SUBSET Check] : truth' = [truth EXCEPT ![v] = t]
        /\ GoTo(v, "base")
        /\ UNCHANGED events
     \/ Approval = {} /\ GoTo(v, "failed") /\ UNCHANGED <<subject, truth, events>>
     \/ Fails(v) /\ UNCHANGED <<subject, truth>>
  /\ UNCHANGED <<worldVars, onBase, onHead, result>>

\* runOneCheck and runIn: no exit code where it timed out or was killed.
CheckEnds(c, met) ==
  {"no code", IF c \in Readable \cap met THEN "passed" ELSE "failed"}

\* runChecks: each check in an export of its own, or, where installDependencies
\* fails, the end of the install for all of them.
RunsOf(met) ==
  {o \in [Check -> {"no code", "passed", "failed"}] : \A c \in Check : o[c] \in CheckEnds(c, met)}
    \cup {[c \in Check |-> "no code"], [c \in Check |-> "not installed"]}

RunBase(v) ==
  /\ at[v] = "base"
  /\ \/ /\ \E o \in RunsOf(truth[v].base) : onBase' = [onBase EXCEPT ![v] = o]
        /\ GoTo(v, "head")
        /\ UNCHANGED events
     \/ Fails(v) /\ UNCHANGED onBase
  /\ UNCHANGED <<worldVars, subject, truth, onHead, result>>

RunHead(v) ==
  /\ at[v] = "head"
  /\ \/ /\ \E o \in RunsOf(truth[v].head) : onHead' = [onHead EXCEPT ![v] = o]
        /\ GoTo(v, "judge")
        /\ UNCHANGED events
     \/ Fails(v) /\ UNCHANGED onHead
  /\ UNCHANGED <<worldVars, subject, truth, onBase, result>>

\* Mutant: what did not finish on the base failed there.
ClassOfTimeout(v, c) ==
  IF c \notin Readable \/ onHead[v][c] = "no code" THEN "unjudged"
  ELSE IF onHead[v][c] # "passed" THEN "failing"
  ELSE IF onBase[v][c] = "passed" THEN "guard"
  ELSE "discriminating"

\* classifyCheck
Class(v, c) ==
  IF c \notin Readable \/ "no code" \in {onBase[v][c], onHead[v][c]} THEN "unjudged"
  ELSE IF onHead[v][c] # "passed" THEN "failing"
  ELSE IF onBase[v][c] = "passed" THEN "guard"
  ELSE "discriminating"

JudgeChecks(v) ==
  /\ at[v] = "judge"
  /\ LET classes == {Class(v, c) : c \in Check}
     IN  IF "discriminating" \in classes /\ classes \subseteq {"discriminating", "guard"}
         THEN GoTo(v, "revert") /\ UNCHANGED result
         ELSE Concludes(v, "needs a human")
  /\ UNCHANGED <<worldVars, events, subject, truth, onBase, onHead>>

\* verifyTestsNeedTheChange: the changed tests have to fail with the change put back,
\* where it changes code and comes with tests.
RevertTests(v) ==
  /\ at[v] = "revert"
  /\ \/ \E tests \in {"skipped", "fail", "pass", "do not build", "do not run", "do not finish"} :
          Concludes(v, IF tests \in {"skipped", "fail"} THEN "verified" ELSE "needs a human")
        /\ UNCHANGED events
     \/ Fails(v) /\ UNCHANGED result
  /\ UNCHANGED <<worldVars, subject, truth, onBase, onHead>>

VerifyStep(v) == Resolve(v) \/ RunBase(v) \/ RunHead(v) \/ JudgeChecks(v) \/ RevertTests(v)
=============================================================================
