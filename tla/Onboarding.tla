----------------------------- MODULE Onboarding -----------------------------
(***************************************************************************)
(* What a new worker is given to read: the issue, by Start, and the lessons  *)
(* of its role, by Lessons.  The two share nothing but the command that pins *)
(* both, one file after the other, so a behavior moves only one of them: the *)
(* other one has not begun, or is over.                                      *)
(***************************************************************************)
EXTENDS Start, Lessons

VARIABLE about  \* what a behavior is about: "issue" or "lessons"

\* Starts that ended before anything was pinned.
NoStart ==
  /\ Fresh /\ at = [d \in Delivery |-> "failed"]
  /\ kind = [d \in Delivery |-> "hash"] /\ want = [d \in Delivery |-> Filed]
  /\ screen = [d \in Delivery |-> "none"]
  /\ \A a \in Approve : step[a] = "over" /\ mode[a] = "ask"

NoLessons ==
  /\ LessonsInit
  /\ live = {} /\ drafts = {}
  /\ \A c \in Command : todo[c].kind = "propose"

OnboardingInit ==
  \/ about = "issue" /\ Init /\ NoLessons
  \/ about = "lessons" /\ LessonsInit /\ NoStart

OnboardingNext ==
  /\ UNCHANGED about
  /\ \/ about = "issue" /\ Next /\ UNCHANGED lessonVars
     \/ about = "lessons" /\ LessonsNext /\ UNCHANGED vars

OnboardingSpec ==
  /\ OnboardingInit /\ [][OnboardingNext]_<<vars, lessonVars, about>>
  /\ \A d \in Delivery : WF_vars(StartStep(d))
=============================================================================
