----------------------------- MODULE WakeProofs -----------------------------
(***************************************************************************)
(* Theorems about Wake for every set of reports and workers, every          *)
(* assignment of the ones to the others, every set of faults and all bounds: *)
(* what is submitted is a wake line, and the queue files implement Outbox.   *)
(***************************************************************************)
EXTENDS Wake, FiniteSetTheorems, TLAPS

\* Only a process about to write has a file open; it is a file of its worker, and
\* as long as it is the queue it exists.  Where no queue exists nothing is queued.
FileInv ==
  /\ \A r \in Run :
       /\ fd[r] # NoFile => at[r] \in {"write", "putback"}
       /\ fd[r] \in Worker => fd[r] = Of[r] /\ fd[r] \in exists
       /\ fd[r] \in Run => Of[fd[r]] = Of[r]
  /\ \A w \in Worker \ exists : queue[w] = {}

\* An entry is only in files and lines of its worker, and not before it was written.
PlacedInv ==
  /\ \A w \in Worker : \A e \in queue[w] : Written(e) /\ Of[e] = w
  /\ \A r \in Run : \A e \in claimed[r] \cup kept[r] : Written(e) /\ Of[e] = Of[r]

\* Past its reading of the claim a process has some entries of it in hand.
HandInv ==
  \A r \in Run : at[r] \in {"type", "check", "enter", "requeue", "putback"} =>
    kept[r] # {} /\ kept[r] \subseteq claimed[r]

\* An entry is in the queue or in one hand, never in two places.
OnePlace ==
  /\ \A r \in Run, w \in Worker : Holding(r) => Hand(r) \cap queue[w] = {}
  /\ \A r, s \in Run : Holding(r) /\ Holding(s) /\ r # s => Hand(r) \cap Hand(s) = {}

\* A process submits once, and then only puts back, removes its claim or ends.
SaidInv ==
  \A i \in DOMAIN said : at[said[i].by] \in {"requeue", "putback", "remove", "over", "dead"}

\* Between the check and the key the box holds the line, or someone slipped in.
EnterInv == \A r \in Run : at[r] = "enter" => r \in slipped \/ composer = <<kept[r]>>

\* What waits has not been told, as far as anyone heard; what neither waits nor
\* was told has an excuse.
OwedInv ==
  /\ \A e \in Run : Waiting(e) => ~Told(e)
  /\ \A e \in Run : Written(e) /\ ~Told(e) => Waiting(e) \/ e \in Excuse

LineInv == TypeOK /\ SaidInv /\ EnterInv /\ NothingElse
PlaceInv == FileInv /\ PlacedInv /\ HandInv /\ OnePlace
IInv == LineInv /\ PlaceInv /\ OwedInv

-----------------------------------------------------------------------------
USE WakeAssumption

\* What a step does to the input box keeps its type.
LEMMA ComposerType ==
  ASSUME TypeOK
  PROVE  /\ <<>> \in Seq(Item) /\ <<Human>> \in Seq(Item)
         /\ Append(composer, Human) \in Seq(Item)
         /\ \A r \in Run : Append(composer, kept[r]) \in Seq(Item)
  <1>1. Human \in Item /\ \A r \in Run : kept[r] \in Item
    BY DEF TypeOK, Item
  <1> QED BY <1>1 DEF TypeOK

LEMMA InitIInv == Init => IInv
  <1> SUFFICES ASSUME Init PROVE IInv
    OBVIOUS
  <1> USE DEF Init
  <1>1. TypeOK
    <2>1. composer \in Seq(Item)
      <3>1. Human \in Item
        BY DEF Item
      <3>2. <<>> \in Seq(Item) /\ <<Human>> \in Seq(Item)
        BY <3>1
      <3> QED BY <3>2
    <2>2. said \in Seq([by : Run, text : Seq(Item), heard : BOOLEAN])
      OBVIOUS
    <2> QED BY <2>1, <2>2 DEF TypeOK, Labels, Files
  <1>2. SaidInv /\ EnterInv /\ NothingElse
    BY DEF SaidInv, EnterInv, NothingElse
  <1>3. PlaceInv
    BY DEF PlaceInv, FileInv, PlacedInv, HandInv, OnePlace, Holding
  <1>4. OwedInv
    <2>1. \A e \in Run : ~Told(e)
      BY DEF Told, Saying
    <2>2. \A e \in Run : ~Written(e)
      BY DEF Written
    <2> QED BY <2>1, <2>2 DEF OwedInv
  <1> QED BY <1>1, <1>2, <1>3, <1>4 DEF IInv, LineInv

-----------------------------------------------------------------------------
(* Types *)

\* Every step keeps the types.
LEMMA TypeStep == ASSUME TypeOK, [Next]_vars PROVE TypeOK'
  <1> USE DEF TypeOK, GoTo, Labels
  <1>a. ASSUME NEW f, NEW g \in Files PROVE Moved(f, g) \in [Run -> Files]
    BY DEF Moved
  <1>b. Run \subseteq Files /\ Worker \subseteq Files /\ Unlinked \in Files /\ NoFile \in Files
    BY DEF Files
  <1>1. ASSUME NEW r \in Run, Append_(r) \/ Requeue(r) PROVE TypeOK'
    <2>1. OpenQueue(r) /\ Of[r] \in Worker
      BY <1>1 DEF Append_, Requeue
    <2>2. (fd \in [Run -> Files] /\ exists \subseteq Worker)'
      BY <2>1, <1>b DEF OpenQueue
    <2> QED BY <1>1, <2>2, ZenonT(60) DEF Append_, Requeue, paneVars, history
  <1>2. ASSUME NEW r \in Run, WriteEntry(r) \/ PutBack(r) PROVE TypeOK'
    <2> DEFINE entries == IF at[r] = "write" THEN {r} ELSE kept[r]
    <2>1. entries \in SUBSET Run /\ WriteTo(r, entries)
      BY <1>2 DEF WriteEntry, PutBack
    <2> HIDE DEF entries
    <2>2. (queue \in [Worker -> SUBSET Run])'
      BY <2>1 DEF WriteTo
    <2>3. (exists \subseteq Worker)'
      BY <1>2 DEF WriteEntry, PutBack
    <2>4. (claimed \in [Run -> SUBSET Run])'
      BY <2>1 DEF WriteTo
    <2>5. (fd \in [Run -> Files])' /\ excused' \subseteq Run
      BY <2>1, <1>b DEF WriteTo
    <2>6. (at \in [Run -> Labels])' /\ UNCHANGED <<kept, composer, said, old, slipped>>
      BY <1>2 DEF WriteEntry, PutBack, paneVars
    <2> QED BY <2>2, <2>3, <2>4, <2>5, <2>6
  <1>3. ASSUME NEW r \in Run, AskFails(r) \/ Peek(r) \/ Wait(r) \/ Check(r) PROVE TypeOK'
    BY <1>3, ZenonT(60) DEF AskFails, Peek, Wait, Check, fileVars, paneVars, history
  <1>4. ASSUME NEW r \in Run, Ask(r) PROVE TypeOK'
    <2>1. (fd \in [Run -> Files])'
      BY <1>4, <1>a, <1>b DEF Ask
    <2>2. (queue \in [Worker -> SUBSET Run] /\ exists \subseteq Worker)'
      BY <1>4 DEF Ask
    <2> QED BY <1>4, <2>1, <2>2 DEF Ask, paneVars
  <1>5. ASSUME NEW r \in Run, Claim(r) PROVE TypeOK'
    <2>1. (fd \in [Run -> Files])'
      BY <1>5, <1>a, <1>b DEF Claim, fileVars
    <2>2. (queue \in [Worker -> SUBSET Run] /\ exists \subseteq Worker)'
      BY <1>5 DEF Claim, fileVars
    <2>3. (claimed \in [Run -> SUBSET Run])'
      BY <1>5 DEF Claim, fileVars
    <2> QED BY <1>5, <2>1, <2>2, <2>3, ZenonT(60) DEF Claim, paneVars, history
  <1>6. ASSUME NEW r \in Run, ReadClaim(r) PROVE TypeOK'
    BY <1>6 DEF ReadClaim, fileVars, paneVars, history
  <1>7. ASSUME NEW r \in Run, Type(r) PROVE TypeOK'
    <2>1. composer' = composer \/ composer' = Append(composer, kept[r])
      BY <1>7 DEF Type
    <2>2. Append(composer, kept[r]) \in Seq(Item) /\ composer \in Seq(Item)
      BY ComposerType
    <2>3. (composer \in Seq(Item))'
      BY <2>1, <2>2
    <2> QED BY <1>7, <2>3 DEF Type, Slip, fileVars
  <1>8. ASSUME NEW r \in Run, Enter(r) PROVE TypeOK'
    <2>1. CASE \E heard \in BOOLEAN : Submit(r, heard)
      <3>1. PICK heard \in BOOLEAN : Submit(r, heard)
        BY <2>1
      <3>2. [by |-> r, text |-> composer, heard |-> heard]
              \in [by : Run, text : Seq(Item), heard : BOOLEAN]
        OBVIOUS
      <3>3. (said \in Seq([by : Run, text : Seq(Item), heard : BOOLEAN]))'
        BY <3>1, <3>2 DEF Submit
      <3>4. (composer \in Seq(Item))'
        BY <3>1, ComposerType DEF Submit
      <3> QED BY <1>8, <3>1, <3>3, <3>4 DEF Enter, Submit, Slip, fileVars
    <2>2. CASE UNCHANGED <<composer, busy, history>>
      BY <1>8, <2>2 DEF Enter, fileVars, history
    <2> QED BY <1>8, <2>1, <2>2 DEF Enter
  <1>9. ASSUME NEW r \in Run, RemoveClaim(r) \/ Crash(r) PROVE TypeOK'
    <2>1. (fd \in [Run -> Files])'
      BY <1>9, <1>a, <1>b DEF RemoveClaim, Crash
    <2>2. (claimed \in [Run -> SUBSET Run])' /\ excused' \subseteq Run
      BY <1>9 DEF RemoveClaim, Crash, history
    <2> QED BY <1>9, <2>1, <2>2, ZenonT(60) DEF RemoveClaim, Crash, paneVars, history
  <1>10. CASE HumanTypes
    <2>1. (composer \in Seq(Item))'
      BY <1>10, ComposerType DEF HumanTypes
    <2> QED BY <1>10, <2>1 DEF HumanTypes, World, Slip, fileVars
  <1>11. CASE HumanEmpties \/ TurnEnds \/ PaneReused
    BY <1>11, ComposerType DEF HumanEmpties, TurnEnds, PaneReused, World, Slip, fileVars
  <1>12. ASSUME NEW e \in Run, Ages(e) PROVE TypeOK'
    BY <1>12 DEF Ages, World, fileVars, paneVars
  <1>13. CASE UNCHANGED vars
    BY <1>13 DEF vars, fileVars, paneVars, history
  <1> QED
    BY <1>1, <1>2, <1>3, <1>4, <1>5, <1>6, <1>7, <1>8, <1>9, <1>10, <1>11, <1>12, <1>13
    DEF Next, Step, Environment

-----------------------------------------------------------------------------
(* What has been said *)

\* What was said names a process.
LEMMA SaidBy == ASSUME TypeOK PROVE \A i \in DOMAIN said : said[i].by \in Run
  <1> DEFINE Rec == [by : Run, text : Seq(Item), heard : BOOLEAN]
  <1>1. said \in Seq(Rec)
    BY DEF TypeOK
  <1>2. \A rec \in Rec : rec.by \in Run
    OBVIOUS
  <1> HIDE DEF Rec
  <1>3. \A i \in DOMAIN said : said[i] \in Rec
    BY <1>1
  <1> QED BY <1>2, <1>3

\* What was said is what it was as long as no process that
\* has spoken chooses its line again.
LEMMA SaidStays ==
  ASSUME TypeOK, SaidInv, UNCHANGED said,
         \A q \in Run : at[q] # "read" => kept'[q] = kept[q]
  PROVE  /\ \A i \in DOMAIN said : Exact(i)' <=> Exact(i)
         /\ \A e \in Run : Saying(e)' = Saying(e) /\ (Told(e)' <=> Told(e))
  <1>1. \A i \in DOMAIN said : kept'[said[i].by] = kept[said[i].by]
    BY SaidBy DEF SaidInv
  <1>2. \A i \in DOMAIN said : Exact(i)' <=> Exact(i)
    BY <1>1 DEF Exact
  <1>3. \A e \in Run : Saying(e)' = Saying(e)
    BY <1>1, <1>2 DEF Saying
  <1> QED BY <1>1, <1>2, <1>3 DEF Told, Saying

\* What Enter adds to what was said, by the number of the new saying.
Grows(n, r, heard) ==
  LET S == IF composer = <<kept[r]>> THEN kept[r] ELSE {}
  IN  /\ n \notin DOMAIN said /\ DOMAIN said' = DOMAIN said \cup {n}
      /\ said'[n] = [by |-> r, text |-> composer, heard |-> heard]
      /\ \A i \in DOMAIN said : said'[i] = said[i] /\ (Exact(i)' <=> Exact(i))
      /\ Exact(n)' <=> composer = <<kept[r]>>
      /\ \A e \in Run : Saying(e)' = Saying(e) \cup (IF e \in S THEN {n} ELSE {})
      /\ \A e \in Run : Told(e)' <=> Told(e) \/ (heard /\ e \in S)

\* Submit adds one saying, by the process that pressed Enter.
LEMMA SaidGrows ==
  ASSUME TypeOK, SaidInv, UNCHANGED kept,
         NEW r \in Run, NEW heard \in BOOLEAN, Submit(r, heard)
  PROVE  \E n \in Nat : Grows(n, r, heard)
  <1> DEFINE new == [by |-> r, text |-> composer, heard |-> heard]
             S == IF composer = <<kept[r]>> THEN kept[r] ELSE {}
             Rec == [by : Run, text : Seq(Item), heard : BOOLEAN]
  <1>1. said \in Seq(Rec) /\ new \in Rec /\ said' = Append(said, new)
    BY DEF TypeOK, Submit
  <1>2. new.by = r /\ new.text = composer /\ new.heard = heard
    OBVIOUS
  <1> HIDE DEF Rec, new
  <1>3. PICK n \in Nat :
          /\ n \notin DOMAIN said /\ DOMAIN said' = DOMAIN said \cup {n}
          /\ said'[n] = new /\ \A i \in DOMAIN said : said'[i] = said[i]
    <2>1. Len(said) + 1 \in Nat \ DOMAIN said
      BY <1>1
    <2>2. /\ DOMAIN said' = DOMAIN said \cup {Len(said) + 1}
          /\ said'[Len(said) + 1] = new /\ \A i \in DOMAIN said : said'[i] = said[i]
      BY <1>1
    <2> QED BY <2>1, <2>2
  <1>4. \A i \in DOMAIN said : said'[i] = said[i] /\ (Exact(i)' <=> Exact(i))
    BY <1>3 DEF Exact
  <1>5. Exact(n)' <=> composer = <<kept[r]>>
    BY <1>2, <1>3 DEF Exact
  <1>6. ASSUME NEW e \in Run
        PROVE  Saying(e)' = Saying(e) \cup (IF e \in S THEN {n} ELSE {})
    BY <1>2, <1>3, <1>4, <1>5 DEF Saying
  <1>7. ASSUME NEW e \in Run PROVE Told(e)' <=> Told(e) \/ (heard /\ e \in S)
    <2>1. Told(e)' <=> \E i \in Saying(e)' : said'[i].heard
      BY DEF Told
    <2>2. Saying(e) \subseteq DOMAIN said
      BY DEF Saying
    <2> QED BY <1>2, <1>3, <1>6, <2>1, <2>2 DEF Told
  <1> QED BY <1>3, <1>4, <1>5, <1>6, <1>7 DEF new, Grows

\* Every step keeps LineInv: the submitting process is past its check, and whoever
\* changes the box in between lets it know, through slipped.
LEMMA LineStep == ASSUME LineInv, [Next]_vars PROVE LineInv'
  <1> USE DEF LineInv
  <1>t. TypeOK /\ TypeOK'
    BY TypeStep
  <1>u. ASSUME UNCHANGED said, slipped \subseteq slipped',
               \A q \in Run : at[q] # "read" => kept'[q] = kept[q],
               \A q \in Run : at[q] \in {"requeue", "putback", "remove", "over", "dead"}
                                => at'[q] \in {"requeue", "putback", "remove", "over", "dead"}
        PROVE  SaidInv' /\ NothingElse'
    <2>1. \A i \in DOMAIN said : said[i].by \in Run /\ (Exact(i)' <=> Exact(i))
      BY <1>t, <1>u, SaidBy, SaidStays
    <2> QED BY <1>u, <2>1 DEF SaidInv, NothingElse
  <1>v. ASSUME slipped \subseteq slipped',
               \A q \in Run : at'[q] = "enter" => at[q] = "enter",
               \/ composer' = composer
               \/ \A q \in Run : at'[q] = "enter" => q \in slipped',
               \A q \in Run : at'[q] = "enter" => kept'[q] = kept[q]
        PROVE  EnterInv'
    BY <1>v DEF EnterInv
  <1> USE DEF GoTo, TypeOK, Labels
  <1>1. ASSUME NEW r \in Run,
               \/ Append_(r) \/ WriteEntry(r) \/ AskFails(r) \/ Ask(r) \/ Peek(r) \/ Wait(r)
               \/ Claim(r) \/ ReadClaim(r) \/ Requeue(r) \/ PutBack(r) \/ RemoveClaim(r)
               \/ Crash(r)
        PROVE  LineInv'
    <2>1. UNCHANGED <<said, slipped, composer>>
      BY <1>1 DEF Append_, WriteEntry, AskFails, Ask, Peek, Wait, Claim, ReadClaim, Requeue,
                  PutBack, RemoveClaim, Crash, history, paneVars
    <2>2. \A q \in Run : at[q] # "read" => kept'[q] = kept[q]
      BY <1>1 DEF Append_, WriteEntry, AskFails, Ask, Peek, Wait, Claim, ReadClaim, Requeue,
                  PutBack, RemoveClaim, Crash
    <2>3. \E l \in Labels \ {"enter"} : GoTo(r, l)
      BY <1>1 DEF Append_, WriteEntry, AskFails, Ask, Peek, Wait, Claim, ReadClaim, Requeue,
                  PutBack, RemoveClaim, Crash
    <2>4. at[r] \in {"requeue", "putback", "remove", "over", "dead"}
            => at'[r] \in {"requeue", "putback", "remove", "over", "dead"}
      BY <1>1 DEF Append_, WriteEntry, AskFails, Ask, Peek, Wait, Claim, ReadClaim, Requeue,
                  PutBack, RemoveClaim, Crash
    <2>5. SaidInv' /\ NothingElse'
      BY <1>u, <2>1, <2>2, <2>3, <2>4
    <2>6. EnterInv'
      BY <1>v, <2>1, <2>2, <2>3
    <2> QED BY <1>t, <2>5, <2>6
  <1>2. ASSUME NEW r \in Run, Type(r) PROVE LineInv'
    <2>1. SaidInv' /\ NothingElse'
      BY <1>u, <1>2 DEF Type, Slip
    <2>2. EnterInv'
      BY <1>v, <1>2, ZenonT(60) DEF Type, Slip
    <2> QED BY <1>t, <2>1, <2>2
  <1>3. ASSUME NEW r \in Run, Check(r) PROVE LineInv'
    <2>1. SaidInv' /\ NothingElse'
      BY <1>u, <1>3 DEF Check, history
    <2>2. EnterInv'
      BY <1>3 DEF Check, HoldsExactly, EnterInv, history, paneVars
    <2> QED BY <1>t, <2>1, <2>2
  <1>4. ASSUME NEW r \in Run, Enter(r) PROVE LineInv'
    <2>1. CASE \E heard \in BOOLEAN : Submit(r, heard)
      <3>1. PICK heard \in BOOLEAN : Submit(r, heard)
        BY <2>1
      <3>2. UNCHANGED kept /\ at' \in {[at EXCEPT ![r] = "remove"], [at EXCEPT ![r] = "requeue"]}
        BY <1>4 DEF Enter
      <3>3. PICK n \in Nat : Grows(n, r, heard)
        BY <1>t, <3>1, <3>2, SaidGrows
      <3>4. SaidInv'
        <4>1. at'[r] \in {"remove", "requeue"} /\ said'[n].by = r
          BY <3>2, <3>3 DEF Grows
        <4>2. ASSUME NEW i \in DOMAIN said
              PROVE  at'[said'[i].by] \in {"requeue", "putback", "remove", "over", "dead"}
          <5>1. said'[i] = said[i] /\ at[said[i].by] \in {"requeue", "putback", "remove", "over", "dead"}
            BY <3>3 DEF SaidInv, Grows
          <5>2. at[r] = "enter" /\ said[i].by \in Run
            BY <1>4, SaidBy DEF Enter
          <5> QED BY <3>2, <5>1, <5>2
        <4> QED BY <3>3, <4>1, <4>2 DEF SaidInv, Grows
      <3>5. NothingElse'
        <4>1. slipped \subseteq slipped' /\ (composer = <<kept[r]>> \/ r \in slipped)
          BY <1>4, <3>1 DEF Submit, Slip, Enter, EnterInv
        <4> QED BY <3>3, <4>1 DEF NothingElse, Grows
      <3>6. EnterInv'
        BY <1>v, <1>4, <3>1, <3>2 DEF Submit, Slip
      <3> QED BY <1>t, <3>4, <3>5, <3>6
    <2>2. CASE GoTo(r, "requeue") /\ UNCHANGED <<composer, busy, history>>
      <3>1. SaidInv' /\ NothingElse'
        BY <1>u, <1>4, <2>2 DEF Enter, history
      <3>2. EnterInv'
        BY <1>v, <1>4, <2>2 DEF Enter, history
      <3> QED BY <1>t, <3>1, <3>2
    <2> QED BY <1>4, <2>1, <2>2 DEF Enter
  <1>5. CASE Environment
    <2>1. UNCHANGED <<at, said, kept>> /\ slipped \subseteq slipped'
      BY <1>5 DEF Environment, HumanTypes, HumanEmpties, TurnEnds, PaneReused, Ages, World, Slip
    <2>2. composer' = composer \/ \A q \in Run : at[q] = "enter" => q \in slipped'
      BY <1>5 DEF Environment, HumanTypes, HumanEmpties, TurnEnds, PaneReused, Ages, Slip, paneVars
    <2>3. SaidInv' /\ NothingElse'
      BY <1>u, <2>1
    <2>4. EnterInv'
      BY <1>v, <2>1, <2>2
    <2> QED BY <1>t, <2>3, <2>4
  <1>6. CASE UNCHANGED vars
    <2>1. UNCHANGED <<at, said, kept, slipped, composer>>
      BY <1>6 DEF vars, history, paneVars
    <2>2. SaidInv' /\ NothingElse'
      BY <1>u, <2>1
    <2>3. EnterInv'
      BY <1>v, <2>1
    <2> QED BY <1>t, <2>2, <2>3
  <1> QED BY <1>1, <1>2, <1>3, <1>4, <1>5, <1>6 DEF Next, Step

\* What Enter submits is the wake line of the process that presses it and nothing
\* else, unless someone touched the composer between its check and the key.
THEOREM OnlyTheLine == Spec => []NothingElse
  <1>1. Init => LineInv
    BY InitIInv DEF IInv
  <1>2. LineInv /\ [Next]_vars => LineInv'
    BY LineStep
  <1>3. LineInv => NothingElse
    BY DEF LineInv
  <1> QED BY <1>1, <1>2, <1>3, PTL DEF Spec

-----------------------------------------------------------------------------
(* Where an entry is *)

Keeping == {"type", "check", "enter", "requeue", "putback"}

\* Steps that touch no file and no line in hand.
Elsewhere(r) ==
  /\ UNCHANGED <<fd, queue, exists, claimed, kept>>
  /\ \/ UNCHANGED at
     \/ /\ at[r] \notin {"idle", "write", "read", "putback"}
        /\ \E l \in Labels \ {"idle", "write", "read", "putback"} :
             GoTo(r, l) /\ (l \in Keeping => at[r] \in Keeping)

LEMMA PlaceElsewhere ==
  ASSUME TypeOK, PlaceInv, NEW r \in Run, Elsewhere(r)
  PROVE  PlaceInv' /\ \A e \in Run : Written(e)' <=> Written(e)
  <1> USE DEF TypeOK, PlaceInv, Elsewhere, GoTo, Labels, Keeping
  <1>1. \A e \in Run : Written(e)' <=> Written(e)
    BY DEF Written
  <1>2. \A q \in Run : Holding(q)' => Holding(q) /\ Hand(q)' = Hand(q)
    BY DEF Holding, Hand
  <1>3. FileInv'
    <2>1. \A q \in Run : at[q] \in {"write", "putback"} => at'[q] = at[q]
      OBVIOUS
    <2> QED BY <2>1 DEF FileInv
  <1>4. PlacedInv'
    BY <1>1 DEF PlacedInv
  <1>5. HandInv'
    BY DEF HandInv
  <1>6. OnePlace'
    BY <1>2 DEF OnePlace
  <1> QED BY <1>1, <1>3, <1>4, <1>5, <1>6

LEMMA PlaceOpen ==
  ASSUME TypeOK, PlaceInv, NEW r \in Run, Append_(r) \/ Requeue(r)
  PROVE  PlaceInv' /\ \A e \in Run : Written(e)' <=> Written(e)
  <1> USE DEF TypeOK, PlaceInv, Append_, Requeue, OpenQueue, GoTo, Labels
  <1>1. \A e \in Run : Written(e)' <=> Written(e)
    BY DEF Written
  <1>2. \A q \in Run : (Holding(q)' <=> Holding(q)) /\ Hand(q)' = Hand(q)
    BY DEF Holding, Hand
  <1>3. FileInv'
    <2>1. Of[r] \in Worker /\ Of[r] \notin Run /\ Of[r] # NoFile
      OBVIOUS
    <2> QED BY <2>1 DEF FileInv
  <1>4. PlacedInv'
    BY <1>1 DEF PlacedInv
  <1>5. HandInv'
    BY SMTT(30) DEF HandInv
  <1>6. OnePlace'
    BY <1>2 DEF OnePlace
  <1> QED BY <1>1, <1>3, <1>4, <1>5, <1>6

LEMMA PlaceClaim ==
  ASSUME TypeOK, PlaceInv, NEW r \in Run, Claim(r)
  PROVE  PlaceInv' /\ \A e \in Run : Written(e)' <=> Written(e)
  <1> USE DEF TypeOK, PlaceInv, Claim, GoTo, Labels, fileVars
  <1>1. \A e \in Run : Written(e)' <=> Written(e)
    BY DEF Written
  <1>2. CASE Of[r] \in exists
    <2>1. Of[r] \in Worker /\ Of[r] \notin Run /\ Of[r] # NoFile /\ r # NoFile /\ r \notin Worker
      OBVIOUS
    <2>2. /\ at' = [at EXCEPT ![r] = "read"] /\ at[r] = "claim"
          /\ claimed' = [claimed EXCEPT ![r] = queue[Of[r]]]
          /\ queue' = [queue EXCEPT ![Of[r]] = {}]
          /\ exists' = exists \ {Of[r]} /\ fd' = Moved(Of[r], r) /\ kept' = kept
      BY <1>2
    <2>3. FileInv'
      BY <2>1, <2>2 DEF FileInv, Moved
    <2>4. PlacedInv'
      BY <1>1, <2>1, <2>2 DEF PlacedInv
    <2>5. HandInv'
      BY <2>2 DEF HandInv
    <2>6. /\ Hand(r)' = queue[Of[r]]
          /\ \A q \in Run \ {r} : (Holding(q)' <=> Holding(q)) /\ Hand(q)' = Hand(q)
      BY <2>2 DEF Hand, Holding
    <2>7. \A w \in Worker : Hand(r)' \cap queue'[w] = {}
      BY <2>1, <2>2, <2>6 DEF PlacedInv
    <2>8. \A q \in Run \ {r} : Holding(q) => Hand(r)' \cap Hand(q) = {}
      BY <2>1, <2>6 DEF OnePlace
    <2>9. \A w \in Worker : queue'[w] \subseteq queue[w]
      BY <2>2
    <2>10. OnePlace'
      <3>1. \A q \in Run, w \in Worker : Holding(q)' => Hand(q)' \cap queue'[w] = {}
        BY <2>6, <2>7, <2>9 DEF OnePlace
      <3>2. \A p, q \in Run : Holding(p)' /\ Holding(q)' /\ p # q => Hand(p)' \cap Hand(q)' = {}
        BY <2>6, <2>8 DEF OnePlace
      <3> QED BY <3>1, <3>2 DEF OnePlace
    <2> QED BY <1>1, <2>3, <2>4, <2>5, <2>10
  <1>3. CASE Of[r] \notin exists
    <2>1. Elsewhere(r)
      BY <1>3 DEF Elsewhere, Keeping
    <2> QED BY <2>1, PlaceElsewhere
  <1> QED BY <1>2, <1>3

LEMMA PlaceRead ==
  ASSUME TypeOK, PlaceInv, NEW r \in Run, ReadClaim(r)
  PROVE  PlaceInv' /\ \A e \in Run : Written(e)' <=> Written(e)
  <1> USE DEF TypeOK, PlaceInv, ReadClaim, GoTo, Labels, fileVars
  <1>1. \A e \in Run : Written(e)' <=> Written(e)
    BY DEF Written
  <1>2. FileInv'
    BY DEF FileInv
  <1>3. PlacedInv'
    BY <1>1 DEF PlacedInv
  <1>4. HandInv'
    BY DEF HandInv
  <1>5. /\ Holding(r) /\ (Holding(r)' => Hand(r)' \subseteq Hand(r))
        /\ \A q \in Run \ {r} : (Holding(q)' <=> Holding(q)) /\ Hand(q)' = Hand(q)
    BY DEF Holding, Hand
  <1>6. OnePlace'
    BY <1>5, SMTT(30) DEF OnePlace
  <1> QED BY <1>1, <1>2, <1>3, <1>4, <1>6

\* Writing entries through the open file puts them in one place: the queue, a claim
\* not read yet, or nowhere any more.
LEMMA PlaceWrite ==
  ASSUME TypeOK, PlaceInv, NEW r \in Run, WriteEntry(r) \/ PutBack(r)
  PROVE  PlaceInv' /\ \A e \in Run : Written(e)' <=> Written(e) \/ (at[r] = "write" /\ e = r)
  <1> DEFINE entries == IF at[r] = "write" THEN {r} ELSE kept[r]
  <1> USE DEF TypeOK, PlaceInv, GoTo, Labels
  <1>1. /\ at[r] \in {"write", "putback"} /\ UNCHANGED <<exists, kept>> /\ WriteTo(r, entries)
        /\ at' = [at EXCEPT ![r] = IF at[r] = "write" THEN "ask" ELSE "remove"]
    BY DEF WriteEntry, PutBack
  <1>2. \A e \in Run : Written(e)' <=> Written(e) \/ (at[r] = "write" /\ e = r)
    BY <1>1 DEF Written
  <1>3. /\ entries \subseteq Run
        /\ \A e \in entries : Written(e)' /\ Of[e] = Of[r]
        /\ \A w \in Worker : entries \cap queue[w] = {}
        /\ \A q \in Run \ {r} : Holding(q) => Hand(q) \cap entries = {}
    <2>1. CASE at[r] = "write"
      <3>1. ~Written(r) /\ entries = {r}
        BY <2>1 DEF Written
      <3>2. \A q \in Run : r \notin claimed[q] \cup kept[q]
        BY <3>1 DEF PlacedInv
      <3>3. \A w \in Worker : r \notin queue[w]
        BY <3>1 DEF PlacedInv
      <3> QED BY <1>2, <2>1, <3>1, <3>2, <3>3 DEF Hand
    <2>2. CASE at[r] = "putback"
      <3>1. entries = Hand(r) /\ entries = kept[r] /\ Holding(r)
        BY <2>2 DEF Hand, Holding
      <3> QED BY <1>2, <3>1 DEF PlacedInv, OnePlace
    <2> QED BY <1>1, <2>1, <2>2
  <1> HIDE DEF entries
  <1>4. /\ fd' = [fd EXCEPT ![r] = NoFile]
        /\ queue' = IF fd[r] \in Worker THEN [queue EXCEPT ![fd[r]] = @ \cup entries] ELSE queue
        /\ claimed' = IF fd[r] \in Run THEN [claimed EXCEPT ![fd[r]] = @ \cup entries] ELSE claimed
    BY <1>1 DEF WriteTo
  <1>5. FileInv'
    <2>1. \A w \in Worker \ exists : queue'[w] = {}
      BY <1>1, <1>4 DEF FileInv
    <2>2. NoFile \notin Worker \cup Run
      OBVIOUS
    <2> QED BY <1>1, <1>4, <2>1, <2>2 DEF FileInv
  <1>6. PlacedInv'
    <2>1. \A w \in Worker : \A e \in queue'[w] : e \in queue[w] \/ (e \in entries /\ w = Of[r])
      BY <1>4 DEF FileInv
    <2>2. \A q \in Run : \A e \in claimed'[q] : e \in claimed[q] \/ (e \in entries /\ Of[q] = Of[r])
      BY <1>4 DEF FileInv
    <2> QED BY <1>1, <1>2, <1>3, <2>1, <2>2 DEF PlacedInv
  <1>7. HandInv'
    <2>1. \A q \in Run : claimed[q] \subseteq claimed'[q]
      BY <1>4
    <2> QED BY <1>1, <2>1 DEF HandInv
  <1>8. ~Holding(r)' /\ \A q \in Run \ {r} :
          /\ Holding(q)' <=> Holding(q)
          /\ Hand(q)' = IF q = fd[r] /\ at[q] = "read" THEN Hand(q) \cup entries ELSE Hand(q)
    BY <1>1, <1>4 DEF Holding, Hand
  <1>9. OnePlace'
    <2>1. \A q \in Run, w \in Worker : Holding(q)' => Hand(q)' \cap queue'[w] = {}
      <3>1. ASSUME NEW q \in Run, NEW w \in Worker, Holding(q)' PROVE Hand(q)' \cap queue'[w] = {}
        <4>1. q # r /\ Holding(q)
          BY <1>8, <3>1
        <4>2. CASE fd[r] \in Worker
          <5>1. Hand(q)' = Hand(q) /\ queue'[w] \subseteq queue[w] \cup entries
            BY <1>4, <1>8, <4>1, <4>2
          <5> QED BY <1>3, <4>1, <5>1 DEF OnePlace
        <4>3. CASE fd[r] \notin Worker
          <5>1. Hand(q)' \subseteq Hand(q) \cup entries /\ queue'[w] = queue[w]
            BY <1>4, <1>8, <4>1, <4>3
          <5> QED BY <1>3, <4>1, <5>1 DEF OnePlace
        <4> QED BY <4>2, <4>3
      <3> QED BY <3>1
    <2>2. \A p, q \in Run : Holding(p)' /\ Holding(q)' /\ p # q => Hand(p)' \cap Hand(q)' = {}
      BY <1>3, <1>8 DEF OnePlace
    <2> QED BY <2>1, <2>2 DEF OnePlace
  <1> QED BY <1>2, <1>5, <1>6, <1>7, <1>9

\* Removing a claim, throwing a queue away and dying only take entries away.
LEMMA PlaceGone ==
  ASSUME TypeOK, PlaceInv, NEW r \in Run, Ask(r) \/ RemoveClaim(r) \/ Crash(r)
  PROVE  PlaceInv' /\ \A e \in Run : Written(e)' <=> Written(e) \/ (at[r] = "write" /\ e = r)
  <1> USE DEF TypeOK, PlaceInv, GoTo, Labels
  <1>1. \A e \in Run : Written(e)' <=> Written(e) \/ (at[r] = "write" /\ e = r)
    BY DEF Ask, RemoveClaim, Crash, Written
  <1>2. /\ \A w \in Worker : queue'[w] \subseteq queue[w]
        /\ \A q \in Run : claimed'[q] \subseteq claimed[q]
        /\ UNCHANGED kept
    BY DEF Ask, RemoveClaim, Crash
  <1>3. FileInv'
    <2>1. \A q \in Run : at[q] \in {"write", "putback"} => q = r \/ at'[q] = at[q]
      BY DEF Ask, RemoveClaim, Crash
    <2>2. /\ {NoFile, Unlinked} \cap (Run \cup Worker) = {} /\ Run \cap Worker = {}
          /\ r \notin Worker /\ Of[r] \in Worker
      OBVIOUS
    <2>3. CASE Ask(r)
      <3>1. CASE there
        BY <2>1, <2>3, <3>1 DEF Ask, FileInv
      <3>2. CASE ~there
        <4>1. /\ fd' = Moved(Of[r], Unlinked) /\ exists' = exists \ {Of[r]}
              /\ queue' = [queue EXCEPT ![Of[r]] = {}]
              /\ at[r] = "ask" /\ at' = [at EXCEPT ![r] = "over"]
          BY <2>3, <3>2 DEF Ask
        <4>2. \A w \in Worker \ exists' : queue'[w] = {}
          BY <2>2, <4>1 DEF FileInv
        <4>3. \A q \in Run : fd'[q] = IF fd[q] = Of[r] THEN Unlinked ELSE fd[q]
          BY <4>1 DEF Moved
        <4>4. \A q \in Run : fd[q] # NoFile => q # r
          BY <4>1 DEF FileInv
        <4> QED BY <2>2, <4>1, <4>2, <4>3, <4>4 DEF FileInv
      <3> QED BY <3>1, <3>2
    <2>4. CASE RemoveClaim(r)
      BY <2>1, <2>2, <2>4 DEF RemoveClaim, Moved, FileInv
    <2>5. CASE Crash(r)
      BY <2>1, <2>2, <2>5 DEF Crash, FileInv
    <2> QED BY <2>3, <2>4, <2>5
  <1>4. PlacedInv'
    BY <1>1, <1>2 DEF PlacedInv
  <1>5. HandInv'
    BY DEF Ask, RemoveClaim, Crash, HandInv
  <1>6. ~Holding(r)' /\ \A q \in Run \ {r} : (Holding(q)' <=> Holding(q)) /\ Hand(q)' = Hand(q)
    BY DEF Ask, RemoveClaim, Crash, Holding, Hand
  <1>7. OnePlace'
    <2>1. \A q \in Run : Holding(q)' => Holding(q) /\ Hand(q)' = Hand(q)
      BY <1>6
    <2> QED BY <1>2, <2>1 DEF OnePlace
  <1> QED BY <1>1, <1>3, <1>4, <1>5, <1>7

-----------------------------------------------------------------------------
(* The outbox *)

\* What Status says of an entry.
LEMMA StatusIs ==
  \A e \in Run :
    Status[e] = IF ~Written(e) THEN "new"
                ELSE IF Told(e) THEN "told"
                ELSE IF Waiting(e) THEN "owed"
                ELSE IF e \in Excuse THEN "dropped" ELSE "lost"
  BY DEF Status, Excuse

\* An entry waits or was told only if it was written.
LEMMA OnlyWritten ==
  ASSUME TypeOK, PlacedInv, NEW e \in Run, Waiting(e) \/ Told(e)
  PROVE  Written(e)
  <1>1. CASE Waiting(e)
    BY <1>1 DEF Waiting, Hand, PlacedInv, TypeOK
  <1>2. CASE Told(e)
    BY <1>2, SaidBy DEF Told, Saying, PlacedInv
  <1> QED BY <1>1, <1>2

\* A step that says nothing, and after which nothing waits that did not before, is
\* one of the outbox: what it makes an end to has an excuse.
LetsGo ==
  /\ \A e \in Run : Saying(e)' = Saying(e) /\ (Told(e)' <=> Told(e))
  /\ \A e \in Run : (Written(e) => Written(e)') /\ (Waiting(e)' => Waiting(e))
  /\ \A e \in Run : Written(e)' /\ (~Written(e) \/ Waiting(e)) /\ ~Waiting(e)' => e \in Excuse'
  /\ Excuse \subseteq Excuse'

LEMMA LetGoStep ==
  ASSUME TypeOK, PlacedInv, OwedInv, LetsGo
  PROVE  OwedInv' /\ Box!Next
  <1>1. OwedInv'
    BY DEF OwedInv, LetsGo
  <1>2. UNCHANGED Calls
    BY DEF Calls, LetsGo
  <1> DEFINE S == {e \in Run : Status'[e] # Status[e]}
  <1>3. ASSUME NEW e \in S PROVE Status[e] \in {"new", "owed"} /\ Status'[e] = "dropped" /\ e \in Excuse'
    <2>1. Status'[e] = IF ~Written(e)' THEN "new"
                       ELSE IF Told(e)' THEN "told"
                       ELSE IF Waiting(e)' THEN "owed"
                       ELSE IF e \in Excuse' THEN "dropped" ELSE "lost"
      BY DEF Status, Excuse
    <2>2. Waiting(e) \/ Told(e) => Written(e)
      BY OnlyWritten
    <2> QED BY <1>3, <2>1, <2>2, StatusIs DEF LetsGo, OwedInv
  <1>4. Status' = [e \in Run |-> IF e \in S THEN "dropped" ELSE Status[e]]
    <2>1. Status' = [e \in Run |-> Status'[e]]
      BY DEF Status
    <2> QED BY <2>1, <1>3
  <1>5. S \in SUBSET (Box!In("new") \cup Box!In("owed"))
    BY <1>3 DEF Box!In
  <1>6. S \subseteq Excuse'
    BY <1>3
  <1> HIDE DEF S
  <1>7. Box!LetGo
    BY <1>2, <1>4, <1>5, <1>6 DEF Box!LetGo, Box!Becomes
  <1> QED BY <1>1, <1>7 DEF Box!Next, LetsGo

\* Steps that leave every entry where it is.
Leaves ==
  /\ UNCHANGED <<queue, claimed, kept, said>> /\ Excuse \subseteq Excuse'
  /\ \A q \in Run : (Holding(q)' <=> Holding(q)) /\ (at'[q] = "read" <=> at[q] = "read")
  /\ \A e \in Run : Written(e)' <=> Written(e)

LEMMA LeavesLetsGo == ASSUME TypeOK, SaidInv, PlacedInv, Leaves PROVE LetsGo
  <1>1. \A e \in Run : Saying(e)' = Saying(e) /\ (Told(e)' <=> Told(e))
    BY SaidStays DEF Leaves
  <1>2. \A e \in Run : Waiting(e)' <=> Waiting(e)
    BY DEF Leaves, Waiting, Hand
  <1> QED BY <1>1, <1>2, OnlyWritten DEF LetsGo, Leaves

LEMMA QuietLeaves ==
  ASSUME TypeOK, NEW r \in Run,
         \/ Append_(r) \/ Requeue(r) \/ AskFails(r) \/ Peek(r) \/ Wait(r) \/ Type(r)
         \/ Check(r) \/ (Enter(r) /\ UNCHANGED <<composer, busy, history>> /\ GoTo(r, "requeue"))
  PROVE  Leaves
  <1> USE DEF GoTo, TypeOK, Labels, Leaves, Written, Holding, Excuse
  <1>1. CASE Append_(r) \/ Requeue(r)
    BY <1>1 DEF Append_, Requeue, OpenQueue, history
  <1>2. CASE AskFails(r) \/ Peek(r) \/ Wait(r)
    BY <1>2 DEF AskFails, Peek, Wait, fileVars, history
  <1>3. CASE Type(r) \/ Check(r)
    BY <1>3 DEF Type, Check, fileVars, history
  <1>4. CASE Enter(r) /\ UNCHANGED <<composer, busy, history>> /\ GoTo(r, "requeue")
    BY <1>4 DEF Enter, fileVars, history
  <1> QED BY <1>1, <1>2, <1>3, <1>4

LEMMA WorldLeaves == ASSUME TypeOK, Environment \/ UNCHANGED vars PROVE Leaves
  <1>1. UNCHANGED <<at, queue, claimed, kept, said, excused>> /\ old \subseteq old'
    BY DEF Environment, HumanTypes, HumanEmpties, TurnEnds, PaneReused, Ages, World, vars,
           fileVars, history
  <1> QED BY <1>1 DEF Leaves, Written, Holding, Excuse

\* Handing a queue over, reading it, letting it go and dying with it.
LEMMA MoveLetsGo ==
  ASSUME TypeOK, SaidInv, PlaceInv, NEW r \in Run,
         Claim(r) \/ ReadClaim(r) \/ RemoveClaim(r) \/ Ask(r) \/ Crash(r)
  PROVE  LetsGo
  <1> USE DEF TypeOK, GoTo, Labels
  <1>1. \A e \in Run : Saying(e)' = Saying(e) /\ (Told(e)' <=> Told(e))
    <2>1. UNCHANGED said /\ \A q \in Run : at[q] # "read" => kept'[q] = kept[q]
      BY DEF Claim, ReadClaim, RemoveClaim, Ask, Crash, history
    <2> QED BY <2>1, SaidStays
  <1>2. \A e \in Run : Written(e)' <=> Written(e) \/ (Crash(r) /\ at[r] = "write" /\ e = r)
    BY DEF Claim, ReadClaim, RemoveClaim, Ask, Crash, Written
  <1>3. Excuse \subseteq Excuse'
    BY DEF Claim, ReadClaim, RemoveClaim, Ask, Crash, history, Excuse
  <1>4. \A e \in Run : ~Written(e) => ~Waiting(e)
    BY OnlyWritten DEF PlaceInv
  <1>5. \A e \in Run : Of[e] \in Worker
    OBVIOUS
  <1>6. \A q \in Run \ {r} : (Holding(q)' <=> Holding(q)) /\ Hand(q)' = Hand(q)
    BY DEF Claim, ReadClaim, RemoveClaim, Ask, Crash, Holding, Hand, fileVars
  <1> SUFFICES ASSUME NEW e \in Run
               PROVE  /\ Waiting(e)' => Waiting(e)
                      /\ Waiting(e) /\ ~Waiting(e)' => e \in Excuse'
                      /\ Crash(r) /\ at[r] = "write" => r \in Excuse'
    BY <1>1, <1>2, <1>3, <1>4 DEF LetsGo
  <1> DEFINE others == \E q \in Run \ {r} : Holding(q) /\ e \in Hand(q)
  <1>w. /\ Waiting(e) <=> e \in queue[Of[e]] \/ (Holding(r) /\ e \in Hand(r)) \/ others
        /\ Waiting(e)' <=> e \in queue'[Of[e]] \/ (Holding(r)' /\ e \in Hand(r)') \/ others
    <2>1. Waiting(e) <=> e \in queue[Of[e]] \/ (Holding(r) /\ e \in Hand(r)) \/ others
      BY DEF Waiting
    <2>2. Waiting(e)' <=> e \in queue'[Of[e]] \/ \E q \in Run : Holding(q)' /\ e \in Hand(q)'
      BY DEF Waiting
    <2> QED BY <1>6, <2>1, <2>2
  <1> HIDE DEF others
  <1>7. Crash(r) /\ at[r] = "write" => r \in Excuse'
    BY DEF Crash, Excuse
  <1>8. CASE Claim(r)
    <2>1. CASE Of[r] \in exists
      <3>1. /\ ~Holding(r) /\ Holding(r)' /\ Hand(r)' = queue[Of[r]]
            /\ queue' = [queue EXCEPT ![Of[r]] = {}]
        BY <1>8, <2>1 DEF Claim, Holding, Hand
      <3>2. \A x \in queue[Of[r]] : Of[x] = Of[r]
        BY DEF PlaceInv, PlacedInv
      <3>3. Waiting(e)' <=> Waiting(e)
        BY <1>5, <1>w, <3>1, <3>2
      <3> QED BY <1>7, <3>3
    <2>2. CASE Of[r] \notin exists
      <3>1. ~Holding(r) /\ ~Holding(r)' /\ UNCHANGED queue
        BY <1>8, <2>2 DEF Claim, Holding, fileVars
      <3>2. Waiting(e)' <=> Waiting(e)
        BY <1>w, <3>1
      <3> QED BY <1>7, <3>2
    <2> QED BY <2>1, <2>2
  <1>9. CASE ReadClaim(r)
    <2>1. /\ Holding(r) /\ Hand(r) = claimed[r] /\ UNCHANGED <<queue, old, excused>>
          /\ Holding(r)' => Hand(r)' = claimed[r] \ old
          /\ ~Holding(r)' => claimed[r] \subseteq old
      BY <1>9 DEF ReadClaim, Holding, Hand, fileVars, history
    <2> QED BY <1>w, <1>7, <2>1 DEF Excuse
  <1>10. CASE RemoveClaim(r)
    <2>1. ~Holding(r) /\ ~Holding(r)' /\ UNCHANGED queue
      BY <1>10 DEF RemoveClaim, Holding
    <2> QED BY <1>w, <1>7, <2>1
  <1>11. CASE Ask(r)
    <2>1. /\ ~Holding(r) /\ ~Holding(r)'
          /\ \A w \in Worker : queue'[w] = queue[w] \/ (queue'[w] = {} /\ queue[w] \subseteq excused')
      BY <1>11 DEF Ask, Holding
    <2> QED BY <1>5, <1>w, <1>7, <2>1 DEF Excuse
  <1>12. CASE Crash(r)
    <2>1. ~Holding(r)' /\ UNCHANGED queue /\ (Holding(r) => Hand(r) \subseteq excused')
      BY <1>12 DEF Crash, Holding, Hand, PlaceInv, HandInv
    <2> QED BY <1>w, <1>7, <2>1 DEF Excuse
  <1> QED BY <1>8, <1>9, <1>10, <1>11, <1>12

\* What a process writes waits, or has an excuse; nothing else is touched.
Writes(r, entries) ==
  /\ \A e \in Run \ entries : Waiting(e)' <=> Waiting(e)
  /\ \A e \in entries : Waiting(e)' \/ e \in Excuse'
  /\ Excuse \subseteq Excuse'

LEMMA WhatWrites ==
  ASSUME TypeOK, PlaceInv, NEW r \in Run, NEW entries \in SUBSET Run,
         \/ WriteEntry(r) /\ entries = {r}
         \/ PutBack(r) /\ entries = kept[r]
  PROVE  Writes(r, entries)
  <1> USE DEF TypeOK, PlaceInv, GoTo, Labels
  <1>1. /\ at[r] \in {"write", "putback"} /\ UNCHANGED <<kept, old>> /\ WriteTo(r, entries)
        /\ \E l \in {"ask", "remove"} : at' = [at EXCEPT ![r] = l]
        /\ Holding(r) => at[r] = "putback" /\ Hand(r) = entries
    BY DEF WriteEntry, PutBack, Hand, Holding
  <1>2. /\ queue' = IF fd[r] \in Worker THEN [queue EXCEPT ![fd[r]] = @ \cup entries] ELSE queue
        /\ claimed' = IF fd[r] \in Run THEN [claimed EXCEPT ![fd[r]] = @ \cup entries] ELSE claimed
        /\ excused' = IF fd[r] \in Worker \/ (fd[r] \in Run /\ at[fd[r]] = "read") THEN excused
                      ELSE excused \cup entries
    BY <1>1 DEF WriteTo
  <1>3. ~Holding(r)' /\ \A q \in Run \ {r} :
          /\ Holding(q)' <=> Holding(q)
          /\ Hand(q)' = IF q = fd[r] /\ at[q] = "read" THEN Hand(q) \cup entries ELSE Hand(q)
    <2>1. at'[r] \in {"ask", "remove"} /\ \A q \in Run \ {r} : at'[q] = at[q]
      BY <1>1
    <2>2. \A q \in Run : claimed'[q] = IF q = fd[r] THEN claimed[q] \cup entries ELSE claimed[q]
      BY <1>2
    <2> QED BY <1>1, <2>1, <2>2 DEF Holding, Hand
  <1>4. \A e \in Run : Of[e] \in Worker
    OBVIOUS
  <1>5. \A e \in entries : Of[e] = Of[r]
    BY DEF WriteEntry, PutBack, PlacedInv
  <1>6. ASSUME NEW e \in Run \ entries PROVE Waiting(e)' <=> Waiting(e)
    <2>1. e \in queue'[Of[e]] <=> e \in queue[Of[e]]
      BY <1>2, <1>4
    <2>2. \A q \in Run : Holding(q)' /\ e \in Hand(q)' <=> Holding(q) /\ e \in Hand(q)
      BY <1>1, <1>3
    <2> QED BY <2>1, <2>2 DEF Waiting
  <1>7. ASSUME NEW e \in entries PROVE Waiting(e)' \/ e \in Excuse'
    <2>1. CASE fd[r] \in Worker
      <3>1. e \in queue'[Of[e]]
        BY <1>2, <1>5, <2>1 DEF FileInv
      <3> QED BY <3>1 DEF Waiting
    <2>2. CASE fd[r] \in Run /\ at[fd[r]] = "read"
      <3>1. PICK q \in Run : q = fd[r]
        BY <2>2
      <3>2. q # r /\ Holding(q)
        BY <1>1, <2>2, <3>1 DEF Holding
      <3>3. Holding(q)' /\ e \in Hand(q)'
        BY <1>3, <2>2, <3>1, <3>2
      <3> QED BY <3>3 DEF Waiting
    <2>3. CASE ~(fd[r] \in Worker \/ (fd[r] \in Run /\ at[fd[r]] = "read"))
      BY <1>2, <2>3 DEF Excuse
    <2> QED BY <2>1, <2>2, <2>3
  <1>8. Excuse \subseteq Excuse'
    BY <1>1, <1>2 DEF Excuse
  <1> QED BY <1>6, <1>7, <1>8 DEF Writes

LEMMA PutBackLetsGo ==
  ASSUME TypeOK, SaidInv, PlaceInv, NEW r \in Run, PutBack(r)
  PROVE  LetsGo
  <1>1. Writes(r, kept[r]) /\ kept[r] \subseteq Run
    BY WhatWrites DEF TypeOK
  <1>2. \A e \in Run : Saying(e)' = Saying(e) /\ (Told(e)' <=> Told(e))
    BY SaidStays DEF PutBack
  <1>3. \A e \in Run : Written(e)' <=> Written(e)
    BY DEF PutBack, Written, GoTo, TypeOK
  <1>4. \A e \in kept[r] : Waiting(e)
    BY DEF PutBack, Waiting, Holding, Hand
  <1>5. \A e \in Run : ~Written(e) => ~Waiting(e)
    BY OnlyWritten DEF PlaceInv
  <1> QED BY <1>1, <1>2, <1>3, <1>4, <1>5 DEF LetsGo, Writes

\* The first write puts the entry into the box, or lets it go unheard of.
LEMMA WriteStep ==
  ASSUME TypeOK, SaidInv, PlaceInv, OwedInv, NEW r \in Run, WriteEntry(r)
  PROVE  OwedInv' /\ Box!Next
  <1>1. Writes(r, {r})
    BY WhatWrites
  <1>2. \A e \in Run : Saying(e)' = Saying(e) /\ (Told(e)' <=> Told(e))
    BY SaidStays DEF WriteEntry
  <1>3. ~Written(r) /\ \A e \in Run : Written(e)' <=> Written(e) \/ e = r
    BY DEF WriteEntry, Written, GoTo, TypeOK
  <1>4. ~Waiting(r) /\ ~Told(r)
    BY <1>3, OnlyWritten DEF PlaceInv
  <1>5. CASE ~Waiting(r)'
    <2>1. LetsGo
      BY <1>1, <1>2, <1>3, <1>4, <1>5 DEF LetsGo, Writes
    <2> QED BY <2>1, LetGoStep DEF PlaceInv
  <1>6. CASE Waiting(r)'
    <2>1. OwedInv'
      BY <1>1, <1>2, <1>3, <1>4, <1>6 DEF OwedInv, Writes
    <2>2. UNCHANGED Calls
      BY <1>2 DEF Calls
    <2>3. Status[r] = "new" /\ Status'[r] = "owed"
      BY <1>2, <1>3, <1>4, <1>6 DEF Status
    <2>4. ASSUME NEW e \in Run \ {r} PROVE Status'[e] = Status[e]
      <3>1. Status'[e] = IF ~Written(e)' THEN "new"
                         ELSE IF Told(e)' THEN "told"
                         ELSE IF Waiting(e)' THEN "owed"
                         ELSE IF e \in Excuse' THEN "dropped" ELSE "lost"
        BY DEF Status, Excuse
      <3>2. (Written(e)' <=> Written(e)) /\ (Told(e)' <=> Told(e)) /\ (Waiting(e)' <=> Waiting(e))
        BY <1>1, <1>2, <1>3 DEF Writes
      <3>3. e \in Excuse => e \in Excuse'
        BY <1>1 DEF Writes
      <3> QED BY <3>1, <3>2, <3>3, StatusIs DEF OwedInv
    <2>5. Status' = [e \in Run |-> IF e \in {r} THEN "owed" ELSE Status[e]]
      <3>1. Status' = [e \in Run |-> Status'[e]]
        BY DEF Status
      <3> QED BY <3>1, <2>3, <2>4
    <2>6. Box!Queue
      BY <2>2, <2>3, <2>5 DEF Box!Queue, Box!In, Box!Becomes
    <2> QED BY <1>1, <2>1, <2>6 DEF Box!Next, Writes
  <1> QED BY <1>5, <1>6

LEMMA OneMoreCall ==
  ASSUME TypeOK, NEW e \in Run, NEW n, n \notin DOMAIN said
  PROVE  Cardinality(Saying(e) \cup {n}) = Cardinality(Saying(e)) + 1
  <1>1. DOMAIN said = 1..Len(said) /\ Len(said) \in Nat
    BY DEF TypeOK
  <1>2. IsFiniteSet(1..Len(said))
    BY <1>1, FS_Interval
  <1>3. IsFiniteSet(Saying(e))
    BY <1>1, <1>2, FS_Subset DEF Saying
  <1>4. n \notin Saying(e)
    BY DEF Saying
  <1> QED BY <1>3, <1>4, FS_AddElement

\* The key tells the outbox's entries, or lets go of a line that was spoiled.
LEMMA EnterStep ==
  ASSUME LineInv, PlaceInv, OwedInv, NEW r \in Run, Enter(r),
         NEW heard \in BOOLEAN, Submit(r, heard),
         GoTo(r, IF heard THEN "remove" ELSE "requeue")
  PROVE  OwedInv' /\ Box!Next
  <1> USE DEF LineInv
  <1>1. /\ UNCHANGED <<queue, claimed, kept, old>> /\ at[r] = "enter"
        /\ excused' = (IF r \in slipped THEN excused \cup kept[r] ELSE excused)
        /\ r \in slipped \/ composer = <<kept[r]>>
    BY DEF Enter, Submit, EnterInv, fileVars
  <1>2. kept[r] \subseteq Run /\ kept[r] # {}
    BY <1>1 DEF PlaceInv, HandInv, TypeOK
  <1>3. \A e \in Run : Written(e)' <=> Written(e)
    BY <1>1 DEF Written, GoTo, TypeOK
  <1>4. \A e \in kept[r] : Waiting(e) /\ ~Told(e) /\ Written(e)
    <2>1. \A e \in kept[r] : Waiting(e)
      BY <1>1 DEF Waiting, Holding, Hand
    <2> QED BY <1>2, <2>1, OnlyWritten DEF OwedInv, PlaceInv
  <1>5. \A e \in Run : Waiting(e)' <=> Waiting(e) /\ ~(heard /\ e \in kept[r])
    <2>1. \A q \in Run \ {r} : (Holding(q)' <=> Holding(q)) /\ Hand(q)' = Hand(q)
      BY <1>1 DEF Holding, Hand, GoTo, TypeOK
    <2>2. Holding(r) /\ Hand(r) = kept[r] /\ (Holding(r)' <=> ~heard) /\ Hand(r)' = kept[r]
      BY <1>1 DEF Holding, Hand, GoTo, TypeOK, Labels
    <2>3. ASSUME NEW e \in kept[r], heard PROVE ~Waiting(e)'
      <3>1. e \notin queue'[Of[e]]
        BY <1>1, <1>2, <2>2 DEF PlaceInv, OnePlace
      <3>2. \A q \in Run : Holding(q)' => e \notin Hand(q)'
        BY <2>1, <2>2, <2>3 DEF PlaceInv, OnePlace
      <3> QED BY <3>1, <3>2 DEF Waiting
    <2>4. ASSUME NEW e \in Run, ~(heard /\ e \in kept[r]) PROVE Waiting(e)' <=> Waiting(e)
      <3>1. \A q \in Run : Holding(q)' /\ e \in Hand(q)' <=> Holding(q) /\ e \in Hand(q)
        BY <2>1, <2>2, <2>4
      <3> QED BY <1>1, <3>1 DEF Waiting
    <2> QED BY <1>2, <2>3, <2>4
  <1>6. Excuse \subseteq Excuse' /\ \A e \in Excuse' \ Excuse : e \in kept[r]
    BY <1>1 DEF Excuse
  <1>7. PICK n \in Nat : Grows(n, r, heard)
    BY <1>1, SaidGrows
  <1>8. CASE composer = <<kept[r]>>
    <2>1. /\ \A e \in Run : Saying(e)' = Saying(e) \cup (IF e \in kept[r] THEN {n} ELSE {})
          /\ \A e \in Run : Told(e)' <=> Told(e) \/ (heard /\ e \in kept[r])
      BY <1>7, <1>8 DEF Grows
    <2>2. OwedInv'
      BY <1>3, <1>5, <1>6, <2>1 DEF OwedInv
    <2>3. Calls' = [e \in Run |-> IF e \in kept[r] THEN Calls[e] + 1 ELSE Calls[e]]
      <3>1. ASSUME NEW e \in Run
            PROVE  Cardinality(Saying(e)') = IF e \in kept[r] THEN Cardinality(Saying(e)) + 1
                                             ELSE Cardinality(Saying(e))
        BY <1>7, <2>1, OneMoreCall DEF Grows
      <3> QED BY <3>1 DEF Calls
    <2>4. ASSUME NEW e \in Run
          PROVE  Status'[e] = IF heard /\ e \in kept[r] THEN "told" ELSE Status[e]
      <3>1. Status'[e] = IF ~Written(e)' THEN "new"
                         ELSE IF Told(e)' THEN "told"
                         ELSE IF Waiting(e)' THEN "owed"
                         ELSE IF e \in Excuse' THEN "dropped" ELSE "lost"
        BY DEF Status, Excuse
      <3>2. CASE heard /\ e \in kept[r]
        BY <1>3, <1>4, <2>1, <3>1, <3>2
      <3>3. CASE ~(heard /\ e \in kept[r])
        <4>1. /\ Written(e)' <=> Written(e)
              /\ Told(e)' <=> Told(e)
              /\ Waiting(e)' <=> Waiting(e)
          BY <1>3, <1>5, <2>1, <3>3
        <4>2. ~Waiting(e) => (e \in Excuse' <=> e \in Excuse)
          BY <1>4, <1>6
        <4> QED BY <3>1, <3>3, <4>1, <4>2, StatusIs
      <3> QED BY <3>2, <3>3
    <2>5. \A e \in kept[r] : Status[e] = "owed"
      BY <1>2, <1>4, StatusIs
    <2>6. Box!Becomes(kept[r], "told") \/ UNCHANGED Status
      <3>1. Status' = [e \in Run |-> Status'[e]] /\ Status = [e \in Run |-> Status[e]]
        BY DEF Status
      <3>2. CASE heard
        <4>1. Status' = [e \in Run |-> IF e \in kept[r] THEN "told" ELSE Status[e]]
          BY <2>4, <3>1, <3>2
        <4> QED BY <4>1 DEF Box!Becomes
      <3>3. CASE ~heard
        <4>1. \A e \in Run : Status'[e] = Status[e]
          BY <2>4, <3>3
        <4> QED BY <3>1, <4>1
      <3> QED BY <3>2, <3>3
    <2>7. kept[r] \in (SUBSET Box!In("owed")) \ {{}}
      BY <1>2, <2>5 DEF Box!In
    <2>8. Box!Tell
      BY <2>3, <2>6, <2>7 DEF Box!Tell
    <2> QED BY <1>6, <2>2, <2>8 DEF Box!Next
  <1>9. CASE composer # <<kept[r]>>
    <2>1. \A e \in Run : Saying(e)' = Saying(e) /\ (Told(e)' <=> Told(e))
      BY <1>7, <1>9 DEF Grows
    <2>2. \A e \in kept[r] : e \in Excuse'
      BY <1>1, <1>9 DEF Excuse
    <2>3. \A e \in Run : ~Written(e) => ~Waiting(e)
      BY OnlyWritten DEF PlaceInv
    <2>4. LetsGo
      BY <1>3, <1>5, <1>6, <2>1, <2>2, <2>3 DEF LetsGo
    <2> QED BY <2>4, LetGoStep DEF PlaceInv
  <1> QED BY <1>8, <1>9

-----------------------------------------------------------------------------
\* Every step keeps the inductive invariant and is a step of the outbox.
LEMMA StepImplements ==
  ASSUME IInv, Next PROVE PlaceInv' /\ OwedInv' /\ Box!Next
  <1> USE DEF IInv, LineInv
  <1>1. ASSUME NEW r \in Run,
               \/ Append_(r) \/ Requeue(r) \/ AskFails(r) \/ Peek(r) \/ Wait(r) \/ Type(r)
               \/ Check(r) \/ (Enter(r) /\ UNCHANGED <<composer, busy, history>> /\ GoTo(r, "requeue"))
        PROVE  PlaceInv' /\ OwedInv' /\ Box!Next
    <2>1. PlaceInv'
      <3>1. CASE Append_(r) \/ Requeue(r)
        BY <3>1, PlaceOpen
      <3>2. CASE ~(Append_(r) \/ Requeue(r))
        <4>1. Elsewhere(r)
          BY <1>1, <3>2, ZenonT(60) DEF Elsewhere, AskFails, Peek, Wait, Type, Check, Enter, GoTo, fileVars,
                            Labels, Keeping
        <4> QED BY <4>1, PlaceElsewhere
      <3> QED BY <3>1, <3>2
    <2>2. Leaves
      BY <1>1, QuietLeaves
    <2> QED BY <2>1, <2>2, LeavesLetsGo, LetGoStep DEF PlaceInv
  <1>2. ASSUME NEW r \in Run, Claim(r) \/ ReadClaim(r) \/ RemoveClaim(r) \/ Ask(r) \/ Crash(r)
        PROVE  PlaceInv' /\ OwedInv' /\ Box!Next
    <2>1. PlaceInv'
      BY <1>2, PlaceClaim, PlaceRead, PlaceGone
    <2>2. LetsGo
      BY <1>2, MoveLetsGo
    <2> QED BY <2>1, <2>2, LetGoStep DEF PlaceInv
  <1>3. ASSUME NEW r \in Run, PutBack(r) PROVE PlaceInv' /\ OwedInv' /\ Box!Next
    <2>1. PlaceInv'
      BY <1>3, PlaceWrite
    <2>2. LetsGo
      BY <1>3, PutBackLetsGo
    <2> QED BY <2>1, <2>2, LetGoStep DEF PlaceInv
  <1>4. ASSUME NEW r \in Run, WriteEntry(r) PROVE PlaceInv' /\ OwedInv' /\ Box!Next
    BY <1>4, PlaceWrite, WriteStep
  <1>5. ASSUME NEW r \in Run, NEW heard \in BOOLEAN, Enter(r), Submit(r, heard),
               GoTo(r, IF heard THEN "remove" ELSE "requeue")
        PROVE  PlaceInv' /\ OwedInv' /\ Box!Next
    <2>1. Elsewhere(r)
      BY <1>5 DEF Elsewhere, Enter, fileVars, GoTo, Labels, Keeping
    <2> QED BY <1>5, <2>1, PlaceElsewhere, EnterStep
  <1>6. ASSUME NEW r \in Run, Enter(r) PROVE PlaceInv' /\ OwedInv' /\ Box!Next
    <2>1. CASE Submit(r, TRUE) /\ GoTo(r, "remove")
      BY <1>5, <1>6, <2>1
    <2>2. CASE Submit(r, FALSE) /\ GoTo(r, "requeue")
      BY <1>5, <1>6, <2>2
    <2>3. CASE UNCHANGED <<composer, busy, history>> /\ GoTo(r, "requeue")
      BY <1>1, <1>6, <2>3
    <2> QED BY <1>6, <2>1, <2>2, <2>3 DEF Enter
  <1>7. CASE Environment
    <2>1. Leaves
      BY <1>7, WorldLeaves
    <2>2. PlaceInv'
      <3>1. UNCHANGED <<at, fd, queue, exists, claimed, kept>>
        BY <1>7 DEF Environment, HumanTypes, HumanEmpties, TurnEnds, PaneReused, Ages, World, fileVars
      <3> QED BY <3>1 DEF PlaceInv, FileInv, PlacedInv, HandInv, OnePlace, Written, Holding, Hand
    <2> QED BY <2>1, <2>2, LeavesLetsGo, LetGoStep DEF PlaceInv
  <1> QED BY <1>1, <1>2, <1>3, <1>4, <1>6, <1>7 DEF Next, Step

LEMMA StutterImplements ==
  ASSUME IInv, UNCHANGED vars PROVE PlaceInv' /\ OwedInv' /\ UNCHANGED Box!vars
  <1>1. UNCHANGED <<at, fd, queue, exists, claimed, kept, said, old, excused>>
    BY DEF vars, fileVars, history
  <1>2. \A e \in Run : UNCHANGED <<Saying(e), Told(e), Waiting(e), Written(e)>>
    BY <1>1 DEF Saying, Exact, Told, Waiting, Holding, Hand, Written
  <1>3. PlaceInv'
    BY <1>1 DEF IInv, PlaceInv, FileInv, PlacedInv, HandInv, OnePlace, Written, Holding, Hand
  <1>4. OwedInv'
    BY <1>1, <1>2 DEF IInv, OwedInv, Excuse
  <1>5. UNCHANGED <<Status, Calls, Excuse>>
    BY <1>1, <1>2 DEF Status, Calls, Excuse
  <1> QED BY <1>3, <1>4, <1>5 DEF Box!vars

\* Where an entry is: in the queue or in one hand, waiting until it is told, and
\* missing only with an excuse.
THEOREM Accounted == Spec => []IInv
  <1>1. IInv /\ [Next]_vars => IInv'
    <2> SUFFICES ASSUME IInv, [Next]_vars PROVE IInv'
      OBVIOUS
    <2>1. LineInv'
      BY LineStep DEF IInv
    <2>2. PlaceInv' /\ OwedInv'
      BY StepImplements, StutterImplements
    <2> QED BY <2>1, <2>2 DEF IInv
  <1> QED BY <1>1, InitIInv, PTL DEF Spec

\* The queue files, their claims and the keys implement the outbox: every step of
\* every process, of the person at the coordinator and of the clock is one of the
\* outbox or leaves it as it is.
THEOREM QueueDelivers == Spec => Delivers
  <1>1. Init => Box!Init
    <2> SUFFICES ASSUME Init PROVE Box!Init
      OBVIOUS
    <2>1. \A e \in Run : Saying(e) = {} /\ ~Written(e)
      BY DEF Init, Saying, Written
    <2>2. Cardinality({}) = 0
      BY FS_EmptySet
    <2>3. Status = [e \in Run |-> "new"]
      BY <2>1 DEF Status
    <2>4. Calls = [e \in Run |-> 0]
      BY <2>1, <2>2 DEF Calls
    <2>5. Excuse = {}
      BY DEF Init, Excuse
    <2> QED BY <2>3, <2>4, <2>5 DEF Box!Init
  <1>2. IInv /\ [Next]_vars => [Box!Next]_(Box!vars)
    BY StepImplements, StutterImplements
  <1> QED BY <1>1, <1>2, Accounted, PTL DEF Spec, Delivers, Box!Spec

=============================================================================
