--------------------------- MODULE FeedbackProofs ---------------------------
(***************************************************************************)
(* Theorems about Feedback for any number of sessions, branches, pull        *)
(* requests, reviews and checks, every set of faults and all bounds: what is *)
(* marked as said was said, nothing is said twice that no mark was lost of,  *)
(* and the rounds of a pull request are kept.                                *)
(***************************************************************************)
EXTENDS Feedback, TLAPS

\* A record of a branch marks nothing that was not said, belongs to no later pull
\* request than there is, and counts no last round that was not announced.
Marks(b, s) ==
  s # NoSeen =>
    /\ \A i \in s.items : told[b][s.pr][i] > 0 \/ <<s.pr, i>> \in held[b]
    /\ {s.pr} \X s.failing \subseteq redTold[b]
    /\ s.pr <= last[b]
    /\ s.rounds >= MaxRounds => s.pr \in warned[b] \/ MaxRounds = 0

RecordsInv ==
  \A b \in Branch :
    /\ \A w \in Watcher : Marks(b, mem[w][b])
    /\ file \notin {NoFile, Torn} => Marks(b, file[b])
    /\ tmp \notin {NoFile, Torn} => Marks(b, tmp[b])

\* What a pass is about to type is about the pull request it looked at, and within the
\* rounds.
LookInv ==
  \A w \in Watcher : at[w] \in {"ask", "type"} =>
    LET b == row[w] p == look[w].pr IN
    /\ p \in 1..last[b]
    /\ mem[w][b] # NoSeen => mem[w][b].pr <= p
    /\ SeenOf(w, b, p).rounds < MaxRounds

\* Two passes at a time lose the marks of every branch.
AloneInv ==
  \A v, w \in Watcher : at[v] # "rest" /\ at[w] # "rest" => v = w \/ spoiled = Branch

\* A pass that is alone saves what it has in memory.
SaveInv ==
  spoiled # Branch => \A w \in Watcher :
    /\ at[w] = "write" => tmp = Torn /\ fd[w] = "tmp"
    /\ at[w] = "rename" => tmp = mem[w]

\* A record that has everything that was typed at the worker of b.
Covers(b, s) ==
  \A p \in PR :
    notices[b][p] > 0 \/ (\E i \in Item : told[b][p][i] > 0) =>
      /\ s # NoSeen /\ p <= s.pr
      /\ s.pr = p => /\ notices[b][p] <= s.rounds
                     /\ \A i \in Item : told[b][p][i] > 0 => i \in s.items

\* The memory of the pass that runs has it, and so has the file until that pass types.
CoverInv ==
  \A b \in Branch \ (spoiled \cup forgotten) :
    /\ \A w \in Watcher : at[w] # "rest" => Covers(b, mem[w][b])
    /\ file # Torn /\ (\A w \in Watcher : at[w] # "rest" => b \notin typed[w]) =>
         Covers(b, IF file = NoFile THEN NoSeen ELSE file[b])

FreshInv == \A w \in Watcher : at[w] = "rows" => typed[w] = {}

OnceInv ==
  \A b \in Branch \ (spoiled \cup forgotten) : \A p \in PR :
    notices[b][p] <= MaxRounds /\ \A i \in Item : told[b][p][i] <= 1

HeldInv == \A b \in Branch : \A h \in held[b] : h[1] \in warned[b] \/ MaxRounds = 0

IInv ==
  /\ TypeOK /\ RecordsInv /\ LookInv /\ AloneInv /\ SaveInv
  /\ CoverInv /\ FreshInv /\ OnceInv /\ HeldInv

LEMMA Bounds == NoSeen \notin Seen /\ MaxRounds \in Nat /\ MaxPR \in Nat \ {0} /\ MaxEvents \in Nat /\ NoFile # Torn
  BY FeedbackAssumption DEF FeedbackAssumption

USE Bounds

-----------------------------------------------------------------------------
(* What the steps have in common *)

Actions(w) ==
  Load(w) \/ Rows(w) \/ LookupFails(w) \/ Lookup(w) \/ AskAgent(w) \/ Type(w) \/ Submit(w)
    \/ OpenTmp(w) \/ WriteTmp(w) \/ Rename(w) \/ Crash(w)

\* A step of w leaves the other passes where they are.
Apart(w) ==
  \A v \in Watcher : v # w =>
    /\ at'[v] = at[v] /\ mem'[v] = mem[v] /\ row'[v] = row[v] /\ look'[v] = look[v]
    /\ typed'[v] = typed[v]

LEMMA StepsApart == ASSUME TypeOK, NEW w \in Watcher, Actions(w) PROVE Apart(w)
  <1> USE DEF TypeOK, Apart, GoTo, history, saidVars, fileVars, prVars
  <1>1. CASE Load(w) \/ Rows(w) \/ LookupFails(w) \/ AskAgent(w) \/ Submit(w)
    BY <1>1 DEF Load, Rows, LookupFails, AskAgent, Submit
  <1>2. CASE Lookup(w)
    BY <1>2 DEF Lookup, NoneOpen, Nothing, Capped, News
  <1>3. CASE Type(w)
    BY <1>3 DEF Type, Say
  <1>4. CASE OpenTmp(w) \/ WriteTmp(w) \/ Rename(w) \/ Crash(w)
    BY <1>4 DEF OpenTmp, WriteTmp, Rename, Crash
  <1> QED BY <1>1, <1>2, <1>3, <1>4 DEF Actions

\* What the record of b may become when a pass finds nothing new, or holds it back.
LEMMA MarkedIs ==
  ASSUME NEW seen \in Seen, NEW l \in [pr : 0..MaxPR, items : SUBSET Item, failing : SUBSET Check]
  PROVE  /\ Marked(seen, l) \in Seen
         /\ Marked(seen, l).pr = seen.pr /\ Marked(seen, l).rounds = seen.rounds
         /\ Marked(seen, l).items = seen.items \cup l.items
         /\ Marked(seen, l).failing = l.failing
         /\ seen.rounds < MaxRounds =>
              /\ [Marked(seen, l) EXCEPT !.rounds = @ + 1] \in Seen
              /\ [Marked(seen, l) EXCEPT !.rounds = @ + 1].pr = seen.pr
              /\ [Marked(seen, l) EXCEPT !.rounds = @ + 1].rounds = seen.rounds + 1
              /\ [Marked(seen, l) EXCEPT !.rounds = @ + 1].items = seen.items \cup l.items
              /\ [Marked(seen, l) EXCEPT !.rounds = @ + 1].failing = l.failing
  <1>1. /\ Marked(seen, l) \in Seen
        /\ Marked(seen, l).pr = seen.pr /\ Marked(seen, l).rounds = seen.rounds
        /\ Marked(seen, l).items = seen.items \cup l.items
        /\ Marked(seen, l).failing = l.failing
    BY DEF Marked, Seen
  <1>2. ASSUME NEW m \in Seen, m.rounds < MaxRounds
        PROVE  LET n == [m EXCEPT !.rounds = @ + 1] IN
               /\ n \in Seen /\ n.pr = m.pr /\ n.items = m.items /\ n.failing = m.failing
               /\ n.rounds = m.rounds + 1
    BY <1>2 DEF Seen
  <1> QED BY <1>1, <1>2

LEMMA SeenIs ==
  ASSUME TypeOK, NEW w \in Watcher, NEW b \in Branch, NEW p \in PR
  PROVE  /\ SeenOf(w, b, p) \in Seen /\ SeenOf(w, b, p).pr = p
         /\ \/ mem[w][b] # NoSeen /\ mem[w][b].pr = p /\ SeenOf(w, b, p) = mem[w][b]
            \/ /\ ~(mem[w][b] # NoSeen /\ mem[w][b].pr = p)
               /\ SeenOf(w, b, p) = [pr |-> p, items |-> {}, failing |-> {}, rounds |-> 0]
  BY DEF TypeOK, State, SeenOf, Seen

\* A lookup changes the record of one branch, to one that marks what was found, and
\* holds back what is past the cap.
LookedAt(w, b, l) ==
  LET seen == SeenOf(w, b, l.pr) IN
  /\ l = [pr |-> open[b], items |-> posted[b], failing |-> red[b]]
  /\ at[w] = "look"
  /\ row' = [row EXCEPT ![w] = b] /\ look' = [look EXCEPT ![w] = l]
  /\ UNCHANGED <<fileVars, prVars, prompt, events, typed, spoiled, told, notices, warned>>
  /\ todo' = [todo EXCEPT ![w] = @ \ {b}]
  /\ \/ /\ l.pr = 0 /\ UNCHANGED <<at, held, redTold>>
        /\ mem' = [mem EXCEPT ![w] = [mem[w] EXCEPT ![b] = NoSeen]]
        /\ forgotten' = forgotten \cup {b}
     \/ /\ l.pr # 0 /\ NoNews(seen, l) /\ UNCHANGED <<at, forgotten, held, redTold>>
        /\ mem' = [mem EXCEPT ![w] = [mem[w] EXCEPT ![b] = Marked(seen, l)]]
     \/ /\ l.pr # 0 /\ seen.rounds >= MaxRounds /\ UNCHANGED <<at, forgotten>>
        /\ mem' = [mem EXCEPT ![w] = [mem[w] EXCEPT ![b] = Marked(seen, l)]]
        /\ held' = [held EXCEPT ![b] = @ \cup ({l.pr} \X NewsItems(seen, l.items))]
        /\ redTold' = [redTold EXCEPT ![b] = @ \cup ({l.pr} \X NewsRed(seen, l.failing))]
     \/ /\ l.pr # 0 /\ seen.rounds < MaxRounds
        /\ at' = [at EXCEPT ![w] = "ask"]
        /\ UNCHANGED <<mem, held, redTold, forgotten>>

LEMMA LookupIs ==
  ASSUME TypeOK, NEW w \in Watcher, Lookup(w)
  PROVE  \E b \in Branch : \E l \in [pr : 0..MaxPR, items : SUBSET Item, failing : SUBSET Check] :
           LookedAt(w, b, l)
  <1>1. PICK b \in todo[w] :
          /\ todo' = [todo EXCEPT ![w] = @ \ {b}]
          /\ row' = [row EXCEPT ![w] = b]
          /\ look' = [look EXCEPT ![w] = [pr |-> open[b], items |-> posted[b], failing |-> red[b]]]
          /\ NoneOpen(w, b) \/ Nothing(w, b) \/ Capped(w, b) \/ News(w, b)
    BY DEF Lookup
  <1> DEFINE l == [pr |-> open[b], items |-> posted[b], failing |-> red[b]]
  <1>2. b \in Branch
    BY DEF TypeOK
  <1>3. l \in [pr : 0..MaxPR, items : SUBSET Item, failing : SUBSET Check]
    BY <1>2 DEF TypeOK
  <1>4. look' = [look EXCEPT ![w] = l] /\ look'[w] = l
    BY <1>1 DEF TypeOK
  <1> HIDE DEF l
  <1>5. LookedAt(w, b, l)
    <2>1. /\ at[w] = "look"
          /\ UNCHANGED <<fileVars, prVars, prompt, events, typed, spoiled>>
      BY DEF Lookup
    <2>2. CASE NoneOpen(w, b)
      BY <1>1, <1>4, <2>1, <2>2 DEF NoneOpen, LookedAt, saidVars, l
    <2>3. CASE Nothing(w, b)
      BY <1>1, <1>4, <2>1, <2>3 DEF Nothing, LookedAt, saidVars, l
    <2>4. CASE Capped(w, b)
      BY <1>1, <1>4, <2>1, <2>4 DEF Capped, LookedAt, l
    <2>5. CASE News(w, b)
      BY <1>1, <1>4, <2>1, <2>5 DEF News, LookedAt, saidVars, GoTo, l
    <2> QED BY <1>1, <2>2, <2>3, <2>4, <2>5
  <1> QED BY <1>2, <1>3, <1>5

\* A step that says something to a worker.
Says(w) ==
  LET b == row[w] l == look[w] IN
  /\ at[w] = "type"
  /\ UNCHANGED <<todo, row, look, fileVars, prVars, prompt, forgotten>>
  /\ Say(w)
  /\ \/ /\ mem' = [mem EXCEPT ![w] = [mem[w] EXCEPT ![b] =
                     [Marked(SeenOf(w, b, l.pr), l) EXCEPT !.rounds = @ + 1]]]
        /\ at' = [at EXCEPT ![w] = "submit"] /\ UNCHANGED <<events, spoiled>>
     \/ /\ spoiled' = spoiled \cup {b} /\ UNCHANGED mem
        /\ at' = [at EXCEPT ![w] = "look"] /\ events' \in Nat

LEMMA TypeIs ==
  ASSUME TypeOK, NEW w \in Watcher, Type(w)
  PROVE  \/ Says(w)
         \/ /\ at[w] = "type" /\ at' = [at EXCEPT ![w] = "look"] /\ events' \in Nat
            /\ UNCHANGED <<mem, todo, row, look, fileVars, prVars, prompt, history>>
  BY DEF Type, Says, GoTo, Fault, Event, TypeOK, history

\* What it says, to whom, and that it may.
SaidHow(w, b, l, seen) ==
  /\ b \in Branch /\ l.pr \in PR /\ l.pr <= last[b]
  /\ l \in [pr : 0..MaxPR, items : SUBSET Item, failing : SUBSET Check]
  /\ seen \in Seen /\ seen.pr = l.pr /\ seen.rounds < MaxRounds
  /\ mem[w][b] # NoSeen => mem[w][b].pr <= l.pr
  /\ told' \in [Branch -> [PR -> [Item -> 0..2]]]
  /\ \A c \in Branch, q \in PR, i \in Item :
       told'[c][q][i] = IF c = b /\ q = l.pr /\ i \in NewsItems(seen, l.items) /\ told[c][q][i] < 2
                        THEN told[c][q][i] + 1 ELSE told[c][q][i]
  /\ notices' \in [Branch -> [PR -> 0..MaxRounds + 1]]
  /\ \A c \in Branch, q \in PR :
       notices'[c][q] = IF c = b /\ q = l.pr /\ notices[c][q] <= MaxRounds
                        THEN notices[c][q] + 1 ELSE notices[c][q]
  /\ warned' \in [Branch -> SUBSET PR]
  /\ \A c \in Branch : warned'[c] = IF c = b /\ seen.rounds + 1 >= MaxRounds
                                    THEN warned[c] \cup {l.pr} ELSE warned[c]
  /\ redTold' \in [Branch -> SUBSET (PR \X Check)]
  /\ \A c \in Branch : redTold'[c] = IF c = b THEN redTold[c] \cup ({l.pr} \X NewsRed(seen, l.failing))
                                     ELSE redTold[c]
  /\ typed' \in [Watcher -> SUBSET Branch] /\ typed'[w] = typed[w] \cup {b}
  /\ UNCHANGED held

LEMMA SayIs ==
  ASSUME TypeOK, LookInv, NEW w \in Watcher, Says(w)
  PROVE  SaidHow(w, row[w], look[w], SeenOf(w, row[w], look[w].pr))
  <1> DEFINE b == row[w]
             l == look[w]
             seen == SeenOf(w, b, l.pr)
  <1>1. b \in Branch /\ l \in [pr : 0..MaxPR, items : SUBSET Item, failing : SUBSET Check]
    BY DEF TypeOK
  <1>2. /\ l.pr \in 1..last[b] /\ seen.rounds < MaxRounds
        /\ mem[w][b] # NoSeen => mem[w][b].pr <= l.pr
    BY DEF LookInv, Says
  <1>3. l.pr \in PR /\ l.pr <= last[b]
    BY <1>1, <1>2 DEF TypeOK, PR
  <1>4. seen \in Seen /\ seen.pr = l.pr
    BY <1>1, <1>3, SeenIs
  <1> DEFINE news == NewsItems(seen, l.items)
             reds == NewsRed(seen, l.failing)
  <1>5. reds \subseteq Check
    BY <1>1 DEF NewsRed
  <1>6. /\ told' = [told EXCEPT ![b][l.pr] =
              [i \in Item |-> IF i \in news /\ told[b][l.pr][i] < 2 THEN told[b][l.pr][i] + 1
                              ELSE told[b][l.pr][i]]]
        /\ notices' = [notices EXCEPT ![b][l.pr] =
              IF notices[b][l.pr] <= MaxRounds THEN notices[b][l.pr] + 1 ELSE notices[b][l.pr]]
        /\ warned' = IF seen.rounds + 1 >= MaxRounds
                     THEN [warned EXCEPT ![b] = @ \cup {l.pr}] ELSE warned
        /\ redTold' = [redTold EXCEPT ![b] = @ \cup ({l.pr} \X reds)]
        /\ typed' = [typed EXCEPT ![w] = @ \cup {b}]
        /\ UNCHANGED held
    BY DEF Says, Say
  <1> HIDE DEF news, reds
  <1>7. /\ told' \in [Branch -> [PR -> [Item -> 0..2]]]
        /\ \A c \in Branch, q \in PR, i \in Item :
             told'[c][q][i] = IF c = b /\ q = l.pr /\ i \in news /\ told[c][q][i] < 2
                              THEN told[c][q][i] + 1 ELSE told[c][q][i]
    <2> DEFINE t == [i \in Item |-> IF i \in news /\ told[b][l.pr][i] < 2 THEN told[b][l.pr][i] + 1
                                    ELSE told[b][l.pr][i]]
    <2>1. told \in [Branch -> [PR -> [Item -> 0..2]]]
      BY DEF TypeOK
    <2>2. t \in [Item -> 0..2]
      BY <1>1, <1>3, <2>1
    <2>3. told' = [told EXCEPT ![b] = [told[b] EXCEPT ![l.pr] = t]]
      BY <1>6
    <2>4. \A i \in Item : t[i] = IF i \in news /\ told[b][l.pr][i] < 2 THEN told[b][l.pr][i] + 1
                                 ELSE told[b][l.pr][i]
      OBVIOUS
    <2> HIDE DEF t
    <2> QED BY <1>1, <1>3, <2>1, <2>2, <2>3, <2>4
  <1>8. /\ notices' \in [Branch -> [PR -> 0..MaxRounds + 1]]
        /\ \A c \in Branch, q \in PR :
             notices'[c][q] = IF c = b /\ q = l.pr /\ notices[c][q] <= MaxRounds
                              THEN notices[c][q] + 1 ELSE notices[c][q]
    BY <1>1, <1>3, <1>6 DEF TypeOK
  <1>9. /\ warned' \in [Branch -> SUBSET PR]
        /\ \A c \in Branch : warned'[c] = IF c = b /\ seen.rounds + 1 >= MaxRounds
                                          THEN warned[c] \cup {l.pr} ELSE warned[c]
    BY <1>1, <1>3, <1>6 DEF TypeOK
  <1>10. /\ redTold' \in [Branch -> SUBSET (PR \X Check)]
         /\ \A c \in Branch : redTold'[c] = IF c = b THEN redTold[c] \cup ({l.pr} \X reds) ELSE redTold[c]
    BY <1>1, <1>3, <1>5, <1>6 DEF TypeOK
  <1>11. typed' \in [Watcher -> SUBSET Branch] /\ typed'[w] = typed[w] \cup {b}
    BY <1>1, <1>6 DEF TypeOK
  <1> QED BY <1>1, <1>2, <1>3, <1>4, <1>6, <1>7, <1>8, <1>9, <1>10, <1>11 DEF news, reds, SaidHow

LEMMA Types ==
  ASSUME TypeOK, LookInv, [Next]_vars
  PROVE  TypeOK'
  <1>1. CASE UNCHANGED vars
    BY <1>1 DEF TypeOK, vars, passVars, fileVars, prVars, history, saidVars
  <1>2. ASSUME NEW w \in Watcher, Load(w) PROVE TypeOK'
    <2>1. mem' \in [Watcher -> State]
      <3>1. Empty \in State
        BY DEF Empty, State
      <3>2. file # NoFile => file \in State
        BY <1>2 DEF Load, TypeOK
      <3> QED BY <1>2, <3>1, <3>2 DEF Load, TypeOK
    <2> QED BY <1>2, <2>1 DEF Load, TypeOK, GoTo, fileVars, prVars, saidVars
  <1>3. ASSUME NEW w \in Watcher, Rows(w) \/ LookupFails(w) \/ AskAgent(w) \/ Submit(w) PROVE TypeOK'
    <2>1. UNCHANGED <<mem, row, look, fileVars, prVars, history>>
      BY <1>3 DEF Rows, LookupFails, AskAgent, Submit
    <2>2. at' \in [Watcher -> {"rest", "rows", "look", "ask", "type", "submit", "write", "rename"}]
      <3>1. at' = at \/ \E l \in {"rest", "look", "type"} : at' = [at EXCEPT ![w] = l]
        BY <1>3 DEF Rows, LookupFails, AskAgent, Submit, GoTo
      <3>2. at \in [Watcher -> {"rest", "rows", "look", "ask", "type", "submit", "write", "rename"}]
        BY DEF TypeOK
      <3> QED BY <3>1, <3>2
    <2>3. todo' \in [Watcher -> SUBSET Branch]
      <3>1. todo' = todo \/ todo' = [todo EXCEPT ![w] = Branch]
              \/ \E b \in todo[w] : todo' = [todo EXCEPT ![w] = @ \ {b}]
        BY <1>3 DEF Rows, LookupFails, AskAgent, Submit
      <3>2. todo \in [Watcher -> SUBSET Branch]
        BY DEF TypeOK
      <3> QED BY <3>1, <3>2
    <2>4. events' \in Nat /\ prompt' \subseteq Branch
      BY <1>3 DEF Rows, LookupFails, AskAgent, Submit, Fault, Event, TypeOK
    <2> QED BY <2>1, <2>2, <2>3, <2>4 DEF TypeOK, fileVars, prVars, saidVars, history
  <1>4. ASSUME NEW w \in Watcher, Lookup(w) PROVE TypeOK'
    <2>1. PICK b \in Branch, l \in [pr : 0..MaxPR, items : SUBSET Item, failing : SUBSET Check] :
            LookedAt(w, b, l)
      BY <1>4, LookupIs
    <2>2. row' \in [Watcher -> Branch] /\ todo' \in [Watcher -> SUBSET Branch]
          /\ look' \in [Watcher -> [pr : 0..MaxPR, items : SUBSET Item, failing : SUBSET Check]]
      BY <2>1 DEF LookedAt, TypeOK
    <2>3. at' \in [Watcher -> {"rest", "rows", "look", "ask", "type", "submit", "write", "rename"}]
          /\ forgotten' \subseteq Branch
      BY <2>1 DEF LookedAt, TypeOK
    <2>4. mem' \in [Watcher -> State]
      <3>1. mem[w] \in [Branch -> Seen \cup {NoSeen}] /\ mem \in [Watcher -> State]
        BY DEF TypeOK, State
      <3>2. l.pr # 0 => l.pr \in PR
        BY DEF PR
      <3>3. l.pr # 0 => Marked(SeenOf(w, b, l.pr), l) \in Seen
        BY <3>2, SeenIs, MarkedIs
      <3>4. mem' = mem \/ \E s \in Seen \cup {NoSeen} : mem' = [mem EXCEPT ![w] = [mem[w] EXCEPT ![b] = s]]
        BY <2>1, <3>3 DEF LookedAt
      <3>5. \A s \in Seen \cup {NoSeen} : [mem[w] EXCEPT ![b] = s] \in State
        BY <3>1 DEF State
      <3> QED BY <3>1, <3>4, <3>5
    <2>5. held' \in [Branch -> SUBSET (PR \X Item)] /\ redTold' \in [Branch -> SUBSET (PR \X Check)]
      <3>1. NewsItems(SeenOf(w, b, l.pr), l.items) \subseteq Item
            /\ NewsRed(SeenOf(w, b, l.pr), l.failing) \subseteq Check
        BY DEF NewsItems, NewsRed
      <3>2. l.pr # 0 => {l.pr} \X NewsItems(SeenOf(w, b, l.pr), l.items) \subseteq PR \X Item
                        /\ {l.pr} \X NewsRed(SeenOf(w, b, l.pr), l.failing) \subseteq PR \X Check
        BY <3>1 DEF PR
      <3>3. \/ UNCHANGED <<held, redTold>>
            \/ /\ l.pr # 0
               /\ held' = [held EXCEPT ![b] = @ \cup ({l.pr} \X NewsItems(SeenOf(w, b, l.pr), l.items))]
               /\ redTold' = [redTold EXCEPT ![b] =
                               @ \cup ({l.pr} \X NewsRed(SeenOf(w, b, l.pr), l.failing))]
        BY <2>1 DEF LookedAt
      <3>4. held \in [Branch -> SUBSET (PR \X Item)] /\ redTold \in [Branch -> SUBSET (PR \X Check)]
        BY DEF TypeOK
      <3> DEFINE I == {l.pr} \X NewsItems(SeenOf(w, b, l.pr), l.items)
                 R == {l.pr} \X NewsRed(SeenOf(w, b, l.pr), l.failing)
                 PI == PR \X Item
                 PC == PR \X Check
      <3> HIDE DEF I, R, PI, PC
      <3>5. \/ UNCHANGED <<held, redTold>>
            \/ /\ I \subseteq PI /\ R \subseteq PC
               /\ held' = [held EXCEPT ![b] = @ \cup I] /\ redTold' = [redTold EXCEPT ![b] = @ \cup R]
        BY <3>2, <3>3 DEF I, R, PI, PC
      <3>6. held \in [Branch -> SUBSET PI] /\ redTold \in [Branch -> SUBSET PC]
        BY <3>4 DEF PI, PC
      <3>7. held' \in [Branch -> SUBSET PI] /\ redTold' \in [Branch -> SUBSET PC]
        BY <3>5, <3>6
      <3> QED BY <3>7 DEF PI, PC
    <2> QED BY <2>1, <2>2, <2>3, <2>4, <2>5 DEF LookedAt, TypeOK, fileVars, prVars
  <1>5. ASSUME NEW w \in Watcher, Type(w) PROVE TypeOK'
    <2>1. CASE Says(w)
      <3> DEFINE b == row[w] l == look[w] seen == SeenOf(w, b, l.pr)
      <3>1. /\ b \in Branch /\ l \in [pr : 0..MaxPR, items : SUBSET Item, failing : SUBSET Check]
            /\ seen \in Seen /\ seen.rounds < MaxRounds
        BY <2>1, SayIs DEF SaidHow
      <3>2. [Marked(seen, l) EXCEPT !.rounds = @ + 1] \in Seen
        BY <3>1, MarkedIs
      <3>3. mem' \in [Watcher -> State]
        <4>1. mem[w] \in [Branch -> Seen \cup {NoSeen}] /\ mem \in [Watcher -> State]
          BY DEF TypeOK, State
        <4>2. mem' = mem \/ mem' = [mem EXCEPT ![w] = [mem[w] EXCEPT ![b] =
                                      [Marked(seen, l) EXCEPT !.rounds = @ + 1]]]
          BY <2>1 DEF Says
        <4>3. \A s \in Seen : [mem[w] EXCEPT ![b] = s] \in State
          BY <3>1, <4>1 DEF State
        <4> HIDE DEF b, l, seen
        <4> QED BY <3>2, <4>1, <4>2, <4>3
      <3>4. /\ told' \in [Branch -> [PR -> [Item -> 0..2]]]
            /\ notices' \in [Branch -> [PR -> 0..MaxRounds + 1]]
            /\ warned' \in [Branch -> SUBSET PR] /\ held' = held
            /\ redTold' \in [Branch -> SUBSET (PR \X Check)] /\ typed' \in [Watcher -> SUBSET Branch]
        BY <2>1, SayIs DEF SaidHow
      <3>5. /\ at' \in [Watcher -> {"rest", "rows", "look", "ask", "type", "submit", "write", "rename"}]
            /\ spoiled' \subseteq Branch /\ events' \in Nat
            /\ UNCHANGED <<todo, row, look, fileVars, prVars, prompt, forgotten>>
        BY <2>1, <3>1 DEF Says, TypeOK
      <3> QED BY <3>3, <3>4, <3>5 DEF TypeOK, fileVars, prVars
    <2>2. CASE /\ at[w] = "type" /\ at' = [at EXCEPT ![w] = "look"] /\ events' \in Nat
               /\ UNCHANGED <<mem, todo, row, look, fileVars, prVars, prompt, history>>
      BY <2>2 DEF TypeOK, fileVars, prVars, history, saidVars
    <2> QED BY <1>5, <2>1, <2>2, TypeIs
  <1>6. ASSUME NEW w \in Watcher, OpenTmp(w) PROVE TypeOK'
    <2>1. look' \in [Watcher -> [pr : 0..MaxPR, items : SUBSET Item, failing : SUBSET Check]]
      BY <1>6 DEF OpenTmp, NoLook, TypeOK
    <2>2. at' \in [Watcher -> {"rest", "rows", "look", "ask", "type", "submit", "write", "rename"}]
      BY <1>6 DEF OpenTmp, TypeOK, GoTo
    <2>3. tmp' \in State \cup {NoFile, Torn} /\ fd' \in [Watcher -> {"none", "tmp", "file", "gone"}]
      BY <1>6 DEF OpenTmp, TypeOK
    <2>4. events' \in Nat /\ spoiled' \subseteq Branch
      BY <1>6 DEF OpenTmp, Unsaved, TypeOK, Fault, Event
    <2> QED BY <1>6, <2>1, <2>2, <2>3, <2>4 DEF OpenTmp, TypeOK, prVars, saidVars
  <1>7. ASSUME NEW w \in Watcher, WriteTmp(w) PROVE TypeOK'
    <2>1. mem[w] \in State
      BY DEF TypeOK
    <2>2. file' \in State \cup {NoFile, Torn} /\ tmp' \in State \cup {NoFile, Torn}
      BY <1>7, <2>1 DEF WriteTmp, Over, TypeOK
    <2> QED BY <1>7, <2>2 DEF WriteTmp, TypeOK, GoTo, prVars, saidVars, history
  <1>8. ASSUME NEW w \in Watcher, Rename(w) PROVE TypeOK'
    <2>1. Empty \in State
      BY DEF Empty, State
    <2>2. fd' \in [Watcher -> {"none", "tmp", "file", "gone"}]
      BY <1>8 DEF Rename, TypeOK, fileVars
    <2> QED BY <1>8, <2>1, <2>2 DEF Rename, Unsaved, TypeOK, GoTo, prVars, saidVars, fileVars
  <1>9. ASSUME NEW w \in Watcher, Crash(w) PROVE TypeOK'
    <2>1. Empty \in State
      BY DEF Empty, State
    <2> QED BY <1>9, <2>1 DEF Crash, Unsaved, NoLook, TypeOK, GoTo, Fault, Event, prVars, saidVars
  <1>10. ASSUME Environment PROVE TypeOK'
    <2>1. PICK b \in Branch :
            \/ Close(b) \/ Reopen(b) \/ OpenNext(b) \/ WorkerMoves(b)
            \/ \E i \in Item : Post(b, i)
            \/ \E c \in Check : CheckRuns(b, c)
      BY <1>10 DEF Environment
    <2>2. CASE Close(b) \/ Reopen(b) \/ OpenNext(b) \/ WorkerMoves(b)
      <3>1. /\ UNCHANGED <<passVars, fileVars, history>> /\ events' \in Nat
            /\ posted' \in [Branch -> SUBSET Item] /\ red' \in [Branch -> SUBSET Check]
            /\ prompt' \subseteq Branch
        <4>1. UNCHANGED <<passVars, fileVars, history>> /\ events' \in Nat
          BY <2>2 DEF Close, Reopen, OpenNext, WorkerMoves, World, Event, TypeOK
        <4>2. /\ UNCHANGED <<posted, red>>
                 \/ (posted' = [posted EXCEPT ![b] = {}] /\ red' = [red EXCEPT ![b] = {}])
              /\ prompt' \in {prompt, prompt \ {b}, prompt \cup {b}}
          BY <2>2 DEF Close, Reopen, OpenNext, WorkerMoves, prVars
        <4> QED BY <4>1, <4>2 DEF TypeOK
      <3>2. /\ last' \in [Branch -> PR] /\ open' \in [Branch -> 0..MaxPR]
            /\ \A c \in Branch : open'[c] \in {0, last'[c]}
        <4>0. /\ last \in [Branch -> PR] /\ open \in [Branch -> 0..MaxPR]
              /\ \A c \in Branch : open[c] \in {0, last[c]}
          BY DEF TypeOK
        <4>1. CASE Close(b)
          BY <4>0, <4>1 DEF Close
        <4>2. CASE Reopen(b)
          BY <4>0, <4>2 DEF Reopen, PR
        <4>3. CASE OpenNext(b)
          BY <4>0, <4>3 DEF OpenNext, PR
        <4>4. CASE WorkerMoves(b)
          BY <4>0, <4>4 DEF WorkerMoves, prVars
        <4> QED BY <2>2, <4>1, <4>2, <4>3, <4>4
      <3> QED BY <3>1, <3>2 DEF TypeOK, passVars, fileVars, history, saidVars
    <2>3. ASSUME NEW i \in Item, Post(b, i) PROVE TypeOK'
      BY <2>3 DEF Post, World, Event, TypeOK, passVars, fileVars, history, saidVars
    <2>4. ASSUME NEW c \in Check, CheckRuns(b, c) PROVE TypeOK'
      BY <2>4 DEF CheckRuns, World, Event, TypeOK, passVars, fileVars, history, saidVars
    <2> QED BY <2>1, <2>2, <2>3, <2>4
  <1> QED BY <1>1, <1>2, <1>3, <1>4, <1>5, <1>6, <1>7, <1>8, <1>9, <1>10 DEF Next, Pass

-----------------------------------------------------------------------------
(* What was said stays said *)

LEMMA SaidStays ==
  ASSUME TypeOK, LookInv, [Next]_vars, NEW b \in Branch
  PROVE  /\ held[b] \subseteq held'[b] /\ redTold[b] \subseteq redTold'[b]
         /\ warned[b] \subseteq warned'[b] /\ last[b] <= last'[b]
         /\ \A p \in PR, i \in Item : told[b][p][i] > 0 => told'[b][p][i] > 0
         /\ b \in spoiled => b \in spoiled'
         /\ b \in forgotten => b \in forgotten'
  <1>0. last \in [Branch -> PR] /\ spoiled \subseteq Branch
    BY DEF TypeOK
  <1>1. CASE UNCHANGED <<saidVars, prVars>> /\ spoiled \subseteq spoiled' /\ forgotten \subseteq forgotten'
    BY <1>0, <1>1 DEF saidVars, prVars, PR
  <1>2. ASSUME NEW w \in Watcher, Load(w) \/ Rows(w) \/ LookupFails(w) \/ AskAgent(w) \/ Submit(w)
                                  \/ OpenTmp(w) \/ WriteTmp(w) \/ Rename(w) \/ Crash(w)
        PROVE  UNCHANGED <<saidVars, prVars>> /\ spoiled \subseteq spoiled' /\ forgotten \subseteq forgotten'
    BY <1>0, <1>2 DEF Load, Rows, LookupFails, AskAgent, Submit, OpenTmp, WriteTmp, Rename, Crash, Unsaved,
                      history
  <1>3. ASSUME NEW w \in Watcher, Lookup(w) PROVE held[b] \subseteq held'[b] /\ redTold[b] \subseteq redTold'[b]
          /\ UNCHANGED <<told, notices, warned, last, spoiled>> /\ forgotten \subseteq forgotten'
    <2>1. PICK c \in Branch, l \in [pr : 0..MaxPR, items : SUBSET Item, failing : SUBSET Check] :
            LookedAt(w, c, l)
      BY <1>3, LookupIs
    <2>2. UNCHANGED <<told, notices, warned, last, spoiled>> /\ forgotten \subseteq forgotten'
      BY <2>1 DEF LookedAt, prVars
    <2>3. \/ UNCHANGED <<held, redTold>>
          \/ /\ held' = [held EXCEPT ![c] = @ \cup ({l.pr} \X NewsItems(SeenOf(w, c, l.pr), l.items))]
             /\ redTold' = [redTold EXCEPT ![c] = @ \cup ({l.pr} \X NewsRed(SeenOf(w, c, l.pr), l.failing))]
      BY <2>1 DEF LookedAt
    <2>4. held[b] \subseteq held'[b] /\ redTold[b] \subseteq redTold'[b]
      <3> DEFINE I == {l.pr} \X NewsItems(SeenOf(w, c, l.pr), l.items)
                 R == {l.pr} \X NewsRed(SeenOf(w, c, l.pr), l.failing)
      <3> HIDE DEF I, R
      <3>1. UNCHANGED <<held, redTold>>
              \/ (held' = [held EXCEPT ![c] = @ \cup I] /\ redTold' = [redTold EXCEPT ![c] = @ \cup R])
        BY <2>3 DEF I, R
      <3>2. DOMAIN held = Branch /\ DOMAIN redTold = Branch
        BY DEF TypeOK
      <3> QED BY <3>1, <3>2
    <2> QED BY <2>2, <2>4
  <1>4. ASSUME NEW w \in Watcher, Type(w)
        PROVE  /\ held[b] \subseteq held'[b] /\ redTold[b] \subseteq redTold'[b]
               /\ warned[b] \subseteq warned'[b] /\ last' = last
               /\ \A p \in PR, i \in Item : told[b][p][i] > 0 => told'[b][p][i] > 0
               /\ spoiled \subseteq spoiled' /\ forgotten' = forgotten
    <2>1. CASE Says(w)
      <3>1. \A p \in PR, i \in Item : told[b][p][i] \in 0..2
        BY DEF TypeOK
      <3>2. /\ held' = held /\ redTold[b] \subseteq redTold'[b] /\ warned[b] \subseteq warned'[b]
        <4>1. SaidHow(w, row[w], look[w], SeenOf(w, row[w], look[w].pr))
          BY <2>1, SayIs
        <4> QED BY <4>1 DEF SaidHow
      <3>3. \A p \in PR, i \in Item : told[b][p][i] > 0 => told'[b][p][i] > 0
        <4> TAKE p \in PR, i \in Item
        <4>1. told'[b][p][i] \in {told[b][p][i], told[b][p][i] + 1}
          <5>1. SaidHow(w, row[w], look[w], SeenOf(w, row[w], look[w].pr))
            BY <2>1, SayIs
          <5> DEFINE news == NewsItems(SeenOf(w, row[w], look[w].pr), look[w].items)
          <5>2. told'[b][p][i] = IF b = row[w] /\ p = look[w].pr /\ i \in news /\ told[b][p][i] < 2
                                 THEN told[b][p][i] + 1 ELSE told[b][p][i]
            BY <5>1 DEF SaidHow
          <5> HIDE DEF news
          <5> QED BY <5>2
        <4> QED BY <3>1, <4>1
      <3> QED BY <2>1, <3>2, <3>3 DEF Says, prVars
    <2>2. CASE UNCHANGED <<prVars, history>>
      BY <2>2 DEF prVars, history, saidVars
    <2> QED BY <1>4, <2>1, <2>2, TypeIs
  <1>5. ASSUME Environment PROVE UNCHANGED history /\ last[b] <= last'[b]
    <2>1. PICK c \in Branch :
            \/ Close(c) \/ Reopen(c) \/ OpenNext(c) \/ WorkerMoves(c)
            \/ \E i \in Item : Post(c, i)
            \/ \E k \in Check : CheckRuns(c, k)
      BY <1>5 DEF Environment
    <2>2. UNCHANGED history
      BY <2>1 DEF Close, Reopen, OpenNext, WorkerMoves, Post, CheckRuns, World
    <2>3. last' = last \/ last' = [last EXCEPT ![c] = @ + 1]
      BY <2>1 DEF Close, Reopen, OpenNext, WorkerMoves, Post, CheckRuns, prVars
    <2> QED BY <1>0, <2>2, <2>3 DEF PR
  <1>6. CASE UNCHANGED vars
    BY <1>1, <1>6 DEF vars, history
  <1>7. last[b] \in Nat
    BY <1>0 DEF PR
  <1> QED BY <1>1, <1>2, <1>3, <1>4, <1>5, <1>6, <1>7 DEF Next, Pass, history, saidVars

\* The records of b after a step.
LEMMA MarksStay ==
  ASSUME TypeOK, LookInv, [Next]_vars, NEW b \in Branch, NEW s \in Seen \cup {NoSeen}, Marks(b, s)
  PROVE  Marks(b, s)'
  <1>1. s # NoSeen => s.pr \in PR /\ s.items \subseteq Item /\ s.pr \in Nat
    BY DEF Seen, PR
  <1>2. last[b] \in Nat /\ last'[b] \in Nat
    <2>1. TypeOK'
      BY Types
    <2> QED BY <2>1 DEF TypeOK, PR
  <1> QED BY <1>1, <1>2, SaidStays DEF Marks

\* What a pass that looked or typed has in memory.
LEMMA NewMarks ==
  ASSUME TypeOK, LookInv, RecordsInv, NEW w \in Watcher, Lookup(w) \/ Type(w), [Next]_vars,
         NEW b \in Branch
  PROVE  Marks(b, mem[w][b])'
  <1>0. mem[w] \in [Branch -> Seen \cup {NoSeen}] /\ mem \in [Watcher -> State]
    BY DEF TypeOK, State
  <1>1. CASE mem'[w][b] = mem[w][b]
    <2>1. Marks(b, mem[w][b]) /\ mem[w][b] \in Seen \cup {NoSeen}
      BY <1>0 DEF RecordsInv
    <2>2. \A s \in Seen \cup {NoSeen} : Marks(b, s) => Marks(b, s)'
      BY MarksStay
    <2> QED BY <1>1, <2>1, <2>2 DEF Marks
  <1>2. CASE Lookup(w)
    <2>1. PICK c \in Branch, l \in [pr : 0..MaxPR, items : SUBSET Item, failing : SUBSET Check] :
            LookedAt(w, c, l)
      BY <1>2, LookupIs
    <2> DEFINE seen == SeenOf(w, c, l.pr)
    <2>2. CASE mem'[w][b] = NoSeen
      BY <2>2 DEF Marks
    <2>3. ASSUME b = c, l.pr # 0, mem'[w][b] = Marked(seen, l),
                 \/ NoNews(seen, l)
                 \/ /\ held' = [held EXCEPT ![b] = @ \cup ({l.pr} \X NewsItems(seen, l.items))]
                    /\ redTold' = [redTold EXCEPT ![b] = @ \cup ({l.pr} \X NewsRed(seen, l.failing))]
          PROVE  Marks(b, mem[w][b])'
      <3>1. l.pr \in PR
        BY <2>3 DEF PR
      <3>2. seen \in Seen /\ seen.pr = l.pr
        BY <2>3, <3>1, SeenIs
      <3>3. Marks(b, seen)
        <4>1. CASE seen = mem[w][b]
          BY <4>1 DEF RecordsInv
        <4>2. CASE seen = [pr |-> l.pr, items |-> {}, failing |-> {}, rounds |-> 0]
          <5>1. l.pr <= last[b]
            BY <2>1, <2>3 DEF LookedAt, TypeOK, PR
          <5> QED BY <4>2, <5>1 DEF Marks
        <4> QED BY <2>3, <3>1, <4>1, <4>2, SeenIs
      <3> DEFINE m == Marked(seen, l)
      <3>4. m.pr = l.pr /\ m.rounds = seen.rounds /\ m.items = seen.items \cup l.items
            /\ m.failing = l.failing
        BY <3>2, MarkedIs
      <3>5. /\ \A i \in seen.items : told[b][l.pr][i] > 0 \/ <<l.pr, i>> \in held[b]
            /\ {l.pr} \X seen.failing \subseteq redTold[b]
            /\ l.pr <= last[b]
            /\ seen.rounds >= MaxRounds => l.pr \in warned[b] \/ MaxRounds = 0
        BY <3>2, <3>3 DEF Marks
      <3>6. \A i \in l.items \ seen.items : <<l.pr, i>> \in held'[b]
        <4>1. CASE NoNews(seen, l)
          BY <4>1 DEF NoNews, NewsItems
        <4>2. CASE held' = [held EXCEPT ![b] = @ \cup ({l.pr} \X NewsItems(seen, l.items))]
          BY <4>2 DEF TypeOK, NewsItems
        <4> QED BY <2>3, <4>1, <4>2
      <3>7. \A k \in l.failing \ seen.failing : <<l.pr, k>> \in redTold'[b]
        <4>1. CASE NoNews(seen, l)
          BY <4>1 DEF NoNews, NewsRed
        <4>2. CASE redTold' = [redTold EXCEPT ![b] = @ \cup ({l.pr} \X NewsRed(seen, l.failing))]
          BY <4>2 DEF TypeOK, NewsRed
        <4> QED BY <2>3, <4>1, <4>2
      <3>8. seen.items \subseteq Item
        BY <3>2 DEF Seen
      <3> HIDE DEF seen
      <3>9. \A i \in m.items : told'[b][l.pr][i] > 0 \/ <<l.pr, i>> \in held'[b]
        BY <3>1, <3>4, <3>5, <3>6, <3>8, SaidStays
      <3>10. {l.pr} \X m.failing \subseteq redTold'[b]
        <4>1. \A k \in m.failing : <<l.pr, k>> \in redTold'[b]
          BY <3>4, <3>5, <3>7, SaidStays
        <4> QED BY <4>1
      <3>11. l.pr <= last'[b] /\ (m.rounds >= MaxRounds => l.pr \in warned'[b] \/ MaxRounds = 0)
        <4>1. l.pr \in Nat /\ last[b] \in Nat /\ last'[b] \in Nat
          <5>1. TypeOK'
            BY Types
          <5>2. last \in [Branch -> PR] /\ last' \in [Branch -> PR]
            BY <5>1 DEF TypeOK
          <5> QED BY <3>1, <5>2 DEF PR
        <4> QED BY <3>4, <3>5, <4>1, SaidStays
      <3> HIDE DEF m
      <3> QED BY <2>3, <3>4, <3>9, <3>10, <3>11 DEF Marks, m
    <2>4. \/ b = c \/ mem'[w][b] = mem[w][b]
      BY <1>0, <2>1 DEF LookedAt
    <2>5. \/ mem'[w][c] = NoSeen \/ mem'[w][c] = mem[w][c]
          \/ /\ l.pr # 0 /\ mem'[w][c] = Marked(seen, l)
             /\ \/ NoNews(seen, l)
                \/ /\ held' = [held EXCEPT ![c] = @ \cup ({l.pr} \X NewsItems(seen, l.items))]
                   /\ redTold' = [redTold EXCEPT ![c] = @ \cup ({l.pr} \X NewsRed(seen, l.failing))]
      BY <1>0, <2>1 DEF LookedAt
    <2> QED BY <1>1, <2>2, <2>3, <2>4, <2>5
  <1>3. CASE Says(w)
    <2> DEFINE l == look[w]
               seen == SeenOf(w, b, l.pr)
               m == [Marked(seen, l) EXCEPT !.rounds = @ + 1]
    <2>1. (b = row[w] /\ mem'[w][b] = m) \/ mem'[w][b] = mem[w][b]
      BY <1>0, <1>3 DEF Says
    <2>2. ASSUME b = row[w], mem'[w][b] = m PROVE Marks(b, mem[w][b])'
      <3>1. /\ l.pr \in PR /\ l.pr <= last[b] /\ seen \in Seen /\ seen.pr = l.pr /\ seen.rounds < MaxRounds
            /\ l \in [pr : 0..MaxPR, items : SUBSET Item, failing : SUBSET Check]
        BY <1>3, <2>2, SayIs DEF SaidHow
      <3>2. m.pr = l.pr /\ m.rounds = seen.rounds + 1 /\ m.items = seen.items \cup l.items
            /\ m.failing = l.failing
        BY <3>1, MarkedIs, ZenonT(60)
      <3>3. /\ \A i \in Item :
                 told'[b][l.pr][i] = IF i \in NewsItems(seen, l.items) /\ told[b][l.pr][i] < 2
                                     THEN told[b][l.pr][i] + 1 ELSE told[b][l.pr][i]
            /\ seen.rounds + 1 >= MaxRounds => l.pr \in warned'[b]
            /\ {l.pr} \X NewsRed(seen, l.failing) \subseteq redTold'[b]
        <4>1. SaidHow(w, b, l, seen)
          BY <1>3, <2>2, SayIs
        <4> HIDE DEF l, seen
        <4>2. \A i \in Item :
                 told'[b][l.pr][i] = IF i \in NewsItems(seen, l.items) /\ told[b][l.pr][i] < 2
                                     THEN told[b][l.pr][i] + 1 ELSE told[b][l.pr][i]
          BY <3>1, <4>1 DEF SaidHow
        <4>3. warned'[b] = IF seen.rounds + 1 >= MaxRounds THEN warned[b] \cup {l.pr} ELSE warned[b]
          BY <4>1 DEF SaidHow
        <4>4. redTold'[b] = redTold[b] \cup ({l.pr} \X NewsRed(seen, l.failing))
          BY <4>1 DEF SaidHow
        <4> QED BY <4>2, <4>3, <4>4
      <3>4. seen = mem[w][b] \/ (seen.items = {} /\ seen.failing = {})
        BY <3>1, SeenIs
      <3>5. /\ \A i \in seen.items : told[b][l.pr][i] > 0 \/ <<l.pr, i>> \in held[b]
            /\ {l.pr} \X seen.failing \subseteq redTold[b]
        BY <3>1, <3>4 DEF RecordsInv, Marks
      <3>6. \A i \in Item : told[b][l.pr][i] \in 0..2
        BY <3>1 DEF TypeOK
      <3>7. seen.items \subseteq Item /\ l.items \subseteq Item
        BY <3>1 DEF Seen
      <3> HIDE DEF m, seen, l
      <3>8. \A i \in m.items : told'[b][l.pr][i] > 0 \/ <<l.pr, i>> \in held'[b]
        <4> TAKE i \in m.items
        <4>1. CASE i \in seen.items
          BY <3>1, <3>5, <3>7, <4>1, SaidStays
        <4>2. CASE i \in l.items \ seen.items
          BY <3>3, <3>6, <3>7, <4>2 DEF NewsItems
        <4> QED BY <3>2, <4>1, <4>2
      <3>9. {l.pr} \X m.failing \subseteq redTold'[b]
        <4>1. ASSUME NEW c \in m.failing PROVE <<l.pr, c>> \in redTold'[b]
          <5>1. CASE c \in seen.failing
            BY <3>5, <5>1, SaidStays
          <5>2. CASE c \notin seen.failing
            BY <3>2, <3>3, <5>2 DEF NewsRed
          <5> QED BY <5>1, <5>2
        <4> QED BY <4>1
      <3>10. l.pr <= last'[b] /\ (m.rounds >= MaxRounds => l.pr \in warned'[b])
        BY <1>3, <3>1, <3>2, <3>3 DEF Says, prVars
      <3> QED BY <2>2, <3>2, <3>8, <3>9, <3>10 DEF Marks
    <2> QED BY <1>1, <2>1, <2>2
  <1>4. CASE UNCHANGED mem
    BY <1>1, <1>4
  <1> QED BY <1>2, <1>3, <1>4, TypeIs

LEMMA RecordsStep ==
  ASSUME TypeOK, LookInv, RecordsInv, [Next]_vars
  PROVE  RecordsInv'
  <1>0. \A b \in Branch : \A s \in Seen \cup {NoSeen} : Marks(b, s) => Marks(b, s)'
    BY MarksStay
  <1>1. /\ mem \in [Watcher -> [Branch -> Seen \cup {NoSeen}]]
        /\ file \notin {NoFile, Torn} => file \in [Branch -> Seen \cup {NoSeen}]
        /\ tmp \notin {NoFile, Torn} => tmp \in [Branch -> Seen \cup {NoSeen}]
    BY DEF TypeOK, State
  \* Whatever a step copies, it keeps.
  <1>2. ASSUME NEW b \in Branch
        PROVE  /\ \A w \in Watcher : mem'[w][b] = mem[w][b] => Marks(b, mem[w][b])'
               /\ \A w \in Watcher : file \notin {NoFile, Torn} /\ mem'[w] = file => Marks(b, mem[w][b])'
               /\ file' \notin {NoFile, Torn} /\ file' \in {file, tmp} => Marks(b, file[b])'
               /\ tmp' \notin {NoFile, Torn} /\ tmp' = tmp => Marks(b, tmp[b])'
               /\ \A w \in Watcher : file' = mem[w] => Marks(b, file[b])'
               /\ \A w \in Watcher : tmp' = mem[w] => Marks(b, tmp[b])'
    <2>1. /\ \A w \in Watcher : Marks(b, mem[w][b]) /\ mem[w][b] \in Seen \cup {NoSeen}
          /\ file \notin {NoFile, Torn} => Marks(b, file[b]) /\ file[b] \in Seen \cup {NoSeen}
          /\ tmp \notin {NoFile, Torn} => Marks(b, tmp[b]) /\ tmp[b] \in Seen \cup {NoSeen}
      BY <1>1 DEF RecordsInv
    <2> DEFINE M(s) == s # NoSeen =>
                 /\ \A i \in s.items : told'[b][s.pr][i] > 0 \/ <<s.pr, i>> \in held'[b]
                 /\ {s.pr} \X s.failing \subseteq redTold'[b]
                 /\ s.pr <= last'[b]
                 /\ s.rounds >= MaxRounds => s.pr \in warned'[b] \/ MaxRounds = 0
    <2>2. \A s \in Seen \cup {NoSeen} : Marks(b, s) => M(s)
      BY <1>0 DEF Marks
    <2>3. /\ \A w \in Watcher : Marks(b, mem[w][b])' <=> M(mem'[w][b])
          /\ Marks(b, file[b])' <=> M(file'[b])
          /\ Marks(b, tmp[b])' <=> M(tmp'[b])
      BY DEF Marks
    <2>4. /\ \A w \in Watcher : M(mem[w][b])
          /\ file \notin {NoFile, Torn} => M(file[b])
          /\ tmp \notin {NoFile, Torn} => M(tmp[b])
      BY <2>1, <2>2
    <2> HIDE DEF M
    <2> QED BY <2>3, <2>4
  <1>3. ASSUME NEW b \in Branch, NEW w \in Watcher, mem'[w][b] = NoSeen PROVE Marks(b, mem[w][b])'
    BY <1>3 DEF Marks
  <1>4. Empty \in [Branch -> {NoSeen}]
    BY DEF Empty
  <1>5. ASSUME NEW w \in Watcher, Actions(w) PROVE RecordsInv'
    <2>1. \A v \in Watcher : v # w => mem'[v] = mem[v]
      BY <1>5, StepsApart DEF Apart
    <2>2. \A b \in Branch : Marks(b, mem[w][b])'
      <3>1. CASE Lookup(w) \/ Type(w)
        BY <3>1, NewMarks
      <3>2. CASE mem' = mem
        BY <1>2, <3>2
      <3>3. CASE Load(w)
        <4>1. (file # Torn /\ file # NoFile /\ mem'[w] = file) \/ mem'[w] = Empty
          BY <1>1, <3>3 DEF Load
        <4> QED BY <1>2, <1>3, <1>4, <4>1
      <3>4. CASE Rename(w) \/ Crash(w)
        <4>1. mem'[w] = Empty
          BY <1>1, <3>4 DEF Rename, Crash
        <4> QED BY <1>3, <1>4, <4>1
      <3>5. CASE Rows(w) \/ LookupFails(w) \/ AskAgent(w) \/ Submit(w) \/ OpenTmp(w) \/ WriteTmp(w)
        BY <3>2, <3>5 DEF Rows, LookupFails, AskAgent, Submit, OpenTmp, WriteTmp
      <3> QED BY <1>5, <3>1, <3>3, <3>4, <3>5 DEF Actions
    <2>3. file' \in {file, tmp, Torn, mem[w]} /\ tmp' \in {tmp, NoFile, Torn, mem[w]}
      <3>1. CASE Lookup(w)
        BY <3>1 DEF Lookup, fileVars
      <3>2. CASE Type(w) \/ Load(w) \/ Rows(w) \/ LookupFails(w) \/ AskAgent(w) \/ Submit(w)
        BY <3>2 DEF Type, Load, Rows, LookupFails, AskAgent, Submit, fileVars
      <3>3. CASE OpenTmp(w) \/ WriteTmp(w) \/ Rename(w) \/ Crash(w)
        BY <3>3 DEF OpenTmp, WriteTmp, Over, Rename, Crash, fileVars
      <3> QED BY <1>5, <3>1, <3>2, <3>3 DEF Actions
    <2> QED BY <1>2, <2>1, <2>2, <2>3 DEF RecordsInv
  <1>6. CASE UNCHANGED <<mem, file, tmp>>
    BY <1>2, <1>6 DEF RecordsInv
  <1>7. ASSUME Environment PROVE UNCHANGED <<mem, file, tmp>>
    BY <1>7 DEF Environment, Close, Reopen, OpenNext, WorkerMoves, Post, CheckRuns, World, passVars, fileVars
  <1>8. UNCHANGED vars => UNCHANGED <<mem, file, tmp>>
    BY DEF vars, passVars, fileVars
  <1> QED BY <1>5, <1>6, <1>7, <1>8 DEF Next, Pass, Actions

\* What is held back is of a pull request whose worker knows that it got its last notice.
LEMMA HeldStep ==
  ASSUME TypeOK, LookInv, RecordsInv, HeldInv, [Next]_vars
  PROVE  HeldInv'
  <1> SUFFICES ASSUME NEW b \in Branch, NEW h \in held'[b] PROVE h[1] \in warned'[b] \/ MaxRounds = 0
    BY DEF HeldInv
  <1>1. CASE h \in held[b]
    BY <1>1, SaidStays DEF HeldInv
  <1>2. CASE \E w \in Watcher : Lookup(w)
    <2>1. PICK w \in Watcher : Lookup(w)
      BY <1>2
    <2>2. PICK c \in Branch, l \in [pr : 0..MaxPR, items : SUBSET Item, failing : SUBSET Check] :
            LookedAt(w, c, l)
      BY <2>1, LookupIs
    <2> DEFINE seen == SeenOf(w, c, l.pr)
               I == NewsItems(seen, l.items)
    <2>3. CASE /\ l.pr # 0 /\ seen.rounds >= MaxRounds
               /\ held' = [held EXCEPT ![c] = @ \cup ({l.pr} \X I)]
      <3>1. l.pr \in PR
        BY <2>3 DEF PR
      <3>2. h \in held[b] \/ (b = c /\ h[1] = l.pr)
        <4> HIDE DEF I
        <4> QED BY <2>3 DEF TypeOK
      <3>3. b = c => l.pr \in warned[b] \/ MaxRounds = 0
        <4> SUFFICES ASSUME b = c, MaxRounds # 0 PROVE l.pr \in warned[b]
          OBVIOUS
        <4>1. seen = mem[w][c] /\ mem[w][c] # NoSeen /\ mem[w][c].pr = l.pr
          BY <2>3, <3>1, SeenIs
        <4>2. Marks(b, mem[w][c])
          BY DEF RecordsInv
        <4> QED BY <2>3, <4>1, <4>2 DEF Marks
      <3> QED BY <1>1, <3>2, <3>3, SaidStays
    <2>4. held' = held \/ (/\ l.pr # 0 /\ seen.rounds >= MaxRounds
                           /\ held' = [held EXCEPT ![c] = @ \cup ({l.pr} \X I)])
      BY <2>2 DEF LookedAt
    <2> QED BY <1>1, <2>3, <2>4
  <1>3. held' = held \/ \E w \in Watcher : Lookup(w)
    <2>1. ASSUME NEW w \in Watcher, Actions(w), ~Lookup(w) PROVE held' = held
      <3>1. CASE Type(w)
        BY <3>1 DEF Type, Say, saidVars
      <3> QED BY <2>1, <3>1 DEF Actions, Load, Rows, LookupFails, AskAgent, Submit, OpenTmp, WriteTmp, Rename,
                               Crash, history, saidVars
    <2>2. ASSUME Environment PROVE held' = held
      BY <2>2 DEF Environment, Close, Reopen, OpenNext, WorkerMoves, Post, CheckRuns, World, history, saidVars
    <2> QED BY <2>1, <2>2 DEF Next, Pass, Actions, vars, history, saidVars
  <1> QED BY <1>1, <1>2, <1>3

-----------------------------------------------------------------------------
(* What is typed once is not typed again *)

\* Who runs beside w, where the marks of some branch are not lost.
LEMMA Sole ==
  ASSUME TypeOK, LookInv, AloneInv, NEW w \in Watcher, Actions(w), spoiled' # Branch,
         NEW v \in Watcher, v # w
  PROVE  at[v] = "rest" /\ at'[v] = "rest"
  <1>1. at'[v] = at[v]
    BY StepsApart DEF Apart
  <1>2. spoiled # Branch
    <2>1. [Next]_vars
      BY DEF Next, Pass, Actions
    <2>2. \A b \in Branch : b \in spoiled => b \in spoiled'
      BY <2>1, SaidStays
    <2>3. TypeOK'
      BY <2>1, Types
    <2> QED BY <2>2, <2>3 DEF TypeOK
  <1>3. CASE at[w] # "rest"
    BY <1>1, <1>2, <1>3 DEF AloneInv
  <1>4. CASE Load(w)
    BY <1>1, <1>4 DEF Load
  <1>5. at[w] # "rest" \/ Load(w)
    BY DEF Actions, Rows, LookupFails, Lookup, AskAgent, Type, Submit, OpenTmp, WriteTmp, Rename, Crash
  <1> QED BY <1>3, <1>4, <1>5

\* Nobody else changes what passes have.
LEMMA WorldStays ==
  ASSUME Environment \/ UNCHANGED vars
  PROVE  UNCHANGED <<passVars, fileVars, history>>
  BY DEF Environment, Close, Reopen, OpenNext, WorkerMoves, Post, CheckRuns, World, vars

LEMMA LookStep ==
  ASSUME TypeOK, LookInv, RecordsInv, [Next]_vars
  PROVE  LookInv'
  <1>1. \A b \in Branch : last[b] \in Nat /\ last'[b] \in Nat /\ last[b] <= last'[b]
    <2>1. TypeOK'
      BY Types
    <2>2. last \in [Branch -> PR] /\ last' \in [Branch -> PR]
      BY <2>1 DEF TypeOK
    <2> QED BY <2>2, SaidStays DEF PR
  <1> DEFINE Fits(v) == at'[v] \in {"ask", "type"} =>
               /\ look'[v].pr \in 1..last'[row'[v]]
               /\ mem'[v][row'[v]] # NoSeen => mem'[v][row'[v]].pr <= look'[v].pr
               /\ SeenOf(v, row[v], look[v].pr)'.rounds < MaxRounds
  <1>2. ASSUME NEW v \in Watcher, mem'[v] = mem[v], row'[v] = row[v], look'[v] = look[v],
               at'[v] \in {"ask", "type"} => at[v] \in {"ask", "type"}
        PROVE  Fits(v)
    <2> SUFFICES ASSUME at'[v] \in {"ask", "type"} PROVE Fits(v)
      OBVIOUS
    <2>1. /\ look[v].pr \in 1..last[row[v]]
          /\ mem[v][row[v]] # NoSeen => mem[v][row[v]].pr <= look[v].pr
          /\ SeenOf(v, row[v], look[v].pr).rounds < MaxRounds
      BY <1>2 DEF LookInv
    <2>2. row[v] \in Branch
      BY DEF TypeOK
    <2>3. SeenOf(v, row[v], look[v].pr)' = SeenOf(v, row[v], look[v].pr)
      BY <1>2 DEF SeenOf
    <2>4. look'[v].pr \in 1..last'[row'[v]]
      BY <1>1, <1>2, <2>1, <2>2
    <2> QED BY <1>2, <2>1, <2>3, <2>4
  <1>3. ASSUME NEW w \in Watcher, Actions(w) PROVE \A v \in Watcher : Fits(v)
    <2>1. \A v \in Watcher : v # w => Fits(v)
      BY <1>2, <1>3, StepsApart DEF Apart
    <2>2. Fits(w)
      <3>1. CASE Lookup(w)
        <4>1. PICK b \in Branch, l \in [pr : 0..MaxPR, items : SUBSET Item, failing : SUBSET Check] :
                LookedAt(w, b, l)
          BY <3>1, LookupIs
        <4>2. CASE at' = at
          BY <4>1, <4>2 DEF LookedAt
        <4>3. CASE /\ l.pr # 0 /\ SeenOf(w, b, l.pr).rounds < MaxRounds /\ UNCHANGED mem
          <5>1. row'[w] = b /\ look'[w] = l /\ last' = last /\ l.pr = open[b]
            BY <4>1 DEF LookedAt, TypeOK, prVars
          <5>2. l.pr \in 1..last'[b]
            BY <1>1, <4>3, <5>1 DEF TypeOK
          <5>3. mem[w][b] # NoSeen => mem[w][b].pr <= l.pr
            <6>1. Marks(b, mem[w][b])
              BY DEF RecordsInv
            <6> QED BY <4>3, <5>1, <6>1 DEF Marks, TypeOK
          <5>4. SeenOf(w, row[w], look[w].pr)' = SeenOf(w, b, l.pr)
            BY <4>3, <5>1 DEF SeenOf
          <5> QED BY <4>3, <5>1, <5>2, <5>3, <5>4
        <4>4. at' = at \/ (l.pr # 0 /\ SeenOf(w, b, l.pr).rounds < MaxRounds /\ UNCHANGED mem)
          BY <4>1 DEF LookedAt
        <4> QED BY <4>2, <4>3, <4>4
      <3>2. CASE AskAgent(w)
        BY <1>2, <3>2 DEF AskAgent
      <3>3. CASE ~Lookup(w) /\ ~AskAgent(w)
        <4>1. at'[w] \notin {"ask", "type"}
          BY <1>3, <3>3 DEF Actions, Load, Rows, LookupFails, Type, Submit, OpenTmp, WriteTmp, Rename, Crash,
                             GoTo, TypeOK
        <4> QED BY <4>1
      <3> QED BY <3>1, <3>2, <3>3
    <2> QED BY <2>1, <2>2
  <1>4. CASE Environment \/ UNCHANGED vars
    <2>1. UNCHANGED <<at, mem, row, look>>
      BY <1>4, WorldStays DEF passVars
    <2> QED BY <1>2, <2>1 DEF LookInv
  <1> QED BY <1>3, <1>4 DEF Next, Pass, Actions, LookInv

LEMMA SaveStep ==
  ASSUME TypeOK, LookInv, AloneInv, SaveInv, FreshInv, [Next]_vars
  PROVE  AloneInv' /\ SaveInv' /\ FreshInv'
  <1>1. (spoiled = Branch => spoiled' = Branch) /\ (spoiled' # Branch => spoiled # Branch)
    <2>1. TypeOK'
      BY Types
    <2>2. \A b \in Branch : b \in spoiled => b \in spoiled'
      BY SaidStays
    <2> QED BY <2>1, <2>2 DEF TypeOK
  <1>2. ASSUME NEW w \in Watcher, Actions(w) PROVE AloneInv' /\ SaveInv' /\ FreshInv'
    <2>1. \A v \in Watcher : v # w => at'[v] = at[v] /\ mem'[v] = mem[v] /\ typed'[v] = typed[v]
      BY <1>2, StepsApart DEF Apart
    <2>2. spoiled' # Branch => \A v \in Watcher : v # w => at'[v] = "rest"
      BY <1>2, Sole
    <2>3. AloneInv'
      BY <2>2 DEF AloneInv
    <2>4. at'[w] = "rows" => typed'[w] = {}
      BY <1>2 DEF Actions, Load, Rows, LookupFails, Lookup, NoneOpen, Nothing, Capped, News, AskAgent, Type,
                  Submit, OpenTmp, WriteTmp, Rename, Crash, GoTo, TypeOK
    <2>5. ASSUME spoiled' # Branch
          PROVE  /\ at'[w] = "write" => tmp' = Torn /\ fd'[w] = "tmp"
                 /\ at'[w] = "rename" => tmp' = mem'[w]
      <3>1. CASE OpenTmp(w)
        BY <3>1 DEF OpenTmp, GoTo, TypeOK
      <3>2. CASE WriteTmp(w)
        <4>1. tmp = Torn /\ fd[w] = "tmp"
          BY <1>1, <2>5, <3>2 DEF WriteTmp, SaveInv
        <4> QED BY <3>2, <4>1 DEF WriteTmp, Over, GoTo, TypeOK
      <3>3. CASE Lookup(w)
        BY <3>3 DEF Lookup, NoneOpen, Nothing, Capped, News, GoTo, TypeOK
      <3>4. CASE ~Lookup(w) /\ ~OpenTmp(w) /\ ~WriteTmp(w)
        <4>1. at'[w] \notin {"write", "rename"}
          BY <1>2, <3>4 DEF Actions, Load, Rows, LookupFails, AskAgent, Type, Submit, Rename, Crash, GoTo,
                             TypeOK
        <4> QED BY <4>1
      <3> QED BY <3>1, <3>2, <3>3, <3>4
    <2> QED BY <2>1, <2>2, <2>3, <2>4, <2>5 DEF SaveInv, FreshInv
  <1>3. CASE Environment \/ UNCHANGED vars
    <2>1. UNCHANGED <<at, mem, tmp, fd, typed, spoiled>>
      BY <1>3, WorldStays DEF passVars, fileVars, history
    <2> QED BY <2>1 DEF AloneInv, SaveInv, FreshInv
  <1> QED BY <1>2, <1>3 DEF Next, Pass, Actions

\* What a record covers, the one it is looked at as covers.
LEMMA SeenCovers ==
  ASSUME TypeOK, NEW w \in Watcher, NEW b \in Branch, Covers(b, mem[w][b]),
         NEW p \in PR, mem[w][b] # NoSeen => mem[w][b].pr <= p,
         NEW seen, seen = SeenOf(w, b, p)
  PROVE  /\ notices[b][p] <= seen.rounds
         /\ \A i \in Item : told[b][p][i] > 0 => i \in seen.items
         /\ \A q \in PR : notices[b][q] > 0 \/ (\E i \in Item : told[b][q][i] > 0) => q <= p
  <1>1. /\ p \in Nat /\ notices[b][p] \in Nat /\ \A i \in Item : told[b][p][i] \in Nat
    <2>1. notices[b] \in [PR -> 0..MaxRounds + 1] /\ told[b] \in [PR -> [Item -> 0..2]]
      BY DEF TypeOK
    <2> QED BY <2>1, SMTT(30) DEF PR
  <1>2. seen \in Seen /\ seen.rounds \in Nat
    BY SeenIs DEF Seen
  <1>3. mem[w][b] \in Seen \cup {NoSeen}
    BY DEF TypeOK, State
  <1>4. mem[w][b] # NoSeen => mem[w][b].pr \in Nat
    BY <1>3 DEF Seen, PR
  <1>5. ASSUME NEW q \in PR, notices[b][q] > 0 \/ (\E i \in Item : told[b][q][i] > 0)
        PROVE  /\ mem[w][b] # NoSeen /\ q <= mem[w][b].pr
               /\ mem[w][b].pr = q => /\ notices[b][q] <= mem[w][b].rounds
                                      /\ \A i \in Item : told[b][q][i] > 0 => i \in mem[w][b].items
    BY <1>5 DEF Covers
  <1>6. ASSUME notices[b][p] > 0 \/ (\E i \in Item : told[b][p][i] > 0)
        PROVE  mem[w][b].pr = p /\ seen = mem[w][b]
    <2>1. mem[w][b] # NoSeen /\ p <= mem[w][b].pr
      BY <1>5, <1>6
    <2>2. mem[w][b].pr = p
      BY <1>1, <1>4, <2>1
    <2> QED BY <2>1, <2>2 DEF SeenOf
  <1>7. ASSUME NEW q \in PR, notices[b][q] > 0 \/ (\E i \in Item : told[b][q][i] > 0) PROVE q <= p
    <2>1. mem[w][b] # NoSeen /\ q <= mem[w][b].pr
      BY <1>5, <1>7
    <2> QED BY <1>1, <1>4, <2>1 DEF PR
  <1> QED BY <1>1, <1>2, <1>5, <1>6, <1>7

\* A record of p that has what the one it replaces had, and what was typed since.
LEMMA NewCovers ==
  ASSUME TypeOK, NEW b \in Branch, NEW p \in PR, NEW m \in Seen, m.pr = p,
         notices'[b][p] <= m.rounds,
         \A i \in Item : told'[b][p][i] > 0 => i \in m.items,
         \A q \in PR : q # p /\ (notices'[b][q] > 0 \/ (\E i \in Item : told'[b][q][i] > 0)) => q <= p
  PROVE  Covers(b, m)'
  BY DEF Covers, PR

LEMMA CoverStep ==
  ASSUME TypeOK, RecordsInv, LookInv, AloneInv, SaveInv, CoverInv, FreshInv, OnceInv, [Next]_vars
  PROVE  CoverInv' /\ OnceInv'
  <1> SUFFICES ASSUME NEW b \in Branch \ (spoiled' \cup forgotten')
               PROVE  /\ \A w \in Watcher : at'[w] # "rest" => Covers(b, mem[w][b])'
                      /\ file' # Torn /\ (\A w \in Watcher : at'[w] # "rest" => b \notin typed'[w]) =>
                           Covers(b, IF file = NoFile THEN NoSeen ELSE file[b])'
                      /\ \A p \in PR : notices'[b][p] <= MaxRounds /\ \A i \in Item : told'[b][p][i] <= 1
    BY DEF CoverInv, OnceInv
  <1>1. b \in Branch \ (spoiled \cup forgotten) /\ spoiled' # Branch
    BY SaidStays
  <1>2. /\ \A w \in Watcher : at[w] # "rest" => Covers(b, mem[w][b])
        /\ file # Torn /\ (\A w \in Watcher : at[w] # "rest" => b \notin typed[w]) =>
             Covers(b, IF file = NoFile THEN NoSeen ELSE file[b])
        /\ \A p \in PR : notices[b][p] <= MaxRounds /\ \A i \in Item : told[b][p][i] <= 1
    BY <1>1 DEF CoverInv, OnceInv
  <1>3. mem \in [Watcher -> [Branch -> Seen \cup {NoSeen}]]
    BY DEF TypeOK, State
  \* A step that says nothing to this worker.
  <1>4. ASSUME told'[b] = told[b], notices'[b] = notices[b]
        PROVE  /\ \A p \in PR : notices'[b][p] <= MaxRounds /\ \A i \in Item : told'[b][p][i] <= 1
               /\ \A w \in Watcher : mem'[w][b] = mem[w][b] /\ Covers(b, mem[w][b]) => Covers(b, mem[w][b])'
               /\ file' = file /\ Covers(b, IF file = NoFile THEN NoSeen ELSE file[b]) =>
                    Covers(b, IF file = NoFile THEN NoSeen ELSE file[b])'
    BY <1>2, <1>4 DEF Covers
  <1>5. CASE Environment \/ UNCHANGED vars
    <2>1. UNCHANGED <<at, mem, file, told, notices, typed>>
      BY <1>5, WorldStays DEF passVars, fileVars, history, saidVars
    <2> QED BY <1>2, <1>4, <2>1
  <1>6. ASSUME NEW w \in Watcher, Actions(w)
        PROVE  /\ at'[w] # "rest" => Covers(b, mem[w][b])'
               /\ file' # Torn /\ (at'[w] # "rest" => b \notin typed'[w]) =>
                    Covers(b, IF file = NoFile THEN NoSeen ELSE file[b])'
               /\ \A p \in PR : notices'[b][p] <= MaxRounds /\ \A i \in Item : told'[b][p][i] <= 1
    <2>1. \A v \in Watcher : v # w => at[v] = "rest"
      BY <1>1, <1>6, Sole
    <2>2. file # Torn /\ (at[w] # "rest" => b \notin typed[w]) =>
            Covers(b, IF file = NoFile THEN NoSeen ELSE file[b])
      BY <1>2, <2>1
    <2>3. CASE Load(w)
      <3>1. told' = told /\ notices' = notices /\ file' = file /\ file # Torn /\ at[w] = "rest"
            /\ mem'[w] = IF file = NoFile THEN Empty ELSE file
        BY <1>3, <2>3 DEF Load, saidVars, fileVars
      <3>2. mem'[w][b] = IF file = NoFile THEN NoSeen ELSE file[b]
        BY <3>1 DEF Empty
      <3>3. Covers(b, mem[w][b])'
        BY <2>2, <3>1, <3>2 DEF Covers
      <3> QED BY <1>4, <2>2, <3>1, <3>3
    <2>4. CASE Rows(w) \/ LookupFails(w) \/ AskAgent(w) \/ Submit(w) \/ OpenTmp(w) \/ WriteTmp(w)
      <3>1. UNCHANGED <<mem, told, notices, typed>> /\ at[w] # "rest"
        BY <2>4 DEF Rows, LookupFails, AskAgent, Submit, OpenTmp, WriteTmp, history, saidVars
      <3>2. file' = file
        <4>1. CASE WriteTmp(w)
          BY <1>1, <4>1 DEF WriteTmp, SaveInv
        <4> QED BY <2>4, <4>1 DEF Rows, LookupFails, AskAgent, Submit, OpenTmp, fileVars
      <3>3. (at'[w] # "rest" => b \notin typed'[w]) => b \notin typed[w]
        <4>1. CASE Rows(w)
          BY <4>1 DEF Rows, FreshInv
        <4>2. CASE OpenTmp(w)
          BY <3>1, <4>2 DEF OpenTmp, Unsaved, GoTo, TypeOK
        <4>3. CASE LookupFails(w) \/ AskAgent(w) \/ Submit(w) \/ WriteTmp(w)
          BY <3>1, <4>3 DEF LookupFails, AskAgent, Submit, WriteTmp, GoTo, TypeOK
        <4> QED BY <2>4, <4>1, <4>2, <4>3
      <3> QED BY <1>2, <1>4, <2>2, <3>1, <3>2, <3>3
    <2>5. CASE Rename(w) \/ Crash(w)
      <3>1. UNCHANGED <<told, notices>> /\ at'[w] = "rest" /\ at[w] # "rest"
        BY <2>5 DEF Rename, Crash, saidVars, GoTo, TypeOK
      <3>2. CASE b \notin typed[w] /\ file' = file
        BY <1>4, <2>2, <3>1, <3>2
      <3>3. CASE Rename(w) /\ tmp # NoFile
        <4>1. file' = mem[w] /\ file' # NoFile
          BY <1>1, <3>3 DEF Rename, SaveInv
        <4>2. Covers(b, IF file = NoFile THEN NoSeen ELSE file[b])'
          BY <1>2, <3>1, <4>1 DEF Covers
        <4> QED BY <1>4, <3>1, <4>2
      <3>4. Crash(w) \/ (Rename(w) /\ tmp = NoFile) => b \notin typed[w] /\ file' = file
        BY DEF Crash, Rename, Unsaved, fileVars
      <3> QED BY <2>5, <3>2, <3>3, <3>4
    <2>6. CASE Lookup(w)
      <3>1. PICK c \in Branch, l \in [pr : 0..MaxPR, items : SUBSET Item, failing : SUBSET Check] :
              LookedAt(w, c, l)
        BY <2>6, LookupIs
      <3>2. UNCHANGED <<told, notices, file, typed>> /\ at[w] # "rest" /\ at'[w] # "rest"
        BY <3>1 DEF LookedAt, fileVars, TypeOK
      <3>3. CASE mem'[w][b] = mem[w][b]
        BY <1>2, <1>4, <2>2, <3>2, <3>3
      <3> DEFINE seen == SeenOf(w, c, l.pr)
      <3>4. CASE c = b /\ l.pr # 0 /\ mem'[w][b] = Marked(seen, l)
        <4>1. l.pr \in PR
          BY <3>4 DEF PR
        <4>2. mem[w][b] # NoSeen => mem[w][b].pr <= l.pr
          <5>1. Marks(b, mem[w][b]) /\ l.pr = open[b] /\ open[b] \in {0, last[b]}
            BY <3>1, <3>4 DEF RecordsInv, LookedAt, TypeOK
          <5> QED BY <3>4, <5>1 DEF Marks
        <4>3. /\ notices[b][l.pr] <= seen.rounds
              /\ \A i \in Item : told[b][l.pr][i] > 0 => i \in seen.items
              /\ \A q \in PR : notices[b][q] > 0 \/ (\E i \in Item : told[b][q][i] > 0) => q <= l.pr
          BY <1>2, <3>2, <3>4, <4>1, <4>2, SeenCovers
        <4>4. PICK m \in Seen : /\ mem'[w][b] = m /\ m.pr = l.pr
                                /\ m.rounds = seen.rounds /\ seen.items \subseteq m.items
          <5>1. seen \in Seen /\ seen.pr = l.pr
            BY <3>4, <4>1, SeenIs
          <5>2. Marked(seen, l) \in Seen /\ Marked(seen, l).pr = seen.pr
                /\ Marked(seen, l).rounds = seen.rounds /\ Marked(seen, l).items = seen.items \cup l.items
            BY <5>1, MarkedIs
          <5> HIDE DEF seen
          <5> QED BY <3>4, <5>1, <5>2
        <4> HIDE DEF seen
        <4>5. /\ notices'[b][l.pr] <= m.rounds
              /\ \A i \in Item : told'[b][l.pr][i] > 0 => i \in m.items
              /\ \A q \in PR : notices'[b][q] > 0 \/ (\E i \in Item : told'[b][q][i] > 0) => q <= l.pr
          BY <3>2, <4>3, <4>4
        <4>6. Covers(b, mem[w][b])'
          BY <4>1, <4>4, <4>5, NewCovers DEF Covers
        <4> QED BY <1>4, <2>2, <3>2, <4>6
      <3>5. \/ mem'[w][b] = mem[w][b]
            \/ c = b /\ l.pr # 0 /\ mem'[w][b] = Marked(seen, l)
        BY <1>3, <3>1 DEF LookedAt
      <3> QED BY <3>3, <3>4, <3>5
    <2>7. CASE Type(w)
      <3>1. CASE Says(w) /\ row[w] = b
        <4> DEFINE l == look[w]
                   seen == SeenOf(w, b, l.pr)
        <4>1. SaidHow(w, b, l, seen)
          BY <3>1, SayIs
        <4>2. /\ l.pr \in PR /\ seen \in Seen /\ seen.pr = l.pr /\ seen.rounds < MaxRounds
              /\ l \in [pr : 0..MaxPR, items : SUBSET Item, failing : SUBSET Check]
              /\ mem[w][b] # NoSeen => mem[w][b].pr <= l.pr
              /\ b \in typed'[w]
          BY <4>1 DEF SaidHow
        <4>3. /\ at[w] # "rest" /\ at'[w] # "rest"
              /\ mem'[w][b] = [Marked(seen, l) EXCEPT !.rounds = @ + 1]
          <5>1. at[w] = "type"
            BY <3>1 DEF Says
          <5>2. spoiled' # spoiled \cup {b}
            OBVIOUS
          <5> DEFINE m == [Marked(seen, l) EXCEPT !.rounds = @ + 1]
          <5>3. /\ mem' = [mem EXCEPT ![w] = [mem[w] EXCEPT ![b] = m]]
                /\ at' = [at EXCEPT ![w] = "submit"]
            BY <3>1, <5>2 DEF Says
          <5> HIDE DEF m
          <5>4. mem'[w][b] = m
            BY <1>3, <5>3
          <5>5. at'[w] = "submit"
            BY <5>3 DEF TypeOK
          <5> QED BY <5>1, <5>4, <5>5 DEF m
        <4>4. /\ notices[b][l.pr] <= seen.rounds
              /\ \A i \in Item : told[b][l.pr][i] > 0 => i \in seen.items
              /\ \A q \in PR : notices[b][q] > 0 \/ (\E i \in Item : told[b][q][i] > 0) => q <= l.pr
          BY <1>2, <4>2, <4>3, SeenCovers
        <4>5. PICK m \in Seen : /\ mem'[w][b] = m /\ m.pr = l.pr /\ m.rounds = seen.rounds + 1
                                /\ m.items = seen.items \cup l.items
          <5> DEFINE n == [Marked(seen, l) EXCEPT !.rounds = @ + 1]
          <5>1. n \in Seen /\ n.pr = seen.pr /\ n.rounds = seen.rounds + 1 /\ n.items = seen.items \cup l.items
            BY <4>2, MarkedIs
          <5> HIDE DEF n, seen, l
          <5>2. mem'[w][b] = n
            BY <4>3 DEF n, seen, l
          <5> QED BY <4>2, <5>1, <5>2
        <4> HIDE DEF seen, l
        <4>6. /\ \A q \in PR, i \in Item : told[b][q][i] \in Nat
              /\ \A q \in PR : notices[b][q] \in Nat
              /\ seen.rounds \in Nat
          <5>1. notices[b] \in [PR -> 0..MaxRounds + 1] /\ told[b] \in [PR -> [Item -> 0..2]]
            BY DEF TypeOK
          <5> QED BY <4>2, <5>1 DEF Seen
        <4>7. /\ \A q \in PR, i \in Item :
                   told'[b][q][i] = IF q = l.pr /\ i \in l.items \ seen.items /\ told[b][q][i] < 2
                                    THEN told[b][q][i] + 1 ELSE told[b][q][i]
              /\ \A q \in PR : notices'[b][q] = IF q = l.pr /\ notices[b][q] <= MaxRounds
                                                 THEN notices[b][q] + 1 ELSE notices[b][q]
          BY <4>1 DEF SaidHow, NewsItems
        <4>8. \A p \in PR : notices'[b][p] <= MaxRounds /\ \A i \in Item : told'[b][p][i] <= 1
          <5>1. ASSUME NEW p \in PR PROVE notices'[b][p] <= MaxRounds
            BY <1>2, <4>2, <4>4, <4>6, <4>7
          <5>2. ASSUME NEW p \in PR, NEW i \in Item PROVE told'[b][p][i] <= 1
            BY <1>2, <4>4, <4>6, <4>7
          <5> QED BY <5>1, <5>2
        <4>9. /\ notices'[b][l.pr] <= m.rounds
              /\ \A i \in Item : told'[b][l.pr][i] > 0 => i \in m.items
              /\ \A q \in PR : q # l.pr /\ (notices'[b][q] > 0 \/ (\E i \in Item : told'[b][q][i] > 0))
                   => q <= l.pr
          <5>1. notices'[b][l.pr] <= m.rounds
            BY <4>2, <4>4, <4>5, <4>6, <4>7
          <5>2. \A i \in Item : told'[b][l.pr][i] > 0 => i \in m.items
            BY <4>2, <4>4, <4>5, <4>6, <4>7
          <5>3. \A q \in PR : q # l.pr /\ (notices'[b][q] > 0 \/ (\E i \in Item : told'[b][q][i] > 0))
                   => q <= l.pr
            BY <4>4, <4>7
          <5> QED BY <5>1, <5>2, <5>3
        <4>10. Covers(b, mem[w][b])'
          BY <4>2, <4>5, <4>9, NewCovers DEF Covers
        <4> QED BY <4>2, <4>3, <4>8, <4>10
      <3>2. CASE Says(w) /\ row[w] # b
        <4>1. row[w] \in Branch
          BY DEF TypeOK
        <4>2. told'[b] = told[b] /\ notices'[b] = notices[b]
          BY <3>2, <4>1 DEF Says, Say, TypeOK
        <4>3. /\ mem'[w][b] = mem[w][b] /\ file' = file /\ at[w] # "rest" /\ at'[w] # "rest"
              /\ b \in typed[w] => b \in typed'[w]
          BY <1>3, <3>2, <4>1 DEF Says, Say, TypeOK, fileVars
        <4> QED BY <1>2, <1>4, <2>2, <4>2, <4>3
      <3>3. CASE /\ at[w] = "type" /\ at' = [at EXCEPT ![w] = "look"]
                 /\ UNCHANGED <<mem, fileVars, history>>
        <4>1. /\ UNCHANGED <<mem, file, told, notices, typed>> /\ at[w] # "rest" /\ at'[w] # "rest"
          BY <3>3 DEF fileVars, history, saidVars, TypeOK
        <4> QED BY <1>2, <1>4, <2>2, <4>1
      <3> QED BY <2>7, <3>1, <3>2, <3>3, TypeIs
    <2> QED BY <1>6, <2>3, <2>4, <2>5, <2>6, <2>7 DEF Actions
  <1>7. ASSUME NEW w \in Watcher, Actions(w)
        PROVE  \A v \in Watcher : v # w => at'[v] = "rest"
    BY <1>1, <1>7, Sole
  <1> QED BY <1>5, <1>6, <1>7 DEF Next, Pass, Actions

LEMMA Start == ASSUME Init PROVE IInv
  <1>1. Empty \in State /\ \A b \in Branch : Empty[b] = NoSeen
    BY DEF Empty, State
  <1>2. \A w \in Watcher : at[w] = "rest" /\ mem[w] = Empty
    BY DEF Init
  <1>3. \A b \in Branch : /\ held[b] = {}
                          /\ \A p \in PR : notices[b][p] = 0 /\ \A i \in Item : told[b][p][i] = 0
    BY DEF Init
  <1>4. TypeOK
    <2>1. (CHOOSE b \in Branch : TRUE) \in Branch
      BY FeedbackAssumption DEF FeedbackAssumption
    <2>2. row \in [Watcher -> Branch]
      BY <2>1 DEF Init
    <2>3. told \in [Branch -> [PR -> [Item -> 0..2]]] /\ notices \in [Branch -> [PR -> 0..MaxRounds + 1]]
      BY DEF Init
    <2>4. look \in [Watcher -> [pr : 0..MaxPR, items : SUBSET Item, failing : SUBSET Check]]
      BY DEF Init, NoLook
    <2>5. last \in [Branch -> PR] /\ open \in [Branch -> 0..MaxPR] /\ \A b \in Branch : open[b] \in {0, last[b]}
      BY DEF Init, PR
    <2> QED BY <1>1, <2>2, <2>3, <2>4, <2>5 DEF Init, TypeOK
  <1>5. RecordsInv /\ HeldInv
    BY <1>1, <1>2, <1>3 DEF RecordsInv, Marks, HeldInv, Init
  <1>6. LookInv /\ AloneInv /\ SaveInv /\ FreshInv
    BY <1>2 DEF LookInv, AloneInv, SaveInv, FreshInv
  <1>7. CoverInv /\ OnceInv
    BY <1>2, <1>3 DEF CoverInv, Covers, OnceInv
  <1> QED BY <1>4, <1>5, <1>6, <1>7 DEF IInv

LEMMA Step == IInv /\ [Next]_vars => IInv'
  BY Types, RecordsStep, LookStep, SaveStep, CoverStep, HeldStep DEF IInv

-----------------------------------------------------------------------------
(* The theorems *)

\* Every reachable state satisfies the inductive invariant.
THEOREM Invariant == Spec => []IInv
  BY Start, Step, PTL DEF Spec

\* Nothing is marked as said that was not typed at the worker or printed for a human, and
\* nothing is typed twice that no mark was lost of (runPRFeedback, prFeedbackState).
THEOREM MarksAreTrue == Spec => []SaidAsMarked
  <1>1. IInv => SaidAsMarked
    <2> SUFFICES ASSUME IInv, NEW b \in Branch
                 PROVE  /\ \A s \in Records(b) \ {NoSeen} :
                             /\ \A i \in s.items : told[b][s.pr][i] > 0 \/ <<s.pr, i>> \in held[b]
                             /\ {s.pr} \X s.failing \subseteq redTold[b]
                        /\ b \notin spoiled \cup forgotten => \A p \in PR, i \in Item : told[b][p][i] <= 1
      BY DEF SaidAsMarked
    <2>1. \A s \in Records(b) : Marks(b, s)
      BY DEF IInv, RecordsInv, Records
    <2> QED BY <2>1 DEF IInv, OnceInv, Marks
  <1> QED BY <1>1, Invariant, PTL

\* A worker gets no more notices about a pull request than --max-rounds, with the same
\* exceptions, and nothing is held back from one that was not told (prNotice).
THEOREM RoundsAreKept == Spec => []RoundsKept
  <1>1. IInv => RoundsKept
    BY DEF IInv, OnceInv, HeldInv, RoundsKept
  <1> QED BY <1>1, Invariant, PTL
=============================================================================
