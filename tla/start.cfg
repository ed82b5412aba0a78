SPECIFICATION OnboardingSpec
CONSTANTS
  Delivery = {d1}
  d1 = d1
  Approve = {a1}
  a1 = a1
  Account = {ann, bot}
  ann = ann
  bot = bot
  Who <- OneApprover
  Listed = {ann}
  Text = {t1, t2, t3}
  t1 = t1
  t2 = t2
  t3 = t3
  Filed = t1
  Malformed = {t3}
  NoText = NoText
  Required = FALSE
  Window = 2
  OldHerdr = FALSE
  Faults = {"callFails", "answerLost", "paneMoves"}
  MaxPolls = 1
  MaxEvents = 2
  Command = {c1, c2}
  c1 = c1  c2 = c2
  Starter = {s1}
  s1 = s1
  Lesson = {l1, l2}
  l1 = l1  l2 = l2
  Words = {w1, w2}
  w1 = w1  w2 = w2
  Todo = Todo  Nobody = Nobody
  Ledger <- TwoCycles
  PerBrief = 1
  Lifetime = 1
  MaxEdits = 1
INVARIANTS TaughtAsAgreed LessonsKept  RefusedForCause NoBlindKey IdleIsReadRightly
PROPERTY StartEnds
CHECK_DEADLOCK FALSE
