CONSTANTS
  NoRca = NoRca
  c1 = c1
  Components = {c1}
  Signals = {s1}
  CompOf <- OneComponent
  WorkerCount = 1
  Operators = {o1, o2}
  Bodies <- SomeBodies
  MaxItems = 0
  Expiry = TRUE
  Crashes = TRUE
  Failures <- LostAnswers
  Retries = 1
  PgAttempts = 1
SPECIFICATION ImsSpec
SYMMETRY TeamSymmetry
INVARIANTS
  ClosedIsDocumented
  CloseIsEarned
  ViewsDocumented
  OpenStaysInFeed
PROPERTY ClosedWindowForCause
