CONSTANTS
  NoRca = NoRca
  c1 = c1
  Components = {c1}
  Signals = {s1, s2, s3}
  CompOf <- OneComponent
  WorkerCount = 1
  Operators = {o1}
  Bodies <- CompleteRca
  MaxItems = 0
  Expiry = FALSE
  Crashes = FALSE
  Failures <- NoFailures
  Retries = 1
  PgAttempts = 1
SPECIFICATION ImsFairSpec
INVARIANTS
  ClosedKeyIsBeingCleared
  OneOpenItem
  CountCoversLinks
PROPERTIES
  EverySignalProcessed
  WindowEndsForCause
  ClosedWindowForCause
  ImplementsWorkItem
