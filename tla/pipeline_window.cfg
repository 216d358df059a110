CONSTANTS
  NoRca = NoRca
  c1 = c1  c2 = c2  s1 = s1  s2 = s2  s3 = s3
  Components = {c1, c2}
  Signals = {s1, s2, s3}
  CompOf <- TwoComponents
  WorkerCount = 3
  Expiry = FALSE
  Crashes = TRUE
  Failures <- CleanFailures
  Retries = 2
  PgAttempts = 2
SPECIFICATION FairSpec
PROPERTIES
  ImplementsDebouncer
  EverySignalSettles
INVARIANTS
  TypeOK
  OneItemPerComponent
  ClaimHeldAtCreate
  EveryItemAnnounced
  ProcessedOnce
  CountsSettle
