CONSTANTS
  NoRca = NoRca
  c1 = c1  c2 = c2  s1 = s1  s2 = s2  s3 = s3
  Components = {c1}
  Signals = {s1, s2}
  CompOf <- OneComponent
  WorkerCount = 2
  Expiry = FALSE
  Crashes = FALSE
  Failures <- NoFailures
  Retries = 1
  PgAttempts = 1
SPECIFICATION Spec
INVARIANT NoSignalDropped
