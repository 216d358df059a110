CONSTANTS
  NoRca = NoRca
  c1 = c1  c2 = c2  s1 = s1  s2 = s2  s3 = s3
  Components = {c1}
  Signals = {s1, s2}
  CompOf <- OneComponent
  WorkerCount = 2
  Expiry = TRUE
  Crashes = TRUE
  Failures <- LostAnswers
  Retries = 2
  PgAttempts = 1
SPECIFICATION Spec
SYMMETRY SignalSymmetry
PROPERTIES
  ImplementsDebouncer
INVARIANTS
  RecordsAgree
  CountCoversLinks
  PlaceholderIsHeld
  DuplicatesBounded
