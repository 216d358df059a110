CONSTANTS
  NoRca = NoRca
  c1 = c1
  Components = {c1}
  Signals = {s1, s2, s3}
  CompOf <- OneComponent
  WorkerCount = 2
  Workers = 2
  Expiry = TRUE
  Crashes = TRUE
  Failures <- NoFailures
  Retries = 1
  PgAttempts = 1
  MaxSize = 3
  Threshold = 2
  MaxOffers = 3
SPECIFICATION BackendSpec
SYMMETRY SignalSymmetry
INVARIANTS
  IngestTypeOK
  Conservation
  DepthBounded
  ReportAddsUp
PROPERTY DroppedOnlyInRace
