CONSTANTS
  NoRca = NoRca
  Components = {c1}
  Signals = {}
  Expiry = TRUE
  Crashes = TRUE
  Operators = {o1}
  Bodies <- AllBodies
  MaxItems = 2
  Failures <- LostAnswers
  Retries = 1
  PgAttempts = 2
SPECIFICATION ApiFairSpec
INVARIANTS
  ApiTypeOK
PROPERTIES
  ClosedIsTerminal
  ImplementsWorkItem
  EveryRequestAnswered
