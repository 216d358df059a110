CONSTANTS
  NoRca = NoRca
  Components = {c1}
  Signals = {}
  Expiry = FALSE
  Crashes = FALSE
  Operators = {o1, o2}
  Bodies <- AllBodies
  MaxItems = 1
  Failures <- NoFailures
  Retries = 1
  PgAttempts = 1
SPECIFICATION ApiSpec
PROPERTY ClosedIsTerminal
