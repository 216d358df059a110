CONSTANTS
  WorkerTasks = {w1}
  Throughput = throughput
  MaxQueue = 1
  FailureThreshold = 2
SPECIFICATION MonitorFairSpec
INVARIANTS
  DatabasesStayClosed
  MonitorTypeOK
PROPERTIES
  StopCompletes
  CulpritNamed
  PageRecovers
