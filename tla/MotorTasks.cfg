SPECIFICATION Spec
CONSTANTS
  SampleMax = 3
  WdPeriod = 1
  WdExpire = 3
  IgdPeriod = 1
INVARIANTS
  MeansAreExact
  StopWithinOneIteration
  GateOffIsFinal
  WatchdogMargin
PROPERTIES
  StopNotOverwritten
  KeepsContract
