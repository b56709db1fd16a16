SPECIFICATION Spec
CONSTANTS
  SampleMax = 2
  WdPeriod = 1
  WdExpire = 2
  IgdPeriod = 1
INVARIANT
  ThetaEstimated
