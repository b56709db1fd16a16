SPECIFICATION FairSpec
CONSTANTS
  SampleMax = 2
  WdPeriod = 1
  WdExpire = 2
  IgdPeriod = 1
PROPERTY
  StopStopsPwm
