SPECIFICATION FairSpec
CONSTANTS
  TbClk = 48
  OutFreq = 4
  Increment <- SmallIncrement
  DutyPercent = 5
  Threshold = 2
  Half = 8
  StartCounts = {0, 5, 7}
INVARIANTS
  DutyInRange
  InPhase
  LagsByTwoSteps
  NeverDeaf
PROPERTY
  KeepsSweeping
