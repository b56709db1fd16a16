SPECIFICATION Spec
CONSTANTS
  PeriodHalf = 10
  MinDuty = 2
  MaxDuty = 16
  DeadTicks = 1
  WordSize = 32
  StartDuty <- MCStartDuty
  DutyRequests <- MCDutyRequests
INVARIANTS
  PulseFromOneDutySet
  DeadTimeKept
  NoUpdateSkipped
  NoEventLost
  EventCadence
  SilentAfterStop
PROPERTIES
  KeepsContract
  ImplementsRegister
