\* A failed assertion of SpiInit halts the R5.
SPECIFICATION Spec
CONSTANT
  Enabled = 3
INVARIANTS
  ConfiguredBeforeSampling
  PairAligned
CHECK_DEADLOCK FALSE
