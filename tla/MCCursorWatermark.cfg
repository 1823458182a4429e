SPECIFICATION WatermarkSpec
CONSTANTS
  MaxSlices = 3
  MaxTime = 2
INVARIANTS
  WatermarkTypeOK
  SafeLowWatermark
  TightWhenIdle
PROPERTY
  ImplementsLowWatermark
