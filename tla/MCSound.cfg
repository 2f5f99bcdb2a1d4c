CONSTANTS
  Size = 4
  Writes = {w1, w2, w3}
  Values = {0, 1}
  Initial = 0
  Capacity = 2
  Rate = 2
  PcmLen = 1
  Ticks <- MCTicks
  Modulus = 5
  SampleTime = 2
  LengthUnit = 3
  VolumeUnit = 3
  SweepUnit = 3
  Steps <- MCSteps
  DirtyUnit <- MCDirtyUnit
  Loudest <- MCLoudest
  Lows <- MCLows
  Highs <- MCHighs
  Periods <- MCPeriods
  OffPeriod <- MCOffPeriod
  SweepPeriods = {0, 1}
  Shifts = {0, 1}
  Half = 6
  FrameTime = 3
  CopyTime = 1
  PublishTime = 1
  Rates = {1, 2}
SPECIFICATION MCSpec
INVARIANTS WritesTakeEffect DerivedFresh StartsAsAsked InStep
PROPERTIES ImplementsFifo SoundsAsSet HandshakeEnds
