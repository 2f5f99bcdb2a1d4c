CONSTANTS
  DivSpan = 4
  TimSpan = 4
  Top = 3
  TimerShifts = {0, 1}
  Lengths = {2}
  Budgets = {3, 20}
  Visible = 20
  First = 4
  OffLines = 26
  Periods = {3, 5}
  Shown = {5, 6, 11}
  Hidden = {1, 2}
  Slowest = 11
  SlowestHidden = 2
  MaxIgnored = 3
  MaxLost = 2
  Frames = 2
  Seconds = 2
  Minutes = 2
  Hours = 2
  Year = 3
  Low = 2
  Bytes = {1, 2}
  Games = {"gold"}
  MaxDay = 5
SPECIFICATION MCSpec
INVARIANTS ChunksAreCycles SleepsExactlySingle PollsInTime SteadyFrames
  Accounted InPace
PROPERTIES KeepsTime KeepsGoing
