CONSTANTS
  DivSpan = 4
  TimSpan = 4
  Top = 3
  TimerShifts = {0, 1}
  Lengths = {2}
  Budgets = {3, 20}
SPECIFICATION TimersSpec
INVARIANT SleepsExactly
