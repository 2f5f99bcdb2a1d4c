CONSTANTS
  Visible = 2
  Oam = 3
  Transfer = 3
  Hblank = 3
  Line = 9
  Entry = 2
  Rest = 7
  Short = 3
  Long = 6
  Lengths <- MCLengths
  Budgets <- MCBudgets
  MaxDebt = 9
  Masks <- MCMasks
  Selections <- MCSelections
  Compares <- MCCompares
  Blocks <- MCBlocks
  Color = FALSE
SPECIFICATION FairSpec
INVARIANTS
  LinesOnTime StatLineCurrent VblankLineUp
PROPERTIES
  EnabledOnTime SleepersWake
