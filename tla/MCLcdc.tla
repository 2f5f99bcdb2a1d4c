------------------------------- MODULE MCLcdc -------------------------------
(* A short screen and short lines for the checks of Lcdc.                  *)
EXTENDS Lcdc

MCLengths == {1, 2}
MCBudgets == {1, 9}
MCMasks == {{}, {VBLANK}, {STAT, DEVICE}}
MCSelections == {{"oam"}, {"hblank", "lyc"}}
MCCompares == {0, 2}
MCBlocks == {0}
=============================================================================
