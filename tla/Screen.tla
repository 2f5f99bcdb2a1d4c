------------------------------- MODULE Screen -------------------------------
(***************************************************************************)
(* The picture the frame loop shows: lcd_refreshline (lcd.c) draws every   *)
(* line at the row vdest points to and moves it on, lcd_begin moves it     *)
(* back to the top, and vid_end (sys/dc/dc.c) shows the picture and may    *)
(* switch drawing off for the next one (frame skipping, see Pacing).       *)
(* Nothing ties vdest to LY but that both are moved at the same events.    *)
(*                                                                         *)
(* FrameLoop with these variables added: its steps end anywhere within a   *)
(* line, before or after that line has been drawn.                         *)
(***************************************************************************)
EXTENDS FrameLoop

VARIABLES
  drawn,        \* the line the LCD is at has been drawn
  vdest,        \* the row drawn next; Visible stands for all rows below the picture
  enabled,      \* fb.enabled
  picture,      \* history: by row, the line drawn there since the top
  clean,        \* history: since vdest was at the top it moved with LY
  savedDrawn    \* drawn, for the saved state

screenVars == <<loopVars, drawn, vdest, enabled, picture, clean, savedDrawn>>

Nothing == [r \in 0 .. Visible - 1 |-> Visible]   \* Visible: no line of this frame

ScreenInit ==
  /\ LoopInit
  /\ drawn = FALSE /\ vdest = 0 /\ enabled = TRUE
  /\ picture = Nothing /\ clean = TRUE
  /\ savedDrawn = FALSE
-----------------------------------------------------------------------------
Top == [vdest |-> 0, picture |-> Nothing]
Here == [vdest |-> vdest, picture |-> picture]

\* lcd_refreshline for line l, called for visible lines with the LCD on.
RefreshLine(p, l) ==
  IF ~ enabled \/ p.vdest = Visible THEN p
  ELSE [vdest |-> p.vdest + 1, picture |-> [p.picture EXCEPT ![p.vdest] = l]]

LineIfVisible(p, l) == IF l < Visible THEN RefreshLine(p, l) ELSE p

\* A line's time: the line is drawn if it has not been, and the next one may be,
\* with lcd_begin before line 0.
DrawOn ==
  LET p == IF on /\ ~ drawn THEN LineIfVisible(Here, beam) ELSE Here
      q == IF on /\ beam' = 0 THEN Top ELSE p
      r == IF drawn' THEN LineIfVisible(q, beam') ELSE q
  IN /\ drawn' \in IF on THEN BOOLEAN ELSE {FALSE}
     /\ vdest' = r.vdest /\ picture' = r.picture
     /\ clean' = (clean \/ (on /\ beam' = 0))

DrawSwitchedOnly ==
  LET r == IF drawn' THEN LineIfVisible(Here, 0) ELSE Here
  IN /\ drawn' \in IF on' THEN BOOLEAN ELSE {FALSE}
     /\ vdest' = r.vdest /\ picture' = r.picture
     /\ clean' = TRUE

\* lcdc_change begins a new picture; on again, line 0 may be drawn.
DrawSwitched ==
  LET r == IF drawn' THEN LineIfVisible(Top, 0) ELSE Top
  IN /\ drawn' \in IF on' THEN BOOLEAN ELSE {FALSE}
     /\ vdest' = r.vdest /\ picture' = r.picture
     /\ clean' = TRUE

DrawLines ==
  /\ Run \/ Step
  /\ \/ NextLine /\ DrawOn
     \/ SwitchLcd /\ DrawSwitched
  /\ UNCHANGED <<enabled, savedDrawn>>

\* vid_end: the picture goes to the screen if it was drawn, and the next one is
\* drawn or skipped.
ShowPicture ==
  /\ FrameEnds
  /\ enabled' \in BOOLEAN
  /\ clean' = (clean /\ (drawn /\ LY = 0 => enabled' = enabled))
  /\ UNCHANGED <<drawn, vdest, picture, savedDrawn>>

\* ev_poll without a menu.
PollOnly ==
  /\ PollPad
  /\ UNCHANGED <<drawn, vdest, enabled, picture, clean, savedDrawn>>

\* A menu is drawn over the picture and cleared away (dc_vid_empty).
MenuDrawn ==
  /\ vdest' = vdest /\ enabled' = enabled
  /\ picture' = Nothing

LeaveMenu ==
  /\ Exit \/ MenuSave
  /\ MenuDrawn
  /\ drawn' = drawn
  /\ clean' = (clean /\ ~ (drawn /\ LY = 0))
  /\ savedDrawn' = IF MenuSave THEN drawn ELSE savedDrawn

\* loadstate replaces LY, and leaves the row.
LoadInMenu ==
  /\ MenuLoad
  /\ MenuDrawn
  /\ drawn' = savedDrawn
  /\ clean' = FALSE
  /\ UNCHANGED savedDrawn

GoOn ==
  /\ FrameBegins \/ Done
  /\ UNCHANGED <<drawn, vdest, enabled, picture, clean, savedDrawn>>

ScreenNext == \/ DrawLines \/ ShowPicture \/ PollOnly \/ LeaveMenu \/ LoadInMenu \/ GoOn

ScreenSpec == ScreenInit /\ [][ScreenNext]_screenVars
-----------------------------------------------------------------------------
ScreenTypeOK ==
  /\ drawn \in BOOLEAN /\ enabled \in BOOLEAN /\ clean \in BOOLEAN /\ savedDrawn \in BOOLEAN
  /\ vdest \in 0 .. Visible
  /\ picture \in [0 .. Visible - 1 -> 0 .. Visible]

\* A picture that is shown at the vertical blank shows every line of one frame in
\* its row, whenever frames are skipped, the LCD is switched or menus are drawn
\* over it; only a state load, or a change of frame skipping after line 0 has
\* been drawn, makes vdest and LY part until the next top of the screen.
PictureWhole ==
  /\ ScreenTypeOK
  /\ at = "visible" /\ ~ MoreLines /\ LY >= Visible /\ enabled /\ clean =>
       \A r \in 0 .. Visible - 1 : picture[r] = r
=============================================================================
