------------------------------ MODULE FrameLoop ------------------------------
(***************************************************************************)
(* emu_run (emu.c): the loop that runs the machine from one vertical blank *)
(* to the next and, between two frames, shows the picture, polls the pad   *)
(* and opens the menus.  It finds the vertical blank by looking at LY, and *)
(* the game may switch the LCD off and on whenever it likes.               *)
(*                                                                         *)
(* Time passes in lines.  What happens within a line is Lcdc's subject:    *)
(* here a line of emulation ends with the next line, with the LCD off, or  *)
(* with an LCD that has just been switched on and is at its first line.    *)
(***************************************************************************)
EXTENDS Integers

CONSTANTS
  Visible,    \* visible lines (144)
  First,      \* lines emulated before LY is looked at (2280 cycles, 10 lines)
  OffLines    \* lines emulated in one go while the LCD is off (32832 cycles, 144)

Blank == 10   \* lines of the vertical blank; LY reads 0 during the last one
Lines == Visible + Blank

\* LY has left the top and has not reached the blank when it is looked at.
ASSUME FrameLoopAssumption ==
  /\ Visible \in Nat
  /\ First \in 2 .. Visible
  /\ OffLines \in Nat \ {0}
  /\ First + OffLines = Lines

VARIABLES
  at,        \* where emu_run is
  on, beam,  \* R_LCDC & 0x80, the line the LCD is at
  left,      \* lines left of the current call of cpu_emulate
  interrupted, exit_game_loop,
  saved,     \* what the saved state, if there is one, holds of the LCD
  since,     \* history: lines since the last poll
  regular    \* history: the LCD has been left alone since the last poll, which
             \* came at the vertical blank or with the LCD off

loopVars == <<at, on, beam, left, interrupted, exit_game_loop, saved, since, regular>>

\* The loop emulates without looking; looks at LY; is between two frames.
Running == {"first", "off"}
Looking == {"visible", "blank"}

LY == IF beam = Lines - 1 THEN 0 ELSE beam

LoopTypeOK ==
  /\ at \in Running \cup Looking \cup {"poll", "left"}
  /\ on \in BOOLEAN /\ beam \in 0 .. Lines - 1
  /\ left \in 0 .. First + OffLines
  /\ interrupted \in BOOLEAN /\ exit_game_loop \in BOOLEAN
  /\ saved \subseteq [on : BOOLEAN, beam : 0 .. Lines - 1]
  /\ since \in Nat /\ regular \in BOOLEAN

LoopInit ==
  /\ at = "first" /\ left = First
  /\ on = TRUE /\ beam = 0
  /\ interrupted = FALSE /\ exit_game_loop = FALSE
  /\ saved = {}
  /\ since = 0 /\ regular = FALSE
-----------------------------------------------------------------------------
\* A line of emulation: lcdc_trans moves on to the next line if the LCD is on.
NextLine ==
  /\ on' = on
  /\ beam' = IF ~ on THEN beam ELSE IF beam = Lines - 1 THEN 0 ELSE beam + 1
  /\ regular' = regular

\* ... and lcdc_change restarts at the top when the game switches the LCD; both
\* ways within a line it is on again.
SwitchLcd ==
  /\ on' \in BOOLEAN
  /\ beam' = 0
  /\ regular' = FALSE

Line ==
  /\ NextLine \/ SwitchLcd
  /\ since' = since + 1
  /\ UNCHANGED <<interrupted, exit_game_loop, saved>>

\* cpu_emulate(2280) and cpu_emulate(32832) run to their end.
Run ==
  /\ at \in Running
  /\ Line
  /\ left' = left - 1
  /\ at' = IF left' > 0 THEN at
           ELSE IF at = "first" THEN "visible" ELSE "blank"

MoreLinesAtTop ==
  \/ at = "visible" /\ LY < Visible
  \/ at = "blank" /\ LY > 0

\* while (R_LY > 0 && R_LY < 144), while (R_LY > 0)
MoreLines ==
  \/ at = "visible" /\ LY \in 1 .. Visible - 1
  \/ at = "blank" /\ LY > 0

Step ==
  /\ at \in Looking /\ MoreLines
  /\ Line
  /\ UNCHANGED <<at, left>>

\* vid_end, rtc_tick, render_pcm, and on to doevents.
FrameEnds ==
  /\ at = "visible" /\ ~ MoreLines
  /\ at' = "poll"
  /\ UNCHANGED <<on, beam, left, interrupted, exit_game_loop, saved, since, regular>>

ResumeOnly(o, b) ==
  /\ on' = o /\ beam' = b
  /\ since' = 0
  /\ regular' = (~ o \/ b = Visible)
  /\ at' = "blank" /\ left' = 0

\* After ev_poll: with the LCD off the time of the visible lines is spent.
ResumeWith(o, b) ==
  /\ on' = o /\ beam' = b
  /\ since' = 0
  /\ regular' = (~ o \/ b = Visible)
  /\ IF o THEN at' = "blank" /\ left' = 0
     ELSE at' = "off" /\ left' = OffLines

\* ev_poll: nothing, or the analog stick changes the frame rate.
PollPad ==
  /\ at = "poll"
  /\ interrupted' \in {interrupted, TRUE}
  /\ ResumeWith(on, beam)
  /\ UNCHANGED <<exit_game_loop, saved>>

\* R trigger, L trigger and START.
Exit ==
  /\ at = "poll"
  /\ exit_game_loop' = TRUE /\ interrupted' = TRUE
  /\ ResumeWith(on, beam)
  /\ UNCHANGED saved

\* A menu, in which a state may be saved or loaded.
MenuSave ==
  /\ at = "poll"
  /\ interrupted' = TRUE
  /\ saved' = {[on |-> on, beam |-> beam]}
  /\ ResumeWith(on, beam)
  /\ UNCHANGED exit_game_loop

MenuLoad ==
  /\ at = "poll"
  /\ interrupted' = TRUE
  /\ \E s \in saved : ResumeWith(s.on, s.beam)
  /\ UNCHANGED <<exit_game_loop, saved>>

\* The next frame; an interrupted loop sets up the timer again, or is left.
FrameBegins ==
  /\ at = "blank" /\ ~ MoreLines
  /\ interrupted' = FALSE
  /\ IF interrupted /\ exit_game_loop
     THEN at' = "left" /\ left' = 0
     ELSE at' = "first" /\ left' = First
  /\ UNCHANGED <<on, beam, exit_game_loop, saved, since, regular>>

Done == at = "left" /\ UNCHANGED loopVars

LoopNext == \/ Run \/ Step \/ FrameEnds \/ PollPad \/ Exit \/ MenuSave \/ MenuLoad
        \/ FrameBegins \/ Done

\* The loop is the program's only thread: it goes on until it is left.  What the
\* game and the player do in a step is theirs to choose.
LoopSpec == LoopInit /\ [][LoopNext]_loopVars /\ WF_loopVars(LoopNext)
-----------------------------------------------------------------------------
\* However the game switches the LCD, and whatever state is loaded, the loop
\* polls at the latest after three frames' time: one spent with the LCD off,
\* one waiting for LY to get back to 0, one for the frame itself.
PollsInTime == since <= OffLines + Lines + First + Visible

\* While the game leaves the LCD alone, on or off, a frame is a frame: the
\* polls are exactly Lines lines apart (emu.c:84-103).
SteadyFrames == at = "poll" /\ regular => since = Lines

\* A game the player leaves is left, whatever the game does with the LCD.
ExitLeaves == exit_game_loop ~> at = "left"
=============================================================================
