-------------------------------- MODULE Pacing --------------------------------
(***************************************************************************)
(* Frame skipping (sys/dc/dc.c).  A timer interrupt counts in rest_frames  *)
(* the frames that are due; vid_end, at the end of every emulated frame,   *)
(* takes one off and, when more are due, lets that many of the following   *)
(* frames go by without drawing them.  The interrupt may come between any  *)
(* two of vid_end's accesses to rest_frames: they are steps of their own.  *)
(*                                                                         *)
(* Time passes in units while a frame is emulated; the timer's period and  *)
(* the time frames take are given in them.                                 *)
(***************************************************************************)
EXTENDS Integers

CONSTANTS
  Periods,   \* units between two ticks, one for each of the AUTO settings
  Shown,     \* units that a frame which is drawn and shown may take
  Hidden,    \* ... and one that is not
  Slowest,   \* bounds on the two
  SlowestHidden,
  MaxIgnored, \* bound: ticks counted while NO SKIP ignores them
  MaxLost    \* bound: ticks lost since the timer was set

NoSkip == 0  \* the setting NO SKIP; its timer ticks once a second

ASSUME PacingAssumption ==
  /\ Slowest \in Nat /\ SlowestHidden \in Nat
  /\ Shown \subseteq 1 .. Slowest /\ Shown # {}
  /\ Hidden \subseteq 1 .. SlowestHidden /\ Hidden # {}
  /\ Periods \subseteq Nat \ {NoSkip}
  /\ MaxIgnored \in Nat /\ MaxLost \in Nat

\* What the console must be fast enough for: the picture is flipped with the
\* display, not faster than frames are due, and a frame that is not drawn takes
\* less time than there is.
ASSUME SpeedAssumption ==
  \A p \in Periods : SlowestHidden < p /\ \A s \in Shown : p <= s

VARIABLES
  pc,            \* where the main program is
  frameskip_rate, \* the setting
  timer,         \* the setting the timer was set to
  clock,         \* units since the last tick
  rest_frames, drop_frames,
  read,          \* the value of rest_frames that vid_end has read
  enabled,       \* fb.enabled: the frame is drawn and will be shown
  work,          \* units the frame still takes
  interrupt_game_loop,
  due,           \* history: frames due less frames emulated since the timer was set
  lost           \* history: ticks that vid_end has overwritten since then

counts == <<rest_frames, drop_frames, due, lost>>
pacingVars == <<pc, frameskip_rate, timer, clock, counts, read, enabled, work,
                interrupt_game_loop>>

Settings == Periods \cup {NoSkip}

PacingTypeOK ==
  /\ pc \in {"frame", "decrement", "compare", "copy", "clear", "poll", "blank"}
  /\ frameskip_rate \in Settings /\ timer \in Settings
  /\ clock \in 0 .. timer
  /\ rest_frames \in Int /\ due \in Int /\ read \in Int
  /\ drop_frames \in Nat /\ lost \in 0 .. MaxLost
  /\ enabled \in BOOLEAN /\ work \in 0 .. Slowest + SlowestHidden
  /\ interrupt_game_loop \in BOOLEAN

\* clear_rest_frames: the frame that is being emulated is due.
Cleared == 1
clear_rest_frames_KeepsDrop ==
  /\ rest_frames' = Cleared /\ UNCHANGED drop_frames
  /\ due' = Cleared + drop_frames /\ lost' = 0

clear_rest_frames ==
  /\ rest_frames' = Cleared /\ drop_frames' = 0
  /\ due' = Cleared /\ lost' = 0

\* sys_initall, sys_set_timer.
PacingInit ==
  /\ pc = "frame"
  /\ frameskip_rate = NoSkip /\ timer = NoSkip /\ clock = 0
  /\ rest_frames = Cleared /\ drop_frames = 0 /\ due = Cleared /\ lost = 0
  /\ read = 0
  /\ enabled = TRUE /\ work \in Shown
  /\ interrupt_game_loop = FALSE
-----------------------------------------------------------------------------
(* The timer interrupt.                                                    *)

\* What vid_end has read it will store or act upon, and forget this tick.
Overwritten == pc \in {"decrement", "clear"}

timer_handler ==
  /\ rest_frames' = rest_frames + 1 /\ due' = due + 1
  /\ lost' = IF Overwritten THEN lost + 1 ELSE lost
  /\ UNCHANGED <<pc, frameskip_rate, timer, drop_frames, read, enabled, work,
                 interrupt_game_loop>>

Tick ==
  /\ timer # NoSkip /\ clock = timer
  /\ clock' = 0
  /\ Overwritten => lost < MaxLost
  /\ timer_handler

TickIgnored ==
  /\ timer = NoSkip /\ rest_frames < MaxIgnored /\ ~ Overwritten
  /\ timer_handler
  /\ UNCHANGED clock
-----------------------------------------------------------------------------
(* The main program.                                                       *)

\* A unit of time of the frame.
Emulate ==
  /\ pc = "frame" /\ work > 0
  /\ timer = NoSkip \/ clock < timer
  /\ work' = work - 1
  /\ clock' = IF timer = NoSkip THEN 0 ELSE clock + 1
  /\ UNCHANGED <<pc, frameskip_rate, timer, counts, read, enabled, interrupt_game_loop>>

VidEnd == pc = "frame" /\ work = 0

\* vid_end: the frame is shown if it was drawn; the setting NO SKIP does no more.
EndNoSkip ==
  /\ VidEnd /\ frameskip_rate = NoSkip
  /\ enabled' = TRUE
  /\ pc' = "poll"
  /\ UNCHANGED <<frameskip_rate, timer, clock, counts, read, work, interrupt_game_loop>>

\* The next frame is one of those to drop.
EndDrop ==
  /\ VidEnd /\ frameskip_rate # NoSkip /\ drop_frames > 0
  /\ enabled' = FALSE
  /\ drop_frames' = drop_frames - 1 /\ due' = due - 1
  /\ pc' = "poll"
  /\ UNCHANGED <<frameskip_rate, timer, clock, rest_frames, lost, read, work,
                 interrupt_game_loop>>

\* --rest_frames reads ...
EndCount ==
  /\ VidEnd /\ frameskip_rate # NoSkip /\ drop_frames = 0
  /\ enabled' = TRUE
  /\ read' = rest_frames
  /\ pc' = "decrement"
  /\ UNCHANGED <<frameskip_rate, timer, clock, counts, work, interrupt_game_loop>>

\* ... and writes.
Decrement ==
  /\ pc = "decrement"
  /\ rest_frames' = read - 1 /\ due' = due - 1
  /\ pc' = "compare"
  /\ UNCHANGED <<frameskip_rate, timer, clock, drop_frames, lost, read, enabled, work,
                 interrupt_game_loop>>

Compare ==
  /\ pc = "compare"
  /\ pc' = IF rest_frames > 0 THEN "copy" ELSE "poll"
  /\ UNCHANGED <<frameskip_rate, timer, clock, counts, read, enabled, work,
                 interrupt_game_loop>>

\* drop_frames = rest_frames
Copy ==
  /\ pc = "copy"
  /\ drop_frames' = rest_frames
  /\ pc' = "clear"
  /\ UNCHANGED <<frameskip_rate, timer, clock, rest_frames, due, lost, read, enabled,
                 work, interrupt_game_loop>>

ClearNothing ==
  /\ pc = "clear"
  /\ pc' = "poll"
  /\ UNCHANGED <<frameskip_rate, timer, clock, counts, read, enabled, work,
                 interrupt_game_loop>>

\* rest_frames = 0
Clear ==
  /\ pc = "clear"
  /\ rest_frames' = 0
  /\ pc' = "poll"
  /\ UNCHANGED <<frameskip_rate, timer, clock, drop_frames, due, lost, read, enabled,
                 work, interrupt_game_loop>>

\* ev_poll: nothing that matters here.
Poll ==
  /\ pc = "poll"
  /\ pc' = "blank"
  /\ UNCHANGED <<frameskip_rate, timer, clock, counts, read, enabled, work,
                 interrupt_game_loop>>

\* The analog stick chooses a setting.
SetFrameskip(s) ==
  /\ pc = "poll"
  /\ frameskip_rate' = s /\ interrupt_game_loop' = TRUE
  /\ pc' = "blank"
  /\ UNCHANGED <<timer, clock, counts, read, enabled, work>>

\* A menu: the timer runs on, and what it has counted is forgotten.
Menu(s) ==
  /\ pc = "poll"
  /\ frameskip_rate' = s /\ interrupt_game_loop' = TRUE
  /\ clock' \in 0 .. timer
  /\ clear_rest_frames
  /\ pc' = "blank"
  /\ UNCHANGED <<timer, read, enabled, work>>

\* The next frame; an interrupted loop sets the timer anew.
NextFrame ==
  /\ pc = "blank"
  /\ pc' = "frame"
  /\ work' \in IF enabled THEN Shown ELSE Hidden
  /\ interrupt_game_loop' = FALSE
  /\ IF interrupt_game_loop
     THEN timer' = frameskip_rate /\ clock' = 0 /\ clear_rest_frames
     ELSE UNCHANGED <<timer, clock, counts>>
  /\ UNCHANGED <<frameskip_rate, read, enabled>>

End == EndNoSkip \/ EndDrop \/ EndCount
Main ==
  \/ Emulate \/ End \/ Decrement \/ Compare \/ Copy \/ Clear \/ Poll
  \/ \E s \in Settings : SetFrameskip(s) \/ Menu(s)
  \/ NextFrame

PacingNext == Main \/ Tick \/ TickIgnored

\* The main program runs, and a tick that is due is handled.
PacingSpec == /\ PacingInit /\ [][PacingNext]_pacingVars
              /\ WF_pacingVars(Main) /\ WF_pacingVars(Tick)
-----------------------------------------------------------------------------
\* Between two calls of vid_end no tick has gone astray: every frame that is due
\* is counted as due or as to be dropped, but for the ticks that hit vid_end in
\* the two places where it overwrites them (dc.c:218, dc.c:223).
Accounted ==
  pc \in {"frame", "compare", "poll", "blank"} => rest_frames + drop_frames + lost = due

\* The console never runs ahead of the timer, lost ticks apart: the counter
\* starts at 1, not 0, because a frame may end just before its tick is handled.
NeverAhead == pc = "frame" /\ timer # NoSkip => rest_frames + lost >= 0

\* After a slow frame the picture stands still only for as long as it takes to
\* catch up with the slowest frame, never longer and longer.
CatchesUp ==
  timer # NoSkip => drop_frames * (timer - SlowestHidden) <= Slowest + timer

\* Both: the console is neither ahead of the timer nor ever further behind.
InPace == PacingTypeOK /\ NeverAhead /\ CatchesUp

\* Whatever is set, and however slow a shown frame is, frames are shown again.
PictureMoves == []<>(pc = "frame" /\ enabled)
=============================================================================
