------------------------------ MODULE MCMachine ------------------------------
(***************************************************************************)
(* The modules that say how the machine is kept running, checked in one    *)
(* run: the timers, the frame loop, frame skipping and the cartridge's     *)
(* clock.  They share no variable: a behaviour chooses one of them and     *)
(* runs it, and the others stay where they begin.                          *)
(***************************************************************************)
EXTENDS Timers, FrameLoop, Pacing, Rtc

VARIABLE part

Parts == {"timers", "loop", "pacing", "rtc"}

\* The beginnings that do not matter to the chosen part are not varied.
MCInit ==
  /\ part \in Parts
  /\ TimersInit /\ LoopInit /\ PacingInit /\ RtcInit
  /\ part # "timers" => timerRegs.shift = CHOOSE x \in TimerShifts : TRUE
  /\ part # "pacing" => work = CHOOSE x \in Shown : TRUE

MCNext ==
  /\ UNCHANGED part
  /\ \/ part = "timers" /\ TimersNext /\ UNCHANGED <<loopVars, pacingVars, rtcVars>>
     \/ part = "loop" /\ LoopNext /\ UNCHANGED <<timersVars, pacingVars, rtcVars>>
     \/ part = "pacing" /\ PacingNext /\ UNCHANGED <<timersVars, loopVars, rtcVars>>
     \/ part = "rtc" /\ RtcNext /\ UNCHANGED <<timersVars, loopVars, pacingVars>>

MCVars == <<part, timersVars, loopVars, pacingVars, rtcVars>>

\* The fairness of each module's specification, for the part that runs.
MCSpec == /\ MCInit /\ [][MCNext]_MCVars
          /\ WF_timersVars(part = "timers" /\ Sleep)
          /\ WF_loopVars(part = "loop" /\ LoopNext)
          /\ WF_pacingVars(part = "pacing" /\ Main)
          /\ WF_pacingVars(part = "pacing" /\ Tick)

\* While frames are skipped, the picture of a game that runs moves.
PictureMovesOn == part = "pacing" => PictureMoves

\* Nothing that keeps the machine running stalls: a sleeping CPU wakes up, a game
\* that the player leaves is left, and the picture moves on.
KeepsGoing == SleepersWake /\ ExitLeaves /\ PictureMovesOn
=============================================================================
