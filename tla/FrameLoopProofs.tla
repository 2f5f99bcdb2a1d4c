--------------------------- MODULE FrameLoopProofs ---------------------------
(***************************************************************************)
(* Proofs about the frame loop, for every screen and every way a game may  *)
(* switch the LCD: the pad is polled in time, a game that leaves the LCD   *)
(* alone gets frames of equal length, and the picture shown is whole.      *)
(***************************************************************************)
EXTENDS Screen, TLAPS

\* With the LCD off there is no line to be at, in a saved state neither.
OffAtTop == /\ ~ on => beam = 0
            /\ \A s \in saved : ~ s.on => s.beam = 0

Bound == OffLines + Lines + First + Visible

\* How many lines have passed since the last poll, at every point of the loop,
\* and those it still has to emulate before LY lets it go on.
InTime ==
  /\ at = "off" => left \in 1 .. OffLines /\ since = OffLines - left
  /\ at = "blank" => /\ since <= OffLines + Lines
                     /\ beam > 0 => since + (Lines - 1 - beam) <= OffLines + Lines
  /\ at = "first" => left \in 1 .. First /\ since <= OffLines + Lines + First - left
  /\ at = "visible" /\ beam \in 1 .. Visible - 1 => since + (Visible - beam) <= Bound
  /\ since <= Bound

\* ... and how many exactly when nobody has touched the LCD.
SteadyOff ==
  regular /\ ~ on =>
    /\ at = "blank" => since = OffLines
    /\ at = "first" => since = OffLines + First - left
    /\ at \in {"visible", "poll"} => since = Lines

SteadyOn ==
  regular /\ on =>
    /\ at # "off"
    /\ at = "blank" => beam \in Visible .. Lines - 1 /\ since = beam - Visible
    /\ at = "first" => /\ since = Blank - 1 + First - left
                       /\ left = First => beam = Lines - 1
                       /\ left < First => beam = First - left - 1
    /\ at = "visible" => beam \in First - 1 .. Visible /\ since = beam + Blank
    /\ at = "poll" => since = Lines

LoopInv == LoopTypeOK /\ OffAtTop /\ InTime /\ SteadyOff /\ SteadyOn

LEMMA Numbers ==
  /\ Visible \in Nat /\ First \in Nat /\ OffLines \in Nat
  /\ 2 <= First /\ First <= Visible /\ First + OffLines = Lines
  /\ Lines \in Nat /\ Lines = Visible + 10 /\ Blank = 10 /\ OffLines >= 10
BY FrameLoopAssumption DEF Lines, Blank

LEMMA LoopBegins == LoopInit => LoopInv
<1>. SUFFICES ASSUME LoopInit PROVE LoopInv
  OBVIOUS
<1>1. /\ at = "first" /\ left = First /\ on = TRUE /\ beam = 0
      /\ saved = {} /\ since = 0 /\ regular = FALSE
      /\ interrupted = FALSE /\ exit_game_loop = FALSE
  BY DEF LoopInit
<1>2. beam \in 0 .. Lines - 1 /\ left \in 0 .. First + OffLines /\ since \in Nat
  BY <1>1, Numbers
<1>3. LoopTypeOK
  BY <1>1, <1>2 DEF LoopTypeOK, Running, Looking
<1>4. OffAtTop /\ SteadyOff /\ SteadyOn
  BY <1>1 DEF OffAtTop, SteadyOff, SteadyOn
<1>5. InTime
  BY <1>1, Numbers DEF InTime, Bound
<1>. QED
  BY <1>3, <1>4, <1>5 DEF LoopInv

\* A line of emulation leaves the LCD at a line, at the top when it is off.
LEMMA LineStep ==
  ASSUME LoopInv, Line
  PROVE  /\ since' = since + 1
         /\ on' \in BOOLEAN /\ beam' \in 0 .. Lines - 1 /\ regular' \in BOOLEAN
         /\ saved' = saved /\ OffAtTop'
         /\ UNCHANGED <<interrupted, exit_game_loop>>
         /\ beam' = 0 \/ (on /\ on' /\ beam' = beam + 1) \/ (~ on /\ beam' = beam)
         /\ regular' => /\ regular /\ on' = on
                        /\ on => beam' = IF beam = Lines - 1 THEN 0 ELSE beam + 1
<1>1. /\ on \in BOOLEAN /\ beam \in 0 .. Lines - 1 /\ regular \in BOOLEAN
      /\ ~ on => beam = 0
      /\ \A s \in saved : ~ s.on => s.beam = 0
      /\ since' = since + 1 /\ saved' = saved
      /\ UNCHANGED <<interrupted, exit_game_loop>>
  BY DEF LoopInv, LoopTypeOK, OffAtTop, Line
<1>2. CASE NextLine
  <2>1. /\ on' = on /\ regular' = regular
        /\ beam' = IF ~ on THEN beam ELSE IF beam = Lines - 1 THEN 0 ELSE beam + 1
    BY <1>2 DEF NextLine
  <2>2. beam' \in 0 .. Lines - 1
    BY <1>1, <2>1, Numbers
  <2>. QED
    BY <1>1, <2>1, <2>2 DEF OffAtTop
<1>3. CASE SwitchLcd
  <2>1. on' \in BOOLEAN /\ beam' = 0 /\ regular' = FALSE
    BY <1>3 DEF SwitchLcd
  <2>2. beam' \in 0 .. Lines - 1
    BY <2>1, Numbers
  <2>. QED
    BY <1>1, <2>1, <2>2 DEF OffAtTop
<1>. QED
  BY <1>2, <1>3 DEF Line

LEMMA RunStep == LoopInv /\ Run => LoopInv'
<1>. SUFFICES ASSUME LoopInv, Run PROVE LoopInv'
  OBVIOUS
<1>1. /\ since \in Nat /\ beam \in 0 .. Lines - 1 /\ on \in BOOLEAN
      /\ saved \subseteq [on : BOOLEAN, beam : 0 .. Lines - 1]
      /\ interrupted \in BOOLEAN /\ exit_game_loop \in BOOLEAN
  BY DEF LoopInv, LoopTypeOK
<1>2. /\ since' = since + 1
      /\ on' \in BOOLEAN /\ beam' \in 0 .. Lines - 1 /\ regular' \in BOOLEAN
      /\ saved' = saved /\ OffAtTop'
      /\ UNCHANGED <<interrupted, exit_game_loop>>
      /\ regular' => /\ regular /\ on' = on
                     /\ on => beam' = IF beam = Lines - 1 THEN 0 ELSE beam + 1
  BY LineStep DEF Run
<1>3. /\ left' = left - 1
      /\ at' = IF left' > 0 THEN at ELSE IF at = "first" THEN "visible" ELSE "blank"
      /\ at = "first" \/ at = "off"
  BY DEF Run, Running
<1>4. CASE at = "off"
  <2>1. /\ left \in 1 .. OffLines /\ since = OffLines - left
        /\ at' = IF left = 1 THEN "blank" ELSE "off"
    BY <1>3, <1>4, Numbers DEF LoopInv, InTime
  <2>2. since' = OffLines - left' /\ left' \in 0 .. OffLines /\ (at' = "off" => left' >= 1)
    BY <1>2, <1>3, <2>1, Numbers
  <2>3. LoopTypeOK'
    BY <1>1, <1>2, <2>1, <2>2, Numbers DEF LoopTypeOK, Running, Looking
  <2>4. at' = "blank" => since' = OffLines
    BY <1>2, <2>1, Numbers
  <2>5. InTime'
    <3>1. at' = "off" => left' \in 1 .. OffLines
      BY <2>2, Numbers
    <3>2. since' \in 0 .. OffLines
      <4>1. since' = OffLines - left' /\ left' \in 0 .. OffLines
        BY <2>2
      <4>2. \A x \in 0 .. OffLines : OffLines - x \in 0 .. OffLines
        BY Numbers
      <4>. QED
        BY <4>1, <4>2
    <3>3. since' <= OffLines /\ since' <= Bound /\ since' \in Int
      BY <3>2, Numbers DEF Bound
    <3>4. /\ since' <= OffLines + Lines
          /\ since' + (Lines - 1 - beam') <= OffLines + Lines
      BY <1>2, <3>3, Numbers
    <3>. QED
      BY <2>1, <2>2, <3>1, <3>3, <3>4 DEF InTime
  <2>6. SteadyOff'
    BY <2>1, <2>4 DEF SteadyOff
  <2>7. SteadyOn'
    BY <1>2, <1>4 DEF SteadyOn, LoopInv
  <2>. QED
    BY <1>2, <2>3, <2>5, <2>6, <2>7 DEF LoopInv
<1>5. CASE at = "first"
  <2>1. /\ left \in 1 .. First /\ since <= OffLines + Lines + First - left
        /\ at' = IF left = 1 THEN "visible" ELSE "first"
    BY <1>3, <1>5, Numbers DEF LoopInv, InTime
  <2>2. since' <= OffLines + Lines + First - left' /\ left' \in 0 .. First
        /\ (at' = "first" => left' >= 1)
    BY <1>1, <1>2, <1>3, <2>1, Numbers
  <2>3. LoopTypeOK'
    BY <1>1, <1>2, <2>1, <2>2, Numbers DEF LoopTypeOK, Running, Looking
  <2>4. since' \in Nat
    BY <1>1, <1>2
  <2>5. InTime'
    BY <1>2, <2>1, <2>2, <2>4, Numbers DEF InTime, Bound
  <2>6. SteadyOff'
    <3>1. SUFFICES ASSUME regular', ~ on' PROVE since' = OffLines + First - left'
      BY <1>3, <2>1, <2>2, <3>1, Numbers DEF SteadyOff
    <3>2. since = OffLines + First - left
      BY <1>2, <1>5, <3>1 DEF LoopInv, SteadyOff
    <3>. QED
      BY <1>2, <1>3, <2>1, <3>2, Numbers
  <2>7. SteadyOn'
    <3>1. SUFFICES ASSUME regular', on'
                   PROVE  /\ since' = Blank - 1 + First - left' /\ left' < First
                          /\ beam' = First - left' - 1
      BY <1>3, <2>1, <2>2, <3>1, Numbers DEF SteadyOn
    <3>2. /\ since = Blank - 1 + First - left
          /\ left = First => beam = Lines - 1
          /\ left < First => beam = First - left - 1
          /\ beam' = IF beam = Lines - 1 THEN 0 ELSE beam + 1
      BY <1>2, <1>5, <3>1 DEF LoopInv, SteadyOn
    <3>. QED
      BY <1>2, <1>3, <2>1, <3>2, Numbers
  <2>. QED
    BY <1>2, <2>3, <2>5, <2>6, <2>7 DEF LoopInv
<1>. QED
  BY <1>3, <1>4, <1>5

LEMMA StepStep == LoopInv /\ Step => LoopInv'
<1>. SUFFICES ASSUME LoopInv, Step PROVE LoopInv'
  OBVIOUS
<1>1. /\ since \in Nat /\ beam \in 0 .. Lines - 1 /\ on \in BOOLEAN /\ left \in 0 .. First + OffLines
      /\ saved \subseteq [on : BOOLEAN, beam : 0 .. Lines - 1]
      /\ interrupted \in BOOLEAN /\ exit_game_loop \in BOOLEAN
      /\ ~ on => beam = 0
  BY DEF LoopInv, LoopTypeOK, OffAtTop
<1>2. /\ since' = since + 1
      /\ on' \in BOOLEAN /\ beam' \in 0 .. Lines - 1 /\ regular' \in BOOLEAN
      /\ saved' = saved /\ OffAtTop'
      /\ UNCHANGED <<interrupted, exit_game_loop>>
      /\ beam' = 0 \/ (on /\ on' /\ beam' = beam + 1) \/ (~ on /\ beam' = beam)
      /\ regular' => /\ regular /\ on' = on
                     /\ on => beam' = IF beam = Lines - 1 THEN 0 ELSE beam + 1
  BY LineStep DEF Step
<1>3. /\ at' = at /\ left' = left
      /\ \/ at = "visible" /\ LY \in 1 .. Visible - 1
         \/ at = "blank" /\ LY > 0
  BY DEF Step, MoreLines
<1>4. LY = beam /\ beam > 0 /\ beam < Lines - 1 /\ on
  BY <1>1, <1>3, Numbers DEF LY
<1>5. beam' = 0 \/ beam' = beam + 1
  BY <1>2, <1>4
<1>6. LoopTypeOK'
  BY <1>1, <1>2, <1>3 DEF LoopTypeOK, Running, Looking
<1>7. SteadyOff'
  BY <1>2, <1>4 DEF SteadyOff
<1>8. CASE at = "visible"
  <2>1. beam \in 1 .. Visible - 1
    BY <1>3, <1>4, <1>8
  <2>2. since + (Visible - beam) <= Bound
    BY <1>8, <2>1 DEF LoopInv, InTime
  <2>3. InTime'
    <3>1. beam' \in 1 .. Visible - 1 => since' + (Visible - beam') <= Bound
      <4>1. since' = since + 1 /\ since \in Nat /\ beam \in 1 .. Visible - 1
        BY <1>1, <1>2, <2>1
      <4>2. CASE beam' = 0
        BY <4>2, Numbers
      <4>3. CASE beam' = beam + 1
        BY <2>2, <4>1, <4>3, Numbers DEF Bound
      <4>. QED
        BY <1>5, <4>2, <4>3
    <3>2. since' <= Bound
      BY <1>1, <1>2, <2>1, <2>2, Numbers DEF Bound
    <3>. QED
      BY <1>3, <1>8, <3>1, <3>2 DEF InTime
  <2>4. SteadyOn'
    <3>1. SUFFICES ASSUME regular', on'
                   PROVE  beam' \in First - 1 .. Visible /\ since' = beam' + Blank
      BY <1>3, <1>8, <3>1 DEF SteadyOn
    <3>2. /\ beam \in First - 1 .. Visible /\ since = beam + Blank
          /\ beam' = beam + 1
      BY <1>2, <1>4, <1>8, <3>1 DEF LoopInv, SteadyOn
    <3>. QED
      BY <1>1, <1>2, <2>1, <3>2, Numbers
  <2>. QED
    BY <1>2, <1>6, <1>7, <2>3, <2>4 DEF LoopInv
<1>9. CASE at = "blank"
  <2>1. since + (Lines - 1 - beam) <= OffLines + Lines
    BY <1>4, <1>9 DEF LoopInv, InTime
  <2>2. InTime'
    <3>1. beam' > 0 => since' + (Lines - 1 - beam') <= OffLines + Lines
      <4>1. since' = since + 1 /\ since \in Nat /\ beam \in 0 .. Lines - 1
        BY <1>1, <1>2
      <4>. QED
        BY <1>5, <2>1, <4>1, Numbers
    <3>2. since' <= OffLines + Lines
      BY <1>1, <1>2, <1>4, <2>1, Numbers
    <3>3. since' <= Bound
      BY <1>1, <1>2, <3>2, Numbers DEF Bound
    <3>. QED
      BY <1>3, <1>9, <3>1, <3>2, <3>3 DEF InTime
  <2>3. SteadyOn'
    <3>1. SUFFICES ASSUME regular', on'
                   PROVE  beam' \in Visible .. Lines - 1 /\ since' = beam' - Visible
      BY <1>3, <1>9, <3>1 DEF SteadyOn
    <3>2. /\ beam \in Visible .. Lines - 1 /\ since = beam - Visible
          /\ beam' = beam + 1
      BY <1>2, <1>4, <1>9, <3>1 DEF LoopInv, SteadyOn
    <3>. QED
      BY <1>2, <1>4, <3>2, Numbers
  <2>. QED
    BY <1>2, <1>6, <1>7, <2>2, <2>3 DEF LoopInv
<1>. QED
  BY <1>3, <1>8, <1>9

LEMMA FrameEndsStep == LoopInv /\ FrameEnds => LoopInv'
<1>. SUFFICES ASSUME LoopInv, FrameEnds PROVE LoopInv'
  OBVIOUS
<1>1. /\ at = "visible" /\ at' = "poll" /\ LY \notin 1 .. Visible - 1
      /\ UNCHANGED <<on, beam, left, interrupted, exit_game_loop, saved, since, regular>>
  BY DEF FrameEnds, MoreLines
<1>2. LoopTypeOK' /\ OffAtTop' /\ SteadyOff'
  BY <1>1 DEF LoopInv, LoopTypeOK, Running, Looking, OffAtTop, SteadyOff
<1>3. InTime'
  BY <1>1 DEF LoopInv, InTime
<1>4. SteadyOn'
  <2>. SUFFICES ASSUME regular, on PROVE since = Lines
    BY <1>1 DEF SteadyOn
  <2>1. beam \in First - 1 .. Visible /\ since = beam + Blank
    BY <1>1 DEF LoopInv, SteadyOn
  <2>2. LY = beam
    BY <2>1, Numbers DEF LY
  <2>. QED
    BY <1>1, <2>1, <2>2, Numbers
<1>. QED
  BY <1>2, <1>3, <1>4 DEF LoopInv

\* Whatever ev_poll does, the loop goes on with an LCD that is off at the top.
LEMMA Resumed ==
  ASSUME LoopInv, at = "poll",
         NEW o \in BOOLEAN, NEW b \in 0 .. Lines - 1, ~ o => b = 0, ResumeWith(o, b),
         interrupted' \in BOOLEAN, exit_game_loop' \in BOOLEAN,
         saved' \subseteq [on : BOOLEAN, beam : 0 .. Lines - 1],
         \A s \in saved' : ~ s.on => s.beam = 0
  PROVE  LoopInv'
<1>1. /\ on' = o /\ beam' = b /\ since' = 0 /\ regular' = (~ o \/ b = Visible)
      /\ \/ o /\ at' = "blank" /\ left' = 0
         \/ ~ o /\ at' = "off" /\ left' = OffLines
  BY DEF ResumeWith
<1>2. since' \in Nat /\ left' \in 0 .. First + OffLines
  BY <1>1, Numbers
<1>3. LoopTypeOK' /\ OffAtTop'
  BY <1>1, <1>2 DEF LoopTypeOK, Running, Looking, OffAtTop
<1>4. InTime'
  BY <1>1, Numbers DEF InTime, Bound
<1>5. SteadyOff'
  BY <1>1 DEF SteadyOff
<1>6. SteadyOn'
  <2>. SUFFICES ASSUME regular', on' PROVE beam' \in Visible .. Lines - 1 /\ since' = beam' - Visible
    BY <1>1 DEF SteadyOn
  <2>1. beam' = Visible /\ since' = 0
    BY <1>1
  <2>. QED
    BY <2>1, Numbers
<1>. QED
  BY <1>3, <1>4, <1>5, <1>6 DEF LoopInv

LEMMA PollStep ==
  LoopInv /\ (PollPad \/ Exit \/ MenuSave \/ MenuLoad) => LoopInv'
<1>. SUFFICES ASSUME LoopInv, PollPad \/ Exit \/ MenuSave \/ MenuLoad PROVE LoopInv'
  OBVIOUS
<1>1. /\ on \in BOOLEAN /\ beam \in 0 .. Lines - 1 /\ (~ on => beam = 0)
      /\ interrupted \in BOOLEAN /\ exit_game_loop \in BOOLEAN
      /\ saved \subseteq [on : BOOLEAN, beam : 0 .. Lines - 1]
      /\ \A s \in saved : ~ s.on => s.beam = 0
  BY DEF LoopInv, LoopTypeOK, OffAtTop
<1>2. CASE PollPad
  BY <1>1, <1>2, Resumed DEF PollPad
<1>3. CASE Exit
  BY <1>1, <1>3, Resumed DEF Exit
<1>4. CASE MenuSave
  BY <1>1, <1>4, Resumed DEF MenuSave
<1>5. CASE MenuLoad
  <2>1. PICK s \in saved : ResumeWith(s.on, s.beam)
    BY <1>5 DEF MenuLoad
  <2>2. s.on \in BOOLEAN /\ s.beam \in 0 .. Lines - 1 /\ (~ s.on => s.beam = 0)
    BY <1>1
  <2>. QED
    BY <1>1, <1>5, <2>1, <2>2, Resumed DEF MenuLoad
<1>. QED
  BY <1>2, <1>3, <1>4, <1>5

LEMMA FrameBeginsStep == LoopInv /\ FrameBegins => LoopInv'
<1>. SUFFICES ASSUME LoopInv, FrameBegins PROVE LoopInv'
  OBVIOUS
<1>1. /\ at = "blank" /\ ~ (LY > 0) /\ interrupted' = FALSE
      /\ \/ at' = "left" /\ left' = 0
         \/ at' = "first" /\ left' = First
      /\ UNCHANGED <<on, beam, exit_game_loop, saved, since, regular>>
  BY DEF FrameBegins, MoreLines
<1>2. since \in Nat /\ since <= OffLines + Lines
  BY <1>1 DEF LoopInv, LoopTypeOK, InTime
<1>3. left' \in 0 .. First + OffLines
  BY <1>1, Numbers
<1>4. LoopTypeOK' /\ OffAtTop'
  BY <1>1, <1>3 DEF LoopInv, LoopTypeOK, Running, Looking, OffAtTop
<1>5. InTime'
  BY <1>1, <1>2, Numbers DEF InTime, Bound
<1>6. SteadyOff'
  <2>. SUFFICES ASSUME regular, ~ on, at' = "first" PROVE since = OffLines + First - First
    BY <1>1 DEF SteadyOff
  <2>. QED
    BY <1>1, Numbers DEF LoopInv, SteadyOff
<1>7. SteadyOn'
  <2>. SUFFICES ASSUME regular, on, at' = "first"
                PROVE  since = Blank - 1 + First - First /\ beam = Lines - 1
    BY <1>1, Numbers DEF SteadyOn
  <2>1. beam \in Visible .. Lines - 1 /\ since = beam - Visible
    BY <1>1 DEF LoopInv, SteadyOn
  <2>2. beam = Lines - 1
    BY <1>1, <2>1, Numbers DEF LY
  <2>. QED
    BY <2>1, <2>2, Numbers
<1>. QED
  BY <1>4, <1>5, <1>6, <1>7 DEF LoopInv

LEMMA LoopSteps == LoopInv /\ [LoopNext]_loopVars => LoopInv'
<1>. SUFFICES ASSUME LoopInv, [LoopNext]_loopVars PROVE LoopInv'
  OBVIOUS
<1>1. ASSUME UNCHANGED loopVars PROVE LoopInv'
  BY <1>1 DEF loopVars, LoopInv, LoopTypeOK, OffAtTop, InTime, SteadyOff, SteadyOn
<1>. QED
  BY <1>1, RunStep, StepStep, FrameEndsStep, PollStep, FrameBeginsStep DEF LoopNext, Done

LEMMA LoopInvariant == LoopSpec => []LoopInv
BY LoopBegins, LoopSteps, PTL DEF LoopSpec

\* The loop is somewhere, at a line, for every screen.
THEOREM LoopInRange == LoopSpec => []LoopTypeOK
<1>1. LoopInv => LoopTypeOK
  BY DEF LoopInv
<1>. QED
  BY <1>1, LoopInvariant, PTL

\* The pad is polled in time, for every screen: no way of switching the LCD and no
\* state that is loaded makes emu_run look at LY for longer.
THEOREM PadPolledInTime == LoopSpec => []PollsInTime
<1>1. LoopInv => PollsInTime
  BY DEF LoopInv, InTime, Bound, PollsInTime
<1>. QED
  BY <1>1, LoopInvariant, PTL

\* Frames are of equal length when the LCD is left alone, for every screen whose
\* LY is looked at after it has left the top and before the blank.
THEOREM FramesAreSteady == LoopSpec => []SteadyFrames
<1>1. LoopInv => SteadyFrames
  BY DEF LoopInv, LoopTypeOK, SteadyOff, SteadyOn, SteadyFrames
<1>. QED
  BY <1>1, LoopInvariant, PTL
-----------------------------------------------------------------------------
\* The rows above vdest hold the lines that belong there, and vdest is where LY is.
InPlace ==
  /\ \A r \in 0 .. Visible - 1 : r < vdest => picture[r] = r
  /\ vdest = IF beam < Visible THEN IF drawn THEN beam + 1 ELSE beam ELSE Visible

\* Between a picture that has been shown and the next top of the screen it may
\* be overdrawn, or have been skipped.
Over == /\ beam >= Visible
        /\ \/ at \in {"poll", "blank", "left"}
           \/ at = "first" /\ left = First /\ beam = Lines - 1

PictureInv ==
  /\ on /\ clean /\ enabled => InPlace \/ Over
  /\ on /\ clean /\ beam = 0 /\ ~ drawn => vdest = 0
  /\ at = "poll" => beam = 0 \/ beam >= Visible

ScreenInv == LoopInv /\ ScreenTypeOK /\ PictureInv

PicturesSoFar == [vdest : 0 .. Visible, picture : [0 .. Visible - 1 -> 0 .. Visible]]

LEMMA ScreenBegins == ScreenInit => ScreenInv
<1>. SUFFICES ASSUME ScreenInit PROVE ScreenInv
  OBVIOUS
<1>1. /\ drawn = FALSE /\ vdest = 0 /\ enabled = TRUE /\ clean = TRUE /\ savedDrawn = FALSE
      /\ picture = [r \in 0 .. Visible - 1 |-> Visible]
      /\ beam = 0
  BY DEF ScreenInit, LoopInit, Nothing
<1>2. LoopInv
  BY LoopBegins DEF ScreenInit
<1>3. ScreenTypeOK
  <2>1. 0 \in 0 .. Visible /\ Visible \in 0 .. Visible
    BY Numbers
  <2>. QED
    BY <1>1, <2>1 DEF ScreenTypeOK
<1>4. InPlace
  BY <1>1, Numbers DEF InPlace
<1>. QED
  BY <1>1, <1>2, <1>3, <1>4 DEF ScreenInv, PictureInv, LoopInit, ScreenInit

\* The loop's steps are steps of the frame loop.
LEMMA ScreenIsLoop == ScreenNext => LoopNext
BY DEF ScreenNext, DrawLines, ShowPicture, PollOnly, LeaveMenu, LoadInMenu, GoOn, LoopNext

\* Drawing a line fills the row it is drawn at and no other.
LEMMA Refreshed ==
  ASSUME NEW p \in PicturesSoFar, NEW l \in 0 .. Lines - 1, ScreenTypeOK
  PROVE  /\ LineIfVisible(p, l) \in PicturesSoFar
         /\ enabled /\ l < Visible /\ p.vdest = l /\ (\A r \in 0 .. Visible - 1 : r < l => p.picture[r] = r)
              => /\ LineIfVisible(p, l).vdest = l + 1
                 /\ \A r \in 0 .. Visible - 1 : r < l + 1 => LineIfVisible(p, l).picture[r] = r
         /\ l >= Visible => LineIfVisible(p, l) = p
<1>0. /\ p.vdest \in 0 .. Visible /\ p.picture \in [0 .. Visible - 1 -> 0 .. Visible]
      /\ enabled \in BOOLEAN
  BY DEF PicturesSoFar, ScreenTypeOK
<1>1. CASE ~ enabled \/ p.vdest = Visible \/ l >= Visible
  <2>1. LineIfVisible(p, l) = p
    BY <1>1, Numbers DEF LineIfVisible, RefreshLine
  <2>. QED
    BY <1>1, <2>1, Numbers
<1>2. CASE enabled /\ p.vdest # Visible /\ l < Visible
  <2>1. LineIfVisible(p, l) = [vdest |-> p.vdest + 1, picture |-> [p.picture EXCEPT ![p.vdest] = l]]
    BY <1>2 DEF LineIfVisible, RefreshLine
  <2>2. p.vdest \in 0 .. Visible - 1 /\ p.vdest + 1 \in 0 .. Visible /\ l \in 0 .. Visible
    BY <1>0, <1>2, Numbers
  <2>3. LineIfVisible(p, l) \in PicturesSoFar
    BY <1>0, <2>1, <2>2 DEF PicturesSoFar
  <2>4. ASSUME p.vdest = l, \A r \in 0 .. Visible - 1 : r < l => p.picture[r] = r
        PROVE  /\ LineIfVisible(p, l).vdest = l + 1
               /\ \A r \in 0 .. Visible - 1 : r < l + 1 => LineIfVisible(p, l).picture[r] = r
    BY <1>0, <2>1, <2>2, <2>4, Numbers
  <2>. QED
    BY <1>2, <2>3, <2>4, Numbers
<1>. QED
  BY <1>0, <1>1, <1>2, Numbers

LEMMA TopIsPicture == Top \in PicturesSoFar /\ Top.vdest = 0
BY Numbers DEF Top, Nothing, PicturesSoFar

LEMMA HereIsPicture == ScreenTypeOK => Here \in PicturesSoFar /\ Here.vdest = vdest /\ Here.picture = picture
BY DEF Here, ScreenTypeOK, PicturesSoFar

\* A line begins at the top: whatever was there, what follows is in place.
LEMMA FromTop ==
  ASSUME ScreenTypeOK, beam' = 0, drawn' \in BOOLEAN, enabled' = enabled,
         NEW r, r = IF drawn' THEN LineIfVisible(Top, 0) ELSE Top,
         vdest' = r.vdest, picture' = r.picture
  PROVE  /\ vdest' \in 0 .. Visible /\ picture' \in [0 .. Visible - 1 -> 0 .. Visible]
         /\ enabled => InPlace'
         /\ ~ drawn' => vdest' = 0
<1>1. 0 \in 0 .. Lines - 1 /\ 0 < Visible
  BY Numbers
<1>2. r \in PicturesSoFar
  BY <1>1, Refreshed, TopIsPicture
<1>3. ~ drawn' => r.vdest = 0
  BY TopIsPicture
<1>4. drawn' /\ enabled => r.vdest = 1 /\ \A k \in 0 .. Visible - 1 : k < 1 => r.picture[k] = k
  <2>. SUFFICES ASSUME drawn', enabled PROVE r.vdest = 1 /\ \A k \in 0 .. Visible - 1 : k < 1 => r.picture[k] = k
    OBVIOUS
  <2>1. \A k \in 0 .. Visible - 1 : k < 0 => Top.picture[k] = k
    BY Numbers
  <2>. QED
    BY <1>1, <2>1, Refreshed, TopIsPicture
<1>5. enabled => InPlace'
  <2>. SUFFICES ASSUME enabled PROVE InPlace'
    OBVIOUS
  <2>1. CASE drawn'
    BY <1>1, <1>4, <2>1 DEF InPlace
  <2>2. CASE ~ drawn'
    BY <1>1, <1>3, <2>2, Numbers DEF InPlace
  <2>. QED
    BY <2>1, <2>2
<1>. QED
  BY <1>2, <1>3, <1>5 DEF PicturesSoFar

\* While the LCD stays as it is, rows and lines move on together.
LEMMA DrawOnStep ==
  ASSUME ScreenInv, Run \/ Step, NextLine, DrawOn, UNCHANGED <<enabled, savedDrawn>>
  PROVE  ScreenTypeOK' /\ PictureInv'
<1>0. /\ on \in BOOLEAN /\ beam \in 0 .. Lines - 1 /\ drawn \in BOOLEAN /\ enabled \in BOOLEAN
      /\ clean \in BOOLEAN /\ savedDrawn \in BOOLEAN
      /\ LoopTypeOK /\ ScreenTypeOK /\ PictureInv /\ (~ on => beam = 0)
  BY DEF ScreenInv, LoopInv, LoopTypeOK, ScreenTypeOK, OffAtTop
<1>1. /\ on' = on
      /\ beam' = IF ~ on THEN beam ELSE IF beam = Lines - 1 THEN 0 ELSE beam + 1
  BY DEF NextLine
<1>2. beam' \in 0 .. Lines - 1
  BY <1>0, <1>1, Numbers
<1>3. /\ drawn' \in BOOLEAN /\ clean' = (clean \/ (on /\ beam' = 0))
      /\ enabled' = enabled /\ savedDrawn' = savedDrawn
      /\ ~ on => ~ drawn'
  BY DEF DrawOn
<1>4. /\ at' # "poll"
      /\ at = "first" \/ at = "off" \/ at = "visible" \/ at = "blank"
      /\ at = "blank" => at' = "blank"
      /\ at = "first" => (on /\ left = First /\ beam = Lines - 1 => beam' = 0)
  BY <1>1, Numbers DEF Run, Step, Running, Looking, MoreLines
<1>5. DEFINE p == IF on /\ ~ drawn THEN LineIfVisible(Here, beam) ELSE Here
             q == IF on /\ beam' = 0 THEN Top ELSE p
             r == IF drawn' THEN LineIfVisible(q, beam') ELSE q
<1>6. vdest' = r.vdest /\ picture' = r.picture
  BY DEF DrawOn
<1>7. Here \in PicturesSoFar /\ Here.vdest = vdest /\ Here.picture = picture
  BY <1>0, HereIsPicture
<1>8. p \in PicturesSoFar
  BY <1>0, <1>7, Refreshed
<1>9. q \in PicturesSoFar
  BY <1>8, TopIsPicture
<1>10. r \in PicturesSoFar
  BY <1>0, <1>2, <1>9, Refreshed
<1>11. ScreenTypeOK'
  BY <1>0, <1>3, <1>6, <1>10 DEF ScreenTypeOK, PicturesSoFar
<1>12. CASE ~ on
  BY <1>1, <1>4, <1>11, <1>12 DEF PictureInv
<1>13. CASE on /\ beam' = 0
  <2>1. r = IF drawn' THEN LineIfVisible(Top, 0) ELSE Top
    BY <1>13
  <2>. HIDE DEF r
  <2>2. (enabled => InPlace') /\ (~ drawn' => vdest' = 0)
    BY <1>0, <1>3, <1>6, <1>13, <2>1, FromTop
  <2>. QED
    BY <1>3, <1>4, <1>11, <2>2 DEF PictureInv
<1>14. CASE on /\ beam' # 0
  <2>1. beam' = beam + 1 /\ beam + 1 \in 1 .. Lines - 1 /\ q = p
    BY <1>0, <1>1, <1>2, <1>14, Numbers
  <2>2. clean' = clean
    BY <1>0, <1>3, <1>14
  <2>3. SUFFICES ASSUME clean, enabled PROVE InPlace' \/ Over'
    BY <1>1, <1>3, <1>4, <1>11, <1>14, <2>2, <2>3 DEF PictureInv
  <2>4. InPlace \/ Over
    BY <1>0, <1>14, <2>3 DEF PictureInv
  <2>5. CASE Over
    <3>1. at' = "blank"
      BY <1>4, <1>14, <2>5 DEF Over
    <3>2. beam' >= Visible
      BY <1>0, <2>1, <2>5, Numbers DEF Over
    <3>. QED
      BY <3>1, <3>2 DEF Over
  <2>6. CASE InPlace /\ beam >= Visible
    <3>1. p = Here
      BY <1>0, <1>7, <2>6, Refreshed
    <3>2. r = Here
      BY <1>0, <1>2, <1>7, <2>1, <2>6, <3>1, Refreshed, Numbers
    <3>3. vdest' = vdest /\ picture' = picture
      BY <1>6, <1>7, <3>2
    <3>. QED
      BY <1>0, <2>1, <2>6, <3>3, Numbers DEF InPlace
  <2>7. CASE InPlace /\ beam < Visible
    <3>1. /\ \A k \in 0 .. Visible - 1 : k < vdest => picture[k] = k
          /\ vdest = IF drawn THEN beam + 1 ELSE beam
      BY <2>7 DEF InPlace
    <3>2. p.vdest = beam + 1 /\ \A k \in 0 .. Visible - 1 : k < beam + 1 => p.picture[k] = k
      <4>1. CASE drawn
        BY <1>7, <3>1, <4>1
      <4>2. CASE ~ drawn
        BY <1>0, <1>7, <1>14, <2>3, <2>7, <3>1, <4>2, Refreshed
      <4>. QED
        BY <1>0, <4>1, <4>2
    <3>. HIDE DEF p
    <3>3. CASE beam + 1 >= Visible
      <4>1. r = p
        BY <1>2, <1>8, <1>0, <2>1, <3>3, Refreshed
      <4>2. beam + 1 = Visible
        BY <1>0, <2>7, <3>3, Numbers
      <4>. QED
        BY <1>6, <2>1, <3>2, <4>1, <4>2 DEF InPlace
    <3>4. CASE beam + 1 < Visible
      <4>1. CASE drawn'
        <5>1. /\ r.vdest = beam + 2
              /\ \A k \in 0 .. Visible - 1 : k < beam + 2 => r.picture[k] = k
          <6>1. r = LineIfVisible(p, beam + 1)
            BY <2>1, <4>1
          <6>2. beam + 1 \in 0 .. Lines - 1 /\ beam + 1 + 1 = beam + 2
            BY <1>0, <2>1, Numbers
          <6>. HIDE DEF r
          <6>. QED
            BY <1>0, <1>8, <2>3, <3>2, <3>4, <6>1, <6>2, Refreshed
        <5>. HIDE DEF r
        <5>. QED
          BY <1>0, <1>6, <2>1, <3>4, <4>1, <5>1, Numbers DEF InPlace
      <4>2. CASE ~ drawn'
        BY <1>6, <2>1, <3>2, <3>4, <4>2 DEF InPlace
      <4>. QED
        BY <4>1, <4>2
    <3>. QED
      BY <1>0, <3>3, <3>4, Numbers
  <2>. QED
    BY <1>0, <2>4, <2>5, <2>6, <2>7, Numbers
<1>. QED
  BY <1>0, <1>12, <1>13, <1>14

\* Switched off, on, or both within a line: the picture begins again.
LEMMA DrawSwitchedStep ==
  ASSUME ScreenInv, Run \/ Step, SwitchLcd, DrawSwitched, UNCHANGED <<enabled, savedDrawn>>
  PROVE  ScreenTypeOK' /\ PictureInv'
<1>1. /\ beam' = 0 /\ drawn' \in BOOLEAN /\ clean' = TRUE
      /\ enabled' = enabled /\ savedDrawn' = savedDrawn /\ ScreenTypeOK
  BY DEF SwitchLcd, DrawSwitched, ScreenInv
<1>2. at' # "poll"
  BY DEF Run, Step, Running, Looking, MoreLines
<1>3. PICK r : /\ r = IF drawn' THEN LineIfVisible(Top, 0) ELSE Top
               /\ vdest' = r.vdest /\ picture' = r.picture
  BY DEF DrawSwitched
<1>4. /\ vdest' \in 0 .. Visible /\ picture' \in [0 .. Visible - 1 -> 0 .. Visible]
      /\ enabled => InPlace'
      /\ ~ drawn' => vdest' = 0
  BY <1>1, <1>3, FromTop
<1>. QED
  BY <1>1, <1>2, <1>4 DEF ScreenTypeOK, PictureInv

LEMMA ShowStep ==
  ASSUME ScreenInv, ShowPicture
  PROVE  ScreenTypeOK' /\ PictureInv'
<1>1. /\ at = "visible" /\ LY \notin 1 .. Visible - 1 /\ at' = "poll"
      /\ on' = on /\ beam' = beam /\ left' = left
      /\ enabled' \in BOOLEAN
      /\ clean' = (clean /\ (drawn /\ LY = 0 => enabled' = enabled))
      /\ UNCHANGED <<drawn, vdest, picture, savedDrawn>>
  BY DEF ShowPicture, FrameEnds, MoreLines
<1>2. /\ beam \in 0 .. Lines - 1 /\ drawn \in BOOLEAN /\ ScreenTypeOK /\ PictureInv
      /\ clean \in BOOLEAN
  BY DEF ScreenInv, LoopInv, LoopTypeOK, ScreenTypeOK
<1>3. beam = 0 \/ beam >= Visible
  BY <1>1, <1>2, Numbers DEF LY
<1>4. ScreenTypeOK'
  BY <1>1, <1>2 DEF ScreenTypeOK
<1>5. clean' => clean
  BY <1>1
<1>6. CASE beam >= Visible
  <2>1. Over'
    BY <1>1, <1>6 DEF Over
  <2>2. beam # 0
    BY <1>6, Numbers
  <2>. QED
    BY <1>1, <1>4, <1>6, <2>1, <2>2 DEF PictureInv
<1>7. CASE beam = 0
  <2>1. LY = 0
    BY <1>7, Numbers DEF LY
  <2>2. ASSUME on, clean', enabled' PROVE InPlace'
    <3>1. CASE drawn
      <4>1. enabled
        BY <1>1, <2>1, <2>2, <3>1
      <4>2. InPlace
        BY <1>2, <1>5, <1>7, <2>2, <4>1, Numbers DEF PictureInv, Over
      <4>. QED
        BY <1>1, <4>2 DEF InPlace
    <3>2. CASE ~ drawn
      <4>1. vdest = 0
        BY <1>2, <1>5, <1>7, <2>2, <3>2 DEF PictureInv
      <4>. QED
        BY <1>1, <1>7, <3>2, <4>1, Numbers DEF InPlace
    <3>. QED
      BY <1>2, <3>1, <3>2
  <2>. QED
    BY <1>1, <1>2, <1>4, <1>5, <1>7, <2>2 DEF PictureInv
<1>. QED
  BY <1>3, <1>6, <1>7

\* With the LCD on, the loop goes on from a poll at the same line.
LEMMA PolledStep ==
  ASSUME ScreenInv, at = "poll", ResumeWith(on, beam), vdest' = vdest, enabled' = enabled,
         drawn' = drawn, savedDrawn' \in BOOLEAN,
         \/ picture' = picture /\ clean' = clean
         \/ picture' = Nothing /\ clean' = (clean /\ ~ (drawn /\ LY = 0))
  PROVE  ScreenTypeOK' /\ PictureInv'
<1>1. /\ beam \in 0 .. Lines - 1 /\ drawn \in BOOLEAN /\ clean \in BOOLEAN /\ on \in BOOLEAN
      /\ ScreenTypeOK /\ PictureInv
  BY DEF ScreenInv, LoopInv, LoopTypeOK, ScreenTypeOK
<1>2. /\ on' = on /\ beam' = beam /\ at' # "poll"
      /\ on => at' = "blank"
  BY DEF ResumeWith
<1>3. beam = 0 \/ beam >= Visible
  BY <1>1 DEF PictureInv
<1>4. Nothing \in [0 .. Visible - 1 -> 0 .. Visible]
  BY Numbers DEF Nothing
<1>5. ScreenTypeOK'
  BY <1>1, <1>4 DEF ScreenTypeOK
<1>6. clean' => clean
  OBVIOUS
<1>7. ASSUME on, clean', enabled PROVE InPlace' \/ Over'
  <2>1. CASE beam >= Visible
    BY <1>2, <1>7, <2>1 DEF Over
  <2>2. CASE beam = 0
    <3>1. LY = 0
      BY <2>2, Numbers DEF LY
    <3>2. InPlace
      BY <1>1, <1>6, <1>7, <2>2, Numbers DEF PictureInv, Over
    <3>3. CASE picture' = picture
      BY <1>2, <3>2, <3>3 DEF InPlace
    <3>4. CASE ~ drawn
      <4>1. vdest = 0
        BY <1>1, <1>6, <1>7, <2>2, <3>4 DEF PictureInv
      <4>. QED
        BY <1>2, <2>2, <3>4, <4>1, Numbers DEF InPlace
    <3>. QED
      BY <1>1, <1>7, <3>1, <3>3, <3>4
  <2>. QED
    BY <1>3, <2>1, <2>2
<1>. QED
  BY <1>1, <1>2, <1>5, <1>6, <1>7 DEF PictureInv

\* A loaded state leaves the row where it is.
LEMMA LoadedStep ==
  ASSUME ScreenInv, LoadInMenu
  PROVE  ScreenTypeOK' /\ PictureInv'
<1>1. /\ at' # "poll" /\ clean' = FALSE /\ vdest' = vdest /\ enabled' = enabled
      /\ picture' = Nothing /\ drawn' = savedDrawn /\ savedDrawn' = savedDrawn /\ ScreenTypeOK
  BY DEF LoadInMenu, MenuLoad, MenuDrawn, ResumeWith, ScreenInv
<1>2. Nothing \in [0 .. Visible - 1 -> 0 .. Visible]
  BY Numbers DEF Nothing
<1>. QED
  BY <1>1, <1>2 DEF ScreenTypeOK, PictureInv

LEMMA GoOnStep ==
  ASSUME ScreenInv, GoOn
  PROVE  ScreenTypeOK' /\ PictureInv'
<1>1. /\ on' = on /\ beam' = beam
      /\ UNCHANGED <<drawn, vdest, enabled, picture, clean, savedDrawn>>
      /\ ScreenTypeOK /\ PictureInv /\ beam \in 0 .. Lines - 1
  BY DEF GoOn, FrameBegins, Done, loopVars, ScreenInv, LoopInv, LoopTypeOK
<1>2. InPlace => InPlace'
  BY <1>1 DEF InPlace
<1>3. Over => Over'
  <2>1. CASE Done
    BY <2>1 DEF Done, loopVars, Over
  <2>2. CASE FrameBegins
    <3>. SUFFICES ASSUME Over PROVE Over'
      OBVIOUS
    <3>1. LY = 0 /\ beam >= Visible
      BY <1>1, <2>2, Numbers DEF FrameBegins, MoreLines, LY, Over
    <3>2. beam = Lines - 1
      BY <3>1, Numbers DEF LY
    <3>3. at' = "left" \/ (at' = "first" /\ left' = First)
      BY <2>2 DEF FrameBegins
    <3>. QED
      BY <1>1, <3>1, <3>2, <3>3 DEF Over
  <2>. QED
    BY <2>1, <2>2 DEF GoOn
<1>4. at' # "poll"
  BY DEF GoOn, FrameBegins, Done, loopVars
<1>. QED
  BY <1>1, <1>2, <1>3, <1>4 DEF ScreenTypeOK, PictureInv

LEMMA ScreenSteps == ScreenInv /\ [ScreenNext]_screenVars => ScreenInv'
<1>. SUFFICES ASSUME ScreenInv, [ScreenNext]_screenVars PROVE ScreenInv'
  OBVIOUS
<1>1. LoopInv'
  BY ScreenIsLoop, LoopSteps DEF ScreenInv, screenVars
<1>2. ASSUME UNCHANGED screenVars PROVE ScreenTypeOK' /\ PictureInv'
  <2>1. UNCHANGED <<at, on, beam, left, drawn, vdest, enabled, picture, clean, savedDrawn>>
    BY <1>2 DEF screenVars, loopVars
  <2>. QED
    BY <2>1 DEF ScreenInv, ScreenTypeOK, PictureInv, InPlace, Over
<1>3.ASSUME DrawLines PROVE ScreenTypeOK' /\ PictureInv'
  BY <1>3, DrawOnStep, DrawSwitchedStep DEF DrawLines
<1>4.ASSUME PollOnly PROVE ScreenTypeOK' /\ PictureInv'
  BY <1>4, PolledStep DEF PollOnly, PollPad, ScreenInv, ScreenTypeOK
<1>5.ASSUME LeaveMenu PROVE ScreenTypeOK' /\ PictureInv'
  BY <1>5, PolledStep DEF LeaveMenu, MenuDrawn, Exit, MenuSave, ScreenInv, ScreenTypeOK
<1>6. ScreenTypeOK' /\ PictureInv'
  BY <1>2, <1>3, <1>4, <1>5, ShowStep, LoadedStep, GoOnStep DEF ScreenNext
<1>. QED
  BY <1>1, <1>6 DEF ScreenInv

\* The picture is whole, for every screen: no way of switching the LCD, skipping
\* frames or opening menus makes the row and the line part.
THEOREM PicturesAreWhole == ScreenSpec => []PictureWhole
<1>1. ScreenInv => PictureWhole
  <2>. SUFFICES ASSUME ScreenInv PROVE PictureWhole
    OBVIOUS
  <2>1. /\ ScreenTypeOK /\ PictureInv /\ beam \in 0 .. Lines - 1 /\ (~ on => beam = 0)
        /\ on \in BOOLEAN
    BY DEF ScreenInv, LoopInv, LoopTypeOK, OffAtTop
  <2>2. ASSUME at = "visible", LY >= Visible, enabled, clean, NEW r \in 0 .. Visible - 1
        PROVE  picture[r] = r
    <3>1. LY = beam /\ on /\ beam >= Visible
      BY <2>1, <2>2, Numbers DEF LY
    <3>2. InPlace
      BY <2>1, <2>2, <3>1 DEF PictureInv, Over
    <3>3. vdest = Visible
      BY <2>1, <3>1, <3>2, Numbers DEF InPlace
    <3>. QED
      BY <3>2, <3>3, Numbers DEF InPlace
  <2>. QED
    BY <2>1, <2>2 DEF PictureWhole
<1>. QED
  BY <1>1, ScreenBegins, ScreenSteps, PTL DEF ScreenSpec
=============================================================================
