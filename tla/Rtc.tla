--------------------------------- MODULE Rtc ---------------------------------
(***************************************************************************)
(* The clock of MBC3 and HuC3 cartridges (rtc.c).  It counts frames,       *)
(* seconds, minutes, hours and days; a game sets it through five registers *)
(* and reads it through the same five, which hold the time of the last     *)
(* latch.  There is one clock for all cartridges of a session: neither     *)
(* emu_reset nor loader_init touches it, and saving it is compiled out.    *)
(***************************************************************************)
EXTENDS Integers

CONSTANTS
  Frames, Seconds, Minutes, Hours, \* in a second, minute, hour, day (60, 60, 60, 24)
  Year,     \* days after which the days start over (365)
  Low,      \* values of the register of the days' low bits (256)
  Bytes,    \* values a game writes to the registers of seconds, minutes, hours
  Games,
  MaxDay    \* bound: days counted

ASSUME RtcAssumption ==
  /\ {Frames, Seconds, Minutes, Hours, Low, Year} \subseteq Nat \ {0}
  /\ Bytes \subseteq Nat
  /\ MaxDay \in Nat

VARIABLES
  t, s, m, h, d,  \* rtc.t, rtc.s, ...: frames, seconds, minutes, hours, days
  stop, carry,
  latch,          \* bit 0 of rtc.latch
  regs,           \* rtc.regs
  game,           \* the game that runs, or NoGame
  wrote           \* history: a register and the value it was last set to, as long
                  \* as neither time nor another register has changed it

NoGame == "none"
NoWrite == [reg |-> "none"]

time == <<t, s, m, h, d, carry>>
rtcVars == <<time, stop, latch, regs, game, wrote>>

\* The ninth bit of the day register is taken from, and put into, the tenth bit of d.
HighBit == 2 * Low
Control(day, st, ca) == [high |-> day \div HighBit, stop |-> st, carry |-> ca]

\* The time since the beginning of the year, in frames.
FramesPerDay == Hours * Minutes * Seconds * Frames
Elapsed == (((d * Hours + h) * Minutes + m) * Seconds + s) * Frames + t

RtcTypeOK ==
  /\ t \in 0 .. Frames - 1 /\ s \in 0 .. Seconds - 1
  /\ m \in 0 .. Minutes - 1 /\ h \in 0 .. Hours - 1
  /\ d \in Nat
  /\ stop \in BOOLEAN /\ carry \in BOOLEAN /\ latch \in BOOLEAN
  /\ regs.days \in 0 .. Low - 1
  /\ game \in Games \cup {NoGame}

\* Program start: everything is zero.
Zero ==
  /\ t' = 0 /\ s' = 0 /\ m' = 0 /\ h' = 0 /\ d' = 0
  /\ stop' = FALSE /\ carry' = FALSE /\ latch' = FALSE
  /\ regs' = [seconds |-> 0, minutes |-> 0, hours |-> 0, days |-> 0,
              control |-> Control(0, FALSE, FALSE)]
RtcInit ==
  /\ t = 0 /\ s = 0 /\ m = 0 /\ h = 0 /\ d = 0
  /\ stop = FALSE /\ carry = FALSE /\ latch = FALSE
  /\ regs = [seconds |-> 0, minutes |-> 0, hours |-> 0, days |-> 0,
             control |-> Control(0, FALSE, FALSE)]
  /\ game = NoGame /\ wrote = NoWrite
-----------------------------------------------------------------------------
Playing == game # NoGame

\* Has reg been set, and does time that passes or another write leave it alone?
Forget(rs) == wrote' = IF wrote.reg \in rs THEN NoWrite ELSE wrote
Remember(reg, b) == wrote' = [reg |-> reg, value |-> b]

\* rtc_write, registers 0 to 2: the register shows what was written, the clock
\* what is left of it.
SetSeconds(b) ==
  /\ Playing
  /\ regs' = [regs EXCEPT !.seconds = b] /\ s' = b % Seconds
  /\ Remember("seconds", s')
  /\ UNCHANGED <<t, m, h, d, carry, stop, latch, game>>

SetMinutes(b) ==
  /\ Playing
  /\ regs' = [regs EXCEPT !.minutes = b] /\ m' = b % Minutes
  /\ Remember("minutes", m')
  /\ UNCHANGED <<t, s, h, d, carry, stop, latch, game>>

SetHours(b) ==
  /\ Playing
  /\ regs' = [regs EXCEPT !.hours = b] /\ h' = b % Hours
  /\ Remember("hours", h')
  /\ UNCHANGED <<t, s, m, d, carry, stop, latch, game>>

\* Register 3: the days' low bits; of the others only the ninth is kept.
SetDays(b) ==
  /\ Playing
  /\ regs' = [regs EXCEPT !.days = b]
  /\ d' = (IF (d \div Low) % 2 = 1 THEN Low ELSE 0) + b
  /\ \/ Remember("days", b)
     \/ Forget({"days", "control"})
  /\ UNCHANGED <<t, s, m, h, carry, stop, latch, game>>

\* Register 4: the high bit of the days, stop and carry.
SetControl(high, st, ca) ==
  /\ Playing
  /\ d' = (d % Low) + high * HighBit
  /\ stop' = st /\ carry' = ca
  /\ regs' = [regs EXCEPT !.control = [high |-> high, stop |-> st, carry |-> ca]]
  /\ \/ Remember("control", regs'.control)
     \/ Forget({"control"})
  /\ UNCHANGED <<t, s, m, h, latch, game>>

\* rtc_latch: bit 0 goes from 0 to 1.
Latched == [seconds |-> s, minutes |-> m, hours |-> h, days |-> d % Low,
            control |-> Control(d, stop, carry)]
Latch(b) ==
  /\ Playing
  /\ latch' = b
  /\ regs' = IF b /\ ~ latch THEN Latched ELSE regs
  /\ UNCHANGED <<time, stop, game, wrote>>

rtc_tick_NoReset ==
  /\ Playing /\ ~ stop /\ d < MaxDay
  /\ LET sec  == t + 1 = Frames
         min  == sec /\ s + 1 = Seconds
         hour == min /\ m + 1 = Minutes
         day  == hour /\ h + 1 = Hours
         year == day /\ d + 1 = Year
     IN  /\ t' = IF sec THEN 0 ELSE t + 1
         /\ s' = IF min THEN 0 ELSE IF sec THEN s + 1 ELSE s
         /\ m' = IF hour THEN 0 ELSE IF min THEN m + 1 ELSE m
         /\ h' = IF hour /\ ~ day THEN h + 1 ELSE h
         /\ d' = IF year THEN 0 ELSE IF day THEN d + 1 ELSE d
         /\ carry' = (carry \/ year)
         /\ wrote' = NoWrite
  /\ UNCHANGED <<stop, latch, regs, game>>

\* rtc_tick, once a frame: each counter that reaches its end starts over and
\* moves the next one on.  The end is tested for equality.
rtc_tick ==
  /\ Playing /\ ~ stop /\ d < MaxDay
  /\ LET sec  == t + 1 = Frames
         min  == sec /\ s + 1 = Seconds
         hour == min /\ m + 1 = Minutes
         day  == hour /\ h + 1 = Hours
         year == day /\ d + 1 = Year
     IN  /\ t' = IF sec THEN 0 ELSE t + 1
         /\ s' = IF min THEN 0 ELSE IF sec THEN s + 1 ELSE s
         /\ m' = IF hour THEN 0 ELSE IF min THEN m + 1 ELSE m
         /\ h' = IF day THEN 0 ELSE IF hour THEN h + 1 ELSE h
         /\ d' = IF year THEN 0 ELSE IF day THEN d + 1 ELSE d
         /\ carry' = (carry \/ year)
         /\ wrote' = NoWrite
  /\ UNCHANGED <<stop, latch, regs, game>>

\* A game is chosen.  The clock goes on from wherever it is.
StartGame(g) ==
  /\ ~ Playing
  /\ game' = g
  /\ UNCHANGED <<time, stop, latch, regs, wrote>>

LeaveGame ==
  /\ Playing
  /\ game' = NoGame
  /\ UNCHANGED <<time, stop, latch, regs, wrote>>

\* The console is switched off and on again.
SwitchOff ==
  /\ ~ Playing
  /\ Zero
  /\ wrote' = NoWrite
  /\ UNCHANGED game

Set == \/ \E b \in Bytes : SetSeconds(b) \/ SetMinutes(b) \/ SetHours(b)
       \/ \E b \in 0 .. Low - 1 : SetDays(b)
       \/ \E high \in {0, 1}, st \in BOOLEAN, ca \in BOOLEAN : SetControl(high, st, ca)

RtcNext == \/ Set \/ rtc_tick
        \/ \E b \in BOOLEAN : Latch(b)
        \/ \E g \in Games : StartGame(g)
        \/ LeaveGame \/ SwitchOff

RtcSpec == RtcInit /\ [][RtcNext]_rtcVars
-----------------------------------------------------------------------------
\* The nested counters count: a tick makes it one frame later, over every
\* boundary, and the year's end sets the carry and nothing else does.
TicksAreFrames ==
  rtc_tick /\ d < Year
    => \/ Elapsed' = Elapsed + 1 /\ carry' = carry
       \/ Elapsed' = 0 /\ Elapsed + 1 = Year * FramesPerDay /\ carry'

\* What a game has set and then latches it reads, as long as the clock has not
\* moved on: also when the value did not fit, and whatever other registers were
\* written in between (but for the days' high bit, see SetDays).
SetIsRead ==
  ~ latch /\ latch' /\ wrote.reg # "none" /\ UNCHANGED <<time, stop>>
    => regs'[wrote.reg] = wrote.value

\* The clock keeps its time within its ranges, whatever was written to its
\* registers, and shows it to the game.
KeepsTime == []RtcTypeOK /\ [][TicksAreFrames /\ SetIsRead]_rtcVars
=============================================================================
