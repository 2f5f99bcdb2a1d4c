---------------------------- MODULE SoundChannel ----------------------------
(***************************************************************************)
(* The four sound channels (sound.c): the registers of one, the state      *)
(* derived from them, what a register write and a sample do to it.  The    *)
(* first channel has a sweep and an envelope, the second and the fourth an *)
(* envelope, the third neither but an on/off bit in NR30.  No channel      *)
(* touches another one's state, so a behaviour follows one of them.        *)
(*                                                                         *)
(* A saved state holds the registers and the counters; sound_dirty         *)
(* recomputes the rest.  Everything sound_dirty assigns depends on what    *)
(* was saved alone, so loading a state gives what saving and loading at    *)
(* once gave when the state was saved: StateRoundTrip stands for every     *)
(* load.                                                                   *)
(***************************************************************************)
EXTENDS Integers

CONSTANTS
  SampleTime,    \* cycles per sample, RATE
  LengthUnit,    \* cycles per step of the length register, 1 << 13
  VolumeUnit,    \* cycles per step of the envelope period, 1 << 15
  SweepUnit,     \* cycles per step of the sweep period, 1 << 14
  \* Functions of the channel, 1 to 4.
  Steps,         \* values of the length register, 64 or 256
  DirtyUnit,     \* LengthUnit as sound_dirty has it: 1 << 13, for channel 3 1 << 20
  Loudest,       \* 15
  Lows, Highs,   \* values of the low and the high part of the frequency
  Periods,       \* periods of the envelope
  OffPeriod,     \* ... the one sound_off sets
  SweepPeriods, Shifts   \* of the sweep

Channels == 1 .. 4

ASSUME SoundChannelAssumption ==
  /\ SampleTime \in Nat \ {0} /\ LengthUnit \in Nat \ {0}
  /\ VolumeUnit \in Nat /\ SweepUnit \in Nat
  /\ Steps \in [Channels -> Nat \ {0}]
  /\ DirtyUnit \in [Channels -> Nat]
  /\ DirtyUnit[3] >= LengthUnit /\ \A c \in Channels \ {3} : DirtyUnit[c] = LengthUnit
  /\ Loudest \in [Channels -> Nat]
  /\ Lows \in [Channels -> Nat \ {0}] /\ Highs \in [Channels -> Nat \ {0}]
  /\ Highs[4] = 1     \* NR44 holds no part of the frequency
  /\ \A c \in Channels : OffPeriod[c] \in Periods[c] /\ Periods[c] \subseteq Nat
  /\ SweepPeriods \subseteq Nat /\ 0 \in SweepPeriods
  /\ Shifts \subseteq 0 .. 7 /\ 0 \in Shifts     \* three bits of NR10

VARIABLES
  id,    \* the channel followed
  nr,    \* its registers
  ch,    \* its struct sndchan
  sounded,   \* history: samples since the last start, up to the length
  sure       \* history: the length was enabled and not rewritten since then

channelVars == <<id, nr, ch, sounded, sure>>

HasSweep    == id = 1
HasEnvelope == id # 3
HasSwitch   == id = 3

Highest == Lows[id] * Highs[id] - 1      \* 2047
Frequencies == 0 .. Highest

\* A register a channel does not have stays zero.
Registers ==
  [ swPeriod : SweepPeriods, swDown : BOOLEAN, swShift : Shifts,         \* NR10
    length : 0 .. Steps[id] - 1,                                         \* NRx1
    volume : 0 .. Loudest[id], up : BOOLEAN, period : Periods[id],       \* NRx2
    low : 0 .. Lows[id] - 1,                                   \* NRx3, of 4 all of NR43
    high : 0 .. Highs[id] - 1, lengthOn : BOOLEAN,                       \* NRx4
    switch : BOOLEAN ]                                                   \* NR30

\* struct sndchan.
Sndchan ==
  [ on : BOOLEAN, len : Nat, cnt : Nat,
    swlen : Nat, swcnt : Nat, swfreq : Frequencies,
    enlen : Nat, encnt : Nat, envol : 0 .. Loudest[id], endir : {-1, 1},
    freq : Frequencies ]

ChannelTypeOK ==
  nr \in Registers /\ ch \in Sndchan /\ sounded \in Nat /\ sure \in BOOLEAN

\* What the derived fields are for given registers.  The step of the sample
\* position is abstracted to the frequency it is computed from.
Length(r) == (Steps[id] - r.length) * LengthUnit
Direction(r) == IF r.up THEN 1 ELSE -1
Frequency(r) == r.high * Lows[id] + r.low

WithSweep(c, r) == [c EXCEPT !.swlen = r.swPeriod * SweepUnit]
WithEnvelope(c, r) == [c EXCEPT !.envol = r.volume, !.endir = Direction(r),
                                !.enlen = r.period * VolumeUnit]
WithFrequency(c, r) == [c EXCEPT !.freq = Frequency(r)]

\* sound_dirty, for this channel.
sound_dirty(c, r) ==
  LET d == [c EXCEPT !.len = (Steps[id] - r.length) * DirtyUnit[id]]
  IN  WithFrequency(WithEnvelope(WithSweep(d, r), r), r)

Zero == [ on |-> FALSE, len |-> 0, cnt |-> 0,
          swlen |-> 0, swcnt |-> 0, swfreq |-> 0,
          enlen |-> 0, encnt |-> 0, envol |-> 0, endir |-> 0, freq |-> 0 ]

\* The registers after sound_off.  NR13 and NR23 are left alone, and so is NR34,
\* in whose place NR33 is set.
OffRegisters(r) ==
  LET off == [r EXCEPT !.swPeriod = 0, !.swDown = FALSE, !.swShift = 0,
                       !.length = Steps[id] - 1, !.up = FALSE,
                       !.volume = IF id = 1 THEN Loudest[id] ELSE 0,
                       !.period = OffPeriod[id], !.switch = FALSE]
  IN  IF id = 3 THEN [off EXCEPT !.low = Lows[id] - 1]
      ELSE [off EXCEPT !.high = Highs[id] - 1, !.lengthOn = FALSE,
                       !.low = IF id = 4 THEN 0 ELSE @]

Cleared == [ swPeriod |-> 0, swDown |-> FALSE, swShift |-> 0, length |-> 0,
             volume |-> 0, up |-> FALSE, period |-> OffPeriod[id], low |-> 0,
             high |-> 0, lengthOn |-> FALSE, switch |-> FALSE ]

ChannelInit ==
  /\ id \in Channels
  /\ nr = OffRegisters(Cleared)
  /\ ch = sound_dirty(Zero, nr)
  /\ sounded = 0 /\ sure = FALSE
-----------------------------------------------------------------------------
\* NR10: period, direction and shift of the sweep.
WriteSweep(p, d, n) ==
  /\ HasSweep
  /\ nr' = [nr EXCEPT !.swPeriod = p, !.swDown = d, !.swShift = n]
  /\ ch' = [WithSweep(ch, nr') EXCEPT !.swfreq = Frequency(nr)]
  /\ UNCHANGED <<sounded, sure>>

\* NRx1.
WriteLength(x) ==
  /\ nr' = [nr EXCEPT !.length = x]
  /\ ch' = [ch EXCEPT !.len = Length(nr')]
  /\ sure' = FALSE
  /\ UNCHANGED sounded

\* NRx2.
WriteEnvelope(v, u, p) ==
  /\ HasEnvelope
  /\ nr' = [nr EXCEPT !.volume = v, !.up = u, !.period = p]
  /\ ch' = WithEnvelope(ch, nr')
  /\ UNCHANGED <<sounded, sure>>

\* NRx3.
WriteLow(x) ==
  /\ nr' = [nr EXCEPT !.low = x]
  /\ ch' = WithFrequency(ch, nr')
  /\ UNCHANGED <<sounded, sure>>

\* What a start does: s1_init, s2_init, s3_init, s4_init.
Started(c, r) ==
  [WithEnvelope(c, r) EXCEPT !.on = HasSwitch => r.switch,
                             !.cnt = 0, !.encnt = 0, !.swcnt = 0,
                             !.swfreq = IF HasSweep THEN Frequency(r) ELSE @]

\* NRx4: the high part of the frequency, the length bit and the start bit.
WriteHigh(x, lengthOn, start) ==
  /\ nr' = [nr EXCEPT !.high = x, !.lengthOn = lengthOn]
  /\ ch' = LET c == WithFrequency(ch, nr')
           IN  IF start THEN Started(c, nr') ELSE c
  /\ IF start THEN sounded' = 0 /\ sure' = lengthOn
              ELSE sounded' = sounded /\ sure' = (sure /\ lengthOn)

\* NR30: the third channel's switch; clearing it stops the channel.
WriteSwitch(s) ==
  /\ HasSwitch
  /\ nr' = [nr EXCEPT !.switch = s]
  /\ ch' = IF s THEN ch ELSE [ch EXCEPT !.on = FALSE]
  /\ UNCHANGED <<sounded, sure>>

\* A write to NR52 without its top bit: sound_off.
SoundOff ==
  /\ nr' = OffRegisters(nr)
  /\ ch' = sound_dirty(Zero, nr')
  /\ sure' = FALSE
  /\ UNCHANGED sounded

\* A state is saved and loaded.
StateRoundTrip ==
  /\ ch' = sound_dirty(ch, nr)
  /\ UNCHANGED <<nr, sounded, sure>>
-----------------------------------------------------------------------------
\* A sample, piece by piece, as sound_mix makes it.

ShortenOneLate(c) ==
  IF nr.lengthOn
  THEN [c EXCEPT !.cnt = @ + SampleTime, !.on = c.cnt + SampleTime <= c.len + 1]
  ELSE c

Shorten(c) ==
  IF nr.lengthOn
  THEN [c EXCEPT !.cnt = @ + SampleTime, !.on = c.cnt + SampleTime < c.len]
  ELSE c

Clamp(v) == IF v < 0 THEN 0 ELSE IF v > Loudest[id] THEN Loudest[id] ELSE v

Envelope(c) ==
  IF c.enlen = 0 THEN c
  ELSE IF c.encnt + SampleTime < c.enlen THEN [c EXCEPT !.encnt = @ + SampleTime]
  ELSE [c EXCEPT !.encnt = @ + SampleTime - c.enlen, !.envol = Clamp(@ + c.endir)]

\* The next frequency of the sweep: f -+ (f >> shift).
TwoTo == <<1, 2, 4, 8, 16, 32, 64, 128>>
Swept(f) == LET d == f \div TwoTo[nr.swShift + 1]
            IN  IF nr.swDown THEN f - d ELSE f + d

SweepDue(c) == HasSweep /\ c.swlen # 0 /\ c.swcnt + SampleTime >= c.swlen

\* The sweep writes the frequency back into NR13 and NR14, or stops the
\* channel when it would be too high.
Sweep(c) ==
  IF ~SweepDue(c)
  THEN [c EXCEPT !.swcnt = IF HasSweep /\ c.swlen # 0 THEN @ + SampleTime ELSE @]
  ELSE LET f == Swept(c.swfreq)
           d == [c EXCEPT !.swcnt = @ + SampleTime - c.swlen]
       IN  IF f > Highest THEN [d EXCEPT !.on = FALSE]
                          ELSE [d EXCEPT !.swfreq = f, !.freq = f]

SweptRegisters_LowOnly(c) ==
  IF SweepDue(c) /\ Swept(c.swfreq) <= Highest
  THEN [nr EXCEPT !.low = Swept(c.swfreq) % Lows[id]]
  ELSE nr

SweptRegisters(c) ==
  IF SweepDue(c) /\ Swept(c.swfreq) <= Highest
  THEN [nr EXCEPT !.low = Swept(c.swfreq) % Lows[id], !.high = Swept(c.swfreq) \div Lows[id]]
  ELSE nr

MixSample ==
  /\ ch.on
  /\ ch' = Sweep(Envelope(Shorten(ch)))
  /\ nr' = SweptRegisters(ch)
  /\ sounded' = IF sure THEN sounded + 1 ELSE sounded
  /\ UNCHANGED sure

ChannelNext ==
  /\ UNCHANGED id
  /\ \/ \E p \in SweepPeriods, d \in BOOLEAN, n \in Shifts : WriteSweep(p, d, n)
     \/ \E x \in 0 .. Steps[id] - 1 : WriteLength(x)
     \/ \E v \in 0 .. Loudest[id], u \in BOOLEAN, p \in Periods[id] : WriteEnvelope(v, u, p)
     \/ \E x \in 0 .. Lows[id] - 1 : WriteLow(x)
     \/ \E x \in 0 .. Highs[id] - 1, l, s \in BOOLEAN : WriteHigh(x, l, s)
     \/ \E s \in BOOLEAN : WriteSwitch(s)
     \/ SoundOff \/ StateRoundTrip \/ MixSample

ChannelSpec == ChannelInit /\ [][ChannelNext]_channelVars
-----------------------------------------------------------------------------
\* Whatever wrote the registers last, the game, the sweep, sound_off or a state
\* load, the channel runs by what the registers say now, within its ranges.
DerivedFresh ==
  /\ ChannelTypeOK
  /\ ch.swlen = nr.swPeriod * SweepUnit
  /\ ch.enlen = nr.period * VolumeUnit /\ ch.endir = Direction(nr)
  /\ ch.freq = Frequency(nr)

\* A channel whose switch in NR30 is off makes no sound.
SwitchedOffIsSilent == HasSwitch /\ ~nr.switch => ~ch.on

\* A sound with a length stops exactly when its length is over: not later, but
\* for the third channel, whose length sound_dirty computes 128 times too long,
StopsOnTime == id # 3 /\ sure /\ ch.on => sounded * SampleTime < Length(nr)

\* and not earlier, unless the game or the sweep stops it.
PlaysItsLength ==
  MixSample /\ sure /\ ~ch'.on =>
    \/ (sounded + 1) * SampleTime >= Length(nr)
    \/ SweepDue(ch) /\ Swept(ch.swfreq) > Highest

\* A channel sounds when its registers say so and for as long as they say.
SoundsAsSet == [](SwitchedOffIsSilent /\ StopsOnTime) /\ [][PlaysItsLength]_channelVars
=============================================================================
