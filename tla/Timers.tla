------------------------------- MODULE Timers -------------------------------
(***************************************************************************)
(* The Game Boy's divider and timer (cpu.c), and the sleep of a halted CPU *)
(* that must end when the timer interrupt comes.  Time passes in chunks,   *)
(* an instruction or a whole sleep at once; the hardware counts cycle by   *)
(* cycle.  At double speed the timers see each cycle of the sleep twice.   *)
(***************************************************************************)
EXTENDS Integers

CONSTANTS
  DivSpan,   \* counts per step of DIV, 256
  TimSpan,   \* counts per step of TIMA, 512
  Top,       \* values of the registers DIV, TIMA and TMA, 256
  TimerShifts, \* what the clock select bits of TAC stand for: {0, 2, 4, 6}
  Lengths,   \* cycles of an instruction, as the timers count them
  Budgets    \* cycles cpu_idle may skip: its argument, limited by the LCD

ASSUME TimersAssumption ==
  /\ DivSpan \in Nat \ {0, 1} /\ TimSpan \in Nat \ {0} /\ Top \in Nat \ {0}
  /\ TimerShifts \subseteq Nat
  /\ \A s \in TimerShifts : 2 ^ s \in 1 .. TimSpan /\ TimSpan % (2 ^ s) = 0
  /\ Lengths \subseteq Nat \ {0}
  /\ Budgets \subseteq Nat \ {0}

VARIABLES
  count,   \* cpu.div, DIV, cpu.tim, TIMA, and the timer's bit in IF
  timerRegs, \* TMA, and of TAC whether the timer runs and its shift
  double,  \* cpu.speed
  timerEnabled, \* the timer's bit in IE
  halt, ime, ima

timersVars == <<count, timerRegs, double, timerEnabled, halt, ime, ima>>

Values == 0 .. Top - 1

TimersTypeOK ==
  /\ count \in [ div : 0 .. DivSpan - 1, DIV : Values,
                 tim : 0 .. TimSpan - 1, TIMA : Values, flag : BOOLEAN ]
  /\ timerRegs \in [tma : Values, run : BOOLEAN, shift : TimerShifts]
  /\ double \in BOOLEAN /\ timerEnabled \in BOOLEAN
  /\ halt \in BOOLEAN /\ ime \in BOOLEAN /\ ima \in BOOLEAN

TimersInit ==
  /\ count = [div |-> 0, DIV |-> 0, tim |-> 0, TIMA |-> 0, flag |-> FALSE]
  /\ \E s \in TimerShifts : timerRegs = [tma |-> 0, run |-> FALSE, shift |-> s]
  /\ double = FALSE /\ timerEnabled = FALSE
  /\ halt = FALSE /\ ime = FALSE /\ ima = FALSE
-----------------------------------------------------------------------------
(* The counters c after n cycles with registers r, in one go as in cpu.c.  *)

div_advance(c, n) ==
  LET d == c.div + 2 * n
  IN  [c EXCEPT !.div = d % DivSpan, !.DIV = (@ + d \div DivSpan) % Top]

ReloadedFromTma(x, r) == IF x < Top THEN x ELSE r.tma

\* while (tima >= 256) tima = tima - 256 + TMA;
Reloaded(x, r) ==
  LET f[y \in Nat] == IF y < Top THEN y ELSE f[y - Top + r.tma] IN f[x]

timer_advance(c, r, n) ==
  LET tim  == c.tim + n * 2 ^ r.shift
      tima == c.TIMA + tim \div TimSpan
  IN  IF ~r.run THEN c
      ELSE [c EXCEPT !.tim = tim % TimSpan,
                     !.TIMA = Reloaded(tima, r),
                     !.flag = @ \/ tima >= Top]

Advanced(c, r, n) == timer_advance(div_advance(c, n), r, n)

(* The same as the hardware counts, a cycle at a time.                     *)

OneCycle(c, r) ==
  LET d    == c.div + 2
      tim  == c.tim + 2 ^ r.shift
      step == r.run /\ tim >= TimSpan
      over == step /\ c.TIMA = Top - 1
  IN  [ div  |-> d % DivSpan,
        DIV  |-> IF d >= DivSpan THEN (c.DIV + 1) % Top ELSE c.DIV,
        tim  |-> IF r.run THEN tim % TimSpan ELSE c.tim,
        TIMA |-> IF over THEN r.tma ELSE IF step THEN c.TIMA + 1 ELSE c.TIMA,
        flag |-> c.flag \/ over ]

Cycles(c, r, n) ==
  LET f[k \in 0 .. n] == IF k = 0 THEN c ELSE OneCycle(f[k - 1], r) IN f[n]
-----------------------------------------------------------------------------
Pending == count.flag /\ timerEnabled
Sleeping == halt /\ ime /\ ~Pending

\* cpu_idle: how long until TIMA overflows, counted without the double speed.
UntilOverflow ==
  (TimSpan - 1 - count.tim + 2 ^ timerRegs.shift) \div 2 ^ timerRegs.shift
    + (Top - 1 - count.TIMA) * (TimSpan \div 2 ^ timerRegs.shift)

IdleTimeNoTimer(max) == max

IdleTimeTooShort(max) ==
  IF timerEnabled /\ timerRegs.run /\ UntilOverflow - 1 < max
  THEN UntilOverflow - 1 ELSE max

\* cpu_idle's choice: until the timer interrupt, if there can be one.
IdleTime(max) ==
  IF timerEnabled /\ timerRegs.run /\ UntilOverflow < max THEN UntilOverflow ELSE max

Doubled(n) == IF double THEN 2 * n ELSE n

\* An enabled interrupt that is newly requested ends the halt.
WakenedBy(before, after, h, i, e) == h /\ i /\ e /\ after.flag /\ ~before.flag

\* cpu_idle on a CPU that sleeps; cpu_timers doubles the time at double speed.
Idle(max) ==
  /\ Sleeping
  /\ count' = Advanced(count, timerRegs, Doubled(IdleTime(max)))
  /\ halt' = ~WakenedBy(count, count', halt, ime, timerEnabled)
  /\ UNCHANGED <<timerRegs, double, timerEnabled, ime, ima>>

\* cpu_idle on a halted CPU with an interrupt to take, then the interrupt: it is
\* no longer requested, and DI.
TakeInterrupt ==
  /\ ime /\ Pending
  /\ count' = [count EXCEPT !.flag = FALSE]
  /\ halt' = FALSE /\ ime' = FALSE /\ ima' = FALSE
  /\ UNCHANGED <<timerRegs, double, timerEnabled>>

\* An instruction of n cycles: IME takes the value EI left for it, then the
\* instruction does its work and leaves the counters as c and halt as h, then
\* its time passes.
Executes(n, c, h) ==
  /\ ~Sleeping /\ ~(ime /\ Pending)
  /\ count' = Advanced(c, timerRegs', n)
  /\ halt' = (h /\ ~WakenedBy(c, count', h, ime', timerEnabled'))

Plain(n) ==
  /\ UNCHANGED <<timerRegs, double, timerEnabled, ima>> /\ ime' = ima
  /\ Executes(n, count, halt)

WriteTima(n, x) ==
  /\ UNCHANGED <<timerRegs, double, timerEnabled, ima>> /\ ime' = ima
  /\ Executes(n, [count EXCEPT !.TIMA = x], halt)

\* Only DIV is cleared, the fraction counted in cpu.div is not.
WriteDiv(n) ==
  /\ UNCHANGED <<timerRegs, double, timerEnabled, ima>> /\ ime' = ima
  /\ Executes(n, [count EXCEPT !.DIV = 0], halt)

WriteFlag(n, f) ==
  /\ UNCHANGED <<timerRegs, double, timerEnabled, ima>> /\ ime' = ima
  /\ Executes(n, [count EXCEPT !.flag = f], halt)

WriteRegs(n, x, run, s) ==
  /\ timerRegs' = [tma |-> x, run |-> run, shift |-> s]
  /\ UNCHANGED <<double, timerEnabled, ima>> /\ ime' = ima
  /\ Executes(n, count, halt)

WriteEnable(n, e) ==
  /\ timerEnabled' = e
  /\ UNCHANGED <<timerRegs, double, ima>> /\ ime' = ima
  /\ Executes(n, count, halt)

Ei(n) ==
  /\ ima' = TRUE /\ ime' = ima
  /\ UNCHANGED <<timerRegs, double, timerEnabled>>
  /\ Executes(n, count, halt)

Di(n) ==
  /\ ima' = FALSE /\ ime' = FALSE
  /\ UNCHANGED <<timerRegs, double, timerEnabled>>
  /\ Executes(n, count, FALSE)

Halt(n) ==
  /\ UNCHANGED <<timerRegs, double, timerEnabled, ima>> /\ ime' = ima
  /\ Executes(n, count, TRUE)

\* STOP with the speed switch armed.
Stop(n) ==
  /\ double' = ~double
  /\ UNCHANGED <<timerRegs, timerEnabled, ima>> /\ ime' = ima
  /\ Executes(n, count, halt)

Execute ==
  \E n \in Lengths :
    \/ Plain(n) \/ WriteDiv(n) \/ Ei(n) \/ Di(n) \/ Halt(n) \/ Stop(n)
    \/ \E x \in Values : WriteTima(n, x)
    \/ \E b \in BOOLEAN : WriteFlag(n, b) \/ WriteEnable(n, b)
    \/ \E x \in Values, b \in BOOLEAN, s \in TimerShifts : WriteRegs(n, x, b, s)

Sleep == \E max \in Budgets : Idle(max)

TimersNext == Sleep \/ TakeInterrupt \/ Execute

\* The frame loop keeps calling cpu_emulate, so a sleep goes on.
TimersSpec == TimersInit /\ [][TimersNext]_timersVars /\ WF_timersVars(Sleep)
-----------------------------------------------------------------------------
\* Counting a chunk of time at once gives what the hardware gives cycle by
\* cycle: the counters, the reloads from TMA and the interrupt.
ChunksAreCycles ==
  /\ TimersTypeOK
  /\ \A n \in Lengths \cup Budgets :
       Advanced(count, timerRegs, n) = Cycles(count, timerRegs, n)

OverflowIn(n) == n > 0 /\ Cycles(count, timerRegs, n).flag

\* cpu.c:340 "Figure out when the next timer interrupt will happen": a sleep does
\* not run past the cycle that requests an enabled timer interrupt.
SleepsExactly ==
  Sleeping /\ timerEnabled =>
    \A max \in Budgets : ~OverflowIn(Doubled(IdleTime(max) - 1))

\* The same at single speed.
SleepsExactlySingle == ~double => SleepsExactly

\* A CPU that sleeps with the timer running and its interrupt enabled wakes up.
SleepersWake == Sleeping /\ timerEnabled /\ timerRegs.run ~> ~Sleeping
=============================================================================
