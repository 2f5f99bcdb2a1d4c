-------------------------------- MODULE Lcdc --------------------------------
(***************************************************************************)
(* The LCD controller, the interrupt lines and the sleeping CPU of gnuboy  *)
(* (lcdc.c, hw.c, the main loop of cpu.c).                                 *)
(*                                                                         *)
(* The CPU loop alternates between fetching (idle while halted, dispatch   *)
(* an interrupt, let EI take effect), executing one instruction, and, when *)
(* the controller's cycle counter C has run out, lcdc_trans, which moves   *)
(* the controller on until the counter is positive again.  The catch-up    *)
(* loop is one step per transition here.                                   *)
(*                                                                         *)
(* Data: of an instruction only its length and its effect on the registers *)
(* below matter.  The numbers of lines and cycles are parameters.  The     *)
(* coincidence bit of STAT is the comparison it was last set from.         *)
(***************************************************************************)
EXTENDS Integers

CONSTANTS
  Visible,     \* visible lines (144)
  Oam, Transfer, Hblank,  \* cycles of modes 2, 3 and 0 (40, 86, 102)
  Line,        \* cycles of a line (228)
  Entry, Rest, \* the first line of the vertical blank, split (10, 218)
  Short, Long, \* its last line, split (28, 200)
  Lengths,     \* cycles an instruction may take
  Budgets,     \* cycles cpu_idle may be asked to skip
  MaxDebt,     \* bound: how far C may fall behind while the LCD is off
  Masks,       \* values a game writes to IE and IF: sets of interrupts
  Selections,  \* values a game writes to STAT: sets of conditions
  Compares,    \* values a game writes to LYC
  Blocks,      \* lengths of a horizontal-blank DMA, less one
  Color        \* hw.cgb

ASSUME DurationsAssumption ==
  /\ {Oam, Transfer, Hblank, Line, Entry, Rest, Short, Long} \subseteq Nat \ {0}
  /\ Oam + Transfer + Hblank = Line
  /\ Entry + Rest = Line
  /\ Short + Long = Line

ASSUME StepsAssumption ==
  /\ Lengths \subseteq Nat \ {0}
  /\ Budgets \subseteq Nat \ {0}
  /\ MaxDebt \in Nat

ASSUME GameAssumption ==
  /\ Visible \in Nat \ {0}
  /\ Masks \subseteq SUBSET (1..3)
  /\ Selections \subseteq SUBSET {"hblank", "vblank", "oam", "lyc"}
  /\ Compares \subseteq 0..255
  /\ Blocks \subseteq 0..127
  /\ Color \in BOOLEAN

VARIABLES
  pc,       \* where the CPU loop is: "fetch", "execute" or "lcd"; or in a
            \* cpu_idle that let no time pass, "idle", and after it, "woken"
  on,       \* R_LCDC & 0x80
  mode,     \* R_STAT & 3
  ly, lyc,  \* R_LY, R_LYC
  sel,      \* R_STAT & 0x78: conditions selected for the STAT interrupt
  C,        \* cpu.lcdc: cycles until the next transition
  hdma,     \* hw.hdma: blocks left, less one; -1 when no transfer is active
  lines,    \* hw.ilines
  flags,    \* R_IF
  enabled,  \* R_IE
  ime, ima, \* interrupts enabled; enabled after the next instruction
  halt,     \* cpu.halt
  beam      \* history: cycles since the current line began

lcd  == <<on, mode, ly, lyc, sel, hdma>>
cpu  == <<enabled, ime, ima>>
irq  == <<lines, flags, halt>>
vars == <<pc, lcd, C, irq, cpu, beam>>

VBLANK == 1
STAT   == 2
DEVICE == 3      \* timer, serial and pad interrupts
Sources == {VBLANK, STAT, DEVICE}
-----------------------------------------------------------------------------
(* Interrupt lines.                                                        *)

(* hw_interrupt: drive the lines of the mask to i; a line that rises sets  *)
(* its flag, and a flag that rises may wake the CPU.                       *)
Interrupt(s, i, mask) ==
  LET rise == (i \ s.lines) \ s.flags
  IN  [lines |-> (s.lines \ mask) \cup i,
       flags |-> s.flags \cup rise,
       halt  |-> s.halt /\ ~ (ime /\ rise \cap enabled # {})]
(* Another device raises and drops its line: pad_refresh, timer_advance,   *)
(* a write to SC.                                                          *)
Pulse(s) == Interrupt(Interrupt(s, {DEVICE}, {DEVICE}), {}, {DEVICE})
Irq == [lines |-> lines, flags |-> flags, halt |-> halt]
SetIrq(s) == lines' = s.lines /\ flags' = s.flags /\ halt' = s.halt

Conditions(m) == CASE m = 0 -> {"hblank"} [] m = 1 -> {"vblank", "oam"}
                   [] m = 2 -> {"oam"} [] OTHER -> {}
StatHolds(o, m, l, c, sl) ==
  o /\ \/ l <= Visible /\ l = c /\ "lyc" \in sl
       \/ Conditions(m) \cap sl # {}
(* stat_trigger, with the registers as they are after the change.          *)
StatTrigger(s, o, m, l, c, sl) ==
  Interrupt(s, IF StatHolds(o, m, l, c, sl) THEN {STAT} ELSE {}, {STAT})
StatChangeKeepsVblank(s, o, m, l) == StatTrigger(s, o, m, l, lyc, sel)
(* stat_change: leaving the vertical blank lowers its line.                *)
StatChange(s, o, m, l) ==
  StatTrigger(IF m # 1 THEN Interrupt(s, {}, {VBLANK}) ELSE s, o, m, l, lyc, sel)
-----------------------------------------------------------------------------
(* Fetching: the top of cpu_emulate's loop, with cpu_idle.                 *)

Pending  == flags \cap enabled
Sleeping == halt /\ ime /\ Pending = {}
IdleTimeUnbounded(b) == b
(* How long cpu_idle skips when asked for b cycles.                        *)
IdleTime(b) ==
  IF enabled \cap {VBLANK, STAT} # {} /\ b > C THEN C ELSE b

(* Time passes for everybody: lcdc_advance.                                *)
Elapse(c, n) ==
  /\ C' = c - n
  /\ pc' = IF C' <= 0 THEN "lcd" ELSE "fetch"
  /\ beam' = IF on THEN beam + n ELSE 0

(* cpu_idle, asleep; the timer may run out meanwhile.                      *)
Idle(b) ==
  /\ pc = "fetch" /\ Sleeping
  /\ IdleTime(b) # 0
  /\ C - IdleTime(b) >= - MaxDebt
  /\ Elapse(C, IdleTime(b))
  /\ \/ UNCHANGED irq
     \/ SetIrq(Pulse(Irq))
  /\ UNCHANGED <<lcd, cpu>>

(* cpu_idle, when a moved block took no time with the LCD off: it moves    *)
(* the controller on, and returns 0 as for a CPU that does not sleep.      *)
IdleNoTime ==
  /\ pc = "fetch" /\ Sleeping
  /\ C = 0 /\ enabled \cap {VBLANK, STAT} # {}
  /\ pc' = "idle"
  /\ UNCHANGED <<lcd, C, irq, cpu, beam>>

(* cpu_idle returned 0.                                                    *)
Awake == pc = "woken" \/ (pc = "fetch" /\ ~ Sleeping)
LowestOf(S) == CHOOSE i \in S : \A j \in S : i <= j

(* IME && (IF & IE): PRE_INT and THROW_INT.                                *)
Dispatch ==
  /\ Awake /\ ime /\ Pending # {}
  /\ flags' = flags \ {LowestOf(Pending)}
  /\ ime' = FALSE /\ ima' = FALSE /\ halt' = FALSE
  /\ pc' = "execute"
  /\ UNCHANGED <<lcd, C, lines, enabled, beam>>

(* IME = IMA, and on to the instruction.                                   *)
Proceed ==
  /\ Awake
  /\ ~ (ime /\ Pending # {})
  /\ ime' = ima
  /\ pc' = "execute"
  /\ UNCHANGED <<lcd, C, irq, ima, enabled, beam>>
-----------------------------------------------------------------------------
(* Executing one instruction of n cycles.                                  *)

Instruction(n) == pc = "execute" /\ Elapse(C, n)

Plain(n) == Instruction(n) /\ UNCHANGED <<lcd, irq, cpu>>

Ei(n) ==
  /\ Instruction(n)
  /\ ima' = TRUE
  /\ UNCHANGED <<lcd, irq, enabled, ime>>

Reti(n) ==
  /\ Instruction(n)
  /\ ime' = TRUE /\ ima' = TRUE
  /\ UNCHANGED <<lcd, irq, enabled>>

Di(n) ==
  /\ Instruction(n)
  /\ ime' = FALSE /\ ima' = FALSE /\ halt' = FALSE
  /\ UNCHANGED <<lcd, lines, flags, enabled>>

Halt(n) ==
  /\ Instruction(n)
  /\ halt' = TRUE
  /\ UNCHANGED <<lcd, lines, flags, cpu>>

(* doevents, between two calls of cpu_emulate: a button goes down.         *)
PadEvent ==
  /\ pc = "fetch"
  /\ SetIrq(Pulse(Irq))
  /\ UNCHANGED <<pc, lcd, C, cpu, beam>>

(* ioreg_write, RI_IE and RI_IF.                                           *)
WriteEnable(n, S) ==
  /\ Instruction(n)
  /\ enabled' = S
  /\ UNCHANGED <<lcd, irq, ime, ima>>

WriteFlags(n, S) ==
  /\ Instruction(n)
  /\ flags' = S
  /\ UNCHANGED <<lcd, lines, halt, cpu>>

OtherInterrupt(n) ==
  /\ Instruction(n)
  /\ SetIrq(Pulse(Irq))
  /\ UNCHANGED <<lcd, cpu>>

WriteLycNoTrigger(n, c) ==
  /\ Instruction(n)
  /\ lyc' = c
  /\ UNCHANGED <<on, mode, ly, sel, hdma, irq, cpu>>
(* ioreg_write, RI_LYC.                                                    *)
WriteLyc(n, c) ==
  /\ Instruction(n)
  /\ lyc' = c
  /\ SetIrq(StatTrigger(Irq, on, mode, ly, c, sel))
  /\ UNCHANGED <<on, mode, ly, sel, hdma, cpu>>

(* stat_write; on a monochrome Game Boy a write outside modes 2 and 3      *)
(* raises the interrupt by itself.                                         *)
WriteStat(n, S) ==
  /\ Instruction(n)
  /\ sel' = S
  /\ LET s == IF ~ Color /\ mode \in {0, 1} THEN Interrupt(Irq, {STAT}, {STAT}) ELSE Irq
     IN  SetIrq(StatTrigger(s, on, mode, ly, lyc, S))
  /\ UNCHANGED <<on, mode, ly, lyc, hdma, cpu>>

(* lcdc_change, when it switches the LCD on or off.                        *)
Switch(n) ==
  /\ pc = "execute"
  /\ on' = ~ on
  /\ ly' = 0 /\ mode' = 2
  /\ SetIrq(StatChange(Irq, on', 2, 0))
  /\ C' = Oam - n
  /\ pc' = IF C' <= 0 THEN "lcd" ELSE "fetch"
  /\ beam' = IF on' THEN n ELSE 0
  /\ UNCHANGED <<lyc, sel, hdma, cpu>>

(* hw_hdma_cmd, bit 7 set: start or restart; clear: cancel.                *)
StartHdma(n, k) ==
  /\ Instruction(n)
  /\ hdma' = k
  /\ UNCHANGED <<on, mode, ly, lyc, sel, irq, cpu>>
CancelHdma(n) ==
  /\ Instruction(n)
  /\ hdma >= 0 /\ hdma' = -1
  /\ UNCHANGED <<on, mode, ly, lyc, sel, irq, cpu>>
-----------------------------------------------------------------------------
(* lcdc_trans, one transition at a time.                                   *)

(* The controller enters mode m in line l, to stay for n cycles.           *)
Enter(s, m, l, n) ==
  /\ mode' = m /\ ly' = l
  /\ C' = C + n
  /\ SetIrq(s)
  /\ pc' = IF pc = "idle" THEN "woken" ELSE IF on /\ C' <= 0 THEN "lcd" ELSE "fetch"
  /\ UNCHANGED <<on, lyc, sel, cpu>>
Shown == pc = "lcd" /\ on
NextLine == beam' = beam - Line
SameLine == beam' = beam

OamEnds ==
  /\ Shown /\ mode = 2
  /\ Enter(StatChange(Irq, on, 3, ly), 3, ly, Transfer)
  /\ SameLine /\ UNCHANGED hdma

(* The horizontal blank begins: hw_hdma moves one block.                   *)
MoveBlock == hdma' = IF hdma >= 0 THEN hdma - 1 ELSE hdma
TransferEnds ==
  /\ Shown /\ mode = 3
  /\ Enter(StatChange(Irq, on, 0, ly), 0, ly, Hblank)
  /\ SameLine /\ MoveBlock

NextVisibleLine ==
  /\ Shown /\ mode = 0 /\ ly + 1 < Visible
  /\ Enter(StatChange(Irq, on, 2, ly + 1), 2, ly + 1, Oam)
  /\ NextLine /\ UNCHANGED hdma

VblankBeginsHaltedShort ==
  /\ Shown /\ mode = 0 /\ ly + 1 >= Visible
  /\ IF halt
     THEN Enter(StatChange(Interrupt(Irq, {VBLANK}, {VBLANK}), on, 1, ly + 1),
                1, ly + 1, Rest)
     ELSE Enter(StatChange(Irq, on, 1, ly + 1), 1, ly + 1, Entry)
  /\ NextLine /\ UNCHANGED hdma
(* With the CPU halted the line goes up, but not through hw_interrupt. *)
VblankBeginsSilently ==
  /\ Shown /\ mode = 0 /\ ly + 1 >= Visible
  /\ IF halt
     THEN Enter(StatChange([Irq EXCEPT !.lines = @ \cup {VBLANK}], on, 1, ly + 1),
                1, ly + 1, Line)
     ELSE Enter(StatChange(Irq, on, 1, ly + 1), 1, ly + 1, Entry)
  /\ NextLine /\ UNCHANGED hdma
(* The vertical blank begins; its line rises at once when the CPU is       *)
(* halted, and after Entry cycles otherwise.                               *)
VblankBegins ==
  /\ Shown /\ mode = 0 /\ ly + 1 >= Visible
  /\ IF halt
     THEN Enter(StatChange(Interrupt(Irq, {VBLANK}, {VBLANK}), on, 1, ly + 1),
                1, ly + 1, Line)
     ELSE Enter(StatChange(Irq, on, 1, ly + 1), 1, ly + 1, Entry)
  /\ NextLine /\ UNCHANGED hdma

VblankRises ==
  /\ Shown /\ mode = 1 /\ VBLANK \notin lines
  /\ Enter(Interrupt(Irq, {VBLANK}, {VBLANK}), 1, ly, Rest)
  /\ SameLine /\ UNCHANGED hdma

InVblank == Shown /\ mode = 1 /\ VBLANK \in lines
VblankLine(l, n) ==
  /\ Enter(StatTrigger(Irq, on, 1, l, lyc, sel), 1, l, n)
  /\ UNCHANGED hdma
NextBlankLine ==
  /\ InVblank /\ ly # 0 /\ ly < Visible + 8
  /\ VblankLine(ly + 1, Line) /\ NextLine
LastLineBegins ==
  /\ InVblank /\ ly = Visible + 8
  /\ VblankLine(ly + 1, Short) /\ NextLine
(* LY reads 0 for most of the last line.                                   *)
LyWraps ==
  /\ InVblank /\ ly > Visible + 8
  /\ VblankLine(0, Long) /\ SameLine
FrameEnds ==
  /\ InVblank /\ ly = 0
  /\ Enter(StatChange(Irq, on, 2, 0), 2, 0, Oam)
  /\ NextLine /\ UNCHANGED hdma

(* With the LCD off there are no lines: modes 2, 3 and 0 follow each other *)
(* once per call, and a moved block takes no time.                         *)
OffTransition ==
  /\ pc \in {"lcd", "idle"} /\ ~ on
  /\ \/ /\ mode \in {0, 1}
        /\ Enter(StatChange(Irq, on, 2, ly), 2, ly, Oam) /\ UNCHANGED hdma
     \/ /\ mode = 2
        /\ Enter(StatChange(Irq, on, 3, ly), 3, ly, Transfer) /\ UNCHANGED hdma
     \/ /\ mode = 3
        /\ Enter(StatChange(Irq, on, 0, ly), 0, ly, IF hdma >= 0 THEN 0 ELSE Hblank)
        /\ MoveBlock
  /\ SameLine
-----------------------------------------------------------------------------
(* emu_reset, just before the first instruction.  A transfer that the game *)
(* before has left is not stopped.                                         *)
Init ==
  /\ pc = "fetch"
  /\ on = TRUE /\ mode = 0 /\ ly = 0 /\ lyc = 0 /\ sel = {}
  /\ C = Oam
  /\ hdma \in {-1} \cup Blocks
  /\ lines = {} /\ flags = {} /\ enabled = {}
  /\ ime = FALSE /\ ima = FALSE /\ halt = FALSE
  /\ beam = Line - Oam

Sleep == IdleNoTime \/ \E b \in Budgets : Idle(b)
Fetch == Dispatch \/ Proceed
Execute ==
  \E n \in Lengths :
    \/ Plain(n) \/ Ei(n) \/ Reti(n) \/ Di(n) \/ Halt(n)
    \/ \E S \in Masks : WriteEnable(n, S) \/ WriteFlags(n, S)
    \/ OtherInterrupt(n)
    \/ \E c \in Compares : WriteLyc(n, c)
    \/ \E S \in Selections : WriteStat(n, S)
    \/ Switch(n)
    \/ \E k \in Blocks : StartHdma(n, k)
    \/ CancelHdma(n)
Transition ==
  \/ OamEnds \/ TransferEnds \/ NextVisibleLine
  \/ VblankBegins \/ VblankRises \/ NextBlankLine \/ LastLineBegins
  \/ LyWraps \/ FrameEnds \/ OffTransition

Next == Sleep \/ Fetch \/ Execute \/ PadEvent \/ Transition

Spec == Init /\ [][Next]_vars

(* cpu_emulate is one loop, and emu_run calls it as long as the game runs: *)
(* it never stops fetching, executing, sleeping or moving the controller.  *)
FairSpec ==
  Spec /\ WF_vars(Sleep) /\ WF_vars(Fetch) /\ WF_vars(Execute) /\ WF_vars(Transition)
-----------------------------------------------------------------------------
(* Properties.                                                             *)

(* The registers, and a cycle counter that stays within one line of zero   *)
(* unless the LCD is off (lcdc_trans, cpu_idle).                           *)
TypeOK ==
  /\ pc \in {"fetch", "execute", "lcd", "idle", "woken"}
  /\ on \in BOOLEAN /\ mode \in 0..3 /\ ly \in 0..(Visible + 9)
  /\ lyc \in 0..255
  /\ sel \in SUBSET {"hblank", "vblank", "oam", "lyc"}
  /\ C \in Int /\ beam \in Int
  /\ hdma \in -1..127
  /\ lines \in SUBSET Sources /\ flags \in SUBSET Sources
  /\ enabled \in SUBSET Sources
  /\ ime \in BOOLEAN /\ ima \in BOOLEAN /\ halt \in BOOLEAN

(* Where the current phase ends, in cycles from the start of its line.     *)
PhaseEnd ==
  CASE mode = 2 -> Oam
    [] mode = 3 -> Oam + Transfer
    [] mode = 1 /\ ly = Visible /\ VBLANK \notin lines -> Entry
    [] mode = 1 /\ ly = Visible + 9 -> Short
    [] OTHER -> Line

(* Every line takes exactly Line cycles, whatever the CPU does: halted or  *)
(* not when the vertical blank begins, sleeping through many transitions   *)
(* at once, or overrunning one by half an instruction (lcdc_trans).        *)
LinesOnTime == on => beam + C = PhaseEnd

(* The STAT line always is what its conditions say: stat_trigger is called *)
(* on every change of LY, LYC, the mode, the selection and the LCD switch  *)
(* (lcdc.c:14).                                                            *)
StatLineCurrent == STAT \in lines <=> StatHolds(on, mode, ly, lyc, sel)

(* The VBLANK line is up from its late rise to the end of the vertical     *)
(* blank and never outside, so that it rises once in every frame.          *)
VblankLineUp ==
  /\ VBLANK \in lines => on /\ mode = 1
  /\ on /\ mode = 1 /\ ly # Visible => VBLANK \in lines
  /\ mode = 1 => ly >= Visible \/ ly = 0
  /\ mode # 1 => ly < Visible

(* An LCD interrupt that the game has enabled is never raised later than   *)
(* one instruction after its moment, although the CPU sleeps through whole *)
(* frames when it waits for something else (cpu.c:329, "Make sure we don't *)
(* miss lcdc status events!").                                             *)
EnabledOnTime ==
  [][ pc = "lcd" /\ on /\ (flags' \ flags) \cap enabled # {}
        => \E n \in Lengths : C > -n ]_vars

(* A CPU that sleeps with the VBLANK interrupt enabled wakes up.           *)
SleepersWake ==
  (pc = "fetch" /\ Sleeping /\ on /\ VBLANK \in enabled) ~> ~ halt
=============================================================================
