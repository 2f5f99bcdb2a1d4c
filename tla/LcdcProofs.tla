----------------------------- MODULE LcdcProofs -----------------------------
(***************************************************************************)
(* Proofs about the LCD controller, for every screen, every set of cycle   *)
(* counts that add up and every game: the interrupt lines are never stale, *)
(* and every line takes its time.                                          *)
(***************************************************************************)
EXTENDS Lcdc, TLAPS

Signals == [lines: SUBSET Sources, flags: SUBSET Sources, halt: BOOLEAN]

(* With the LCD off there is no line to be in.                             *)
OffAtTop == ~ on => mode # 1 /\ ly = 0

LcdInv == TypeOK /\ StatLineCurrent /\ VblankLineUp /\ OffAtTop /\ LinesOnTime

LEMMA SourceFacts ==
  /\ VBLANK \in Sources /\ STAT \in Sources /\ DEVICE \in Sources
  /\ VBLANK # STAT /\ VBLANK # DEVICE /\ STAT # DEVICE
BY DEF VBLANK, STAT, DEVICE, Sources

(* What driving lines does to them.                                        *)
LEMMA InterruptSignals ==
  ASSUME NEW s \in Signals, NEW i \in SUBSET Sources, NEW mask \in SUBSET Sources
  PROVE  /\ Interrupt(s, i, mask) \in Signals
         /\ Interrupt(s, i, mask).lines = (s.lines \ mask) \cup i
<1>. DEFINE r == Interrupt(s, i, mask)
<1>1. r.lines = (s.lines \ mask) \cup i /\ r.lines \in SUBSET Sources
  BY DEF Interrupt, Signals
<1>2. r.flags \in SUBSET Sources
  BY DEF Interrupt, Signals
<1>3. r.halt \in BOOLEAN
  BY DEF Interrupt, Signals
<1>4. r = [lines |-> r.lines, flags |-> r.flags, halt |-> r.halt]
  BY DEF Interrupt
<1>. QED
  BY <1>1, <1>2, <1>3, <1>4 DEF Signals

(* stat_trigger drives the STAT line to its conditions and no other.       *)
LEMMA TriggerSignals ==
  ASSUME NEW s \in Signals, NEW o, NEW m, NEW l, NEW c, NEW sl
  PROVE  /\ StatTrigger(s, o, m, l, c, sl) \in Signals
         /\ STAT \in StatTrigger(s, o, m, l, c, sl).lines
              <=> StatHolds(o, m, l, c, sl)
         /\ VBLANK \in StatTrigger(s, o, m, l, c, sl).lines <=> VBLANK \in s.lines
<1>. DEFINE i == IF StatHolds(o, m, l, c, sl) THEN {STAT} ELSE {}
<1>1. i \in SUBSET Sources /\ {STAT} \in SUBSET Sources
  BY SourceFacts
<1>2. STAT \in i <=> StatHolds(o, m, l, c, sl)
  OBVIOUS
<1>3. VBLANK \notin i /\ VBLANK \notin {STAT}
  BY SourceFacts
<1>4. StatTrigger(s, o, m, l, c, sl) = Interrupt(s, i, {STAT})
  BY DEF StatTrigger
<1>. HIDE DEF i
<1>5. /\ Interrupt(s, i, {STAT}) \in Signals
      /\ Interrupt(s, i, {STAT}).lines = (s.lines \ {STAT}) \cup i
  BY <1>1, InterruptSignals
<1>. QED
  BY <1>2, <1>3, <1>4, <1>5

(* stat_change lowers the VBLANK line on the way into any other mode.      *)
LEMMA ChangeSignals ==
  ASSUME NEW s \in Signals, NEW o, NEW m, NEW l
  PROVE  /\ StatChange(s, o, m, l) \in Signals
         /\ STAT \in StatChange(s, o, m, l).lines <=> StatHolds(o, m, l, lyc, sel)
         /\ VBLANK \in StatChange(s, o, m, l).lines <=> m = 1 /\ VBLANK \in s.lines
<1>1. {} \in SUBSET Sources /\ {VBLANK} \in SUBSET Sources
  BY SourceFacts
<1>2. CASE m # 1
  <2>1. /\ Interrupt(s, {}, {VBLANK}) \in Signals
        /\ VBLANK \notin Interrupt(s, {}, {VBLANK}).lines
    BY <1>1, InterruptSignals
  <2>. QED
    BY <1>2, <2>1, TriggerSignals DEF StatChange
<1>3. CASE m = 1
  BY <1>3, TriggerSignals DEF StatChange
<1>. QED
  BY <1>2, <1>3

LEMMA IrqSignals == TypeOK => Irq \in Signals /\ Irq.lines = lines
BY DEF TypeOK, Irq, Signals

LEMMA PulseSignals ==
  ASSUME NEW s \in Signals
  PROVE  /\ Pulse(s) \in Signals
         /\ STAT \in Pulse(s).lines <=> STAT \in s.lines
         /\ VBLANK \in Pulse(s).lines <=> VBLANK \in s.lines
<1>1. {} \in SUBSET Sources /\ {DEVICE} \in SUBSET Sources
  BY SourceFacts
<1>. DEFINE r == Interrupt(s, {DEVICE}, {DEVICE})
<1>2. r \in Signals /\ r.lines = (s.lines \ {DEVICE}) \cup {DEVICE}
  BY <1>1, InterruptSignals
<1>3. /\ Interrupt(r, {}, {DEVICE}) \in Signals
      /\ Interrupt(r, {}, {DEVICE}).lines = (r.lines \ {DEVICE}) \cup {}
  BY <1>1, <1>2, InterruptSignals
<1>. QED
  BY <1>2, <1>3, SourceFacts DEF Pulse

LEMMA SetSignals ==
  ASSUME NEW s \in Signals, SetIrq(s)
  PROVE  /\ lines' = s.lines
         /\ lines' \in SUBSET Sources /\ flags' \in SUBSET Sources /\ halt' \in BOOLEAN
BY DEF SetIrq, Signals

LEMMA LcdInit == Init => LcdInv
<1>. SUFFICES ASSUME Init PROVE LcdInv
  OBVIOUS
<1>1. TypeOK
  <2>1. on \in BOOLEAN /\ ime \in BOOLEAN /\ ima \in BOOLEAN /\ halt \in BOOLEAN
    BY Zenon DEF Init
  <2>2. /\ pc \in {"fetch", "execute", "lcd", "idle", "woken"}
        /\ sel \in SUBSET {"hblank", "vblank", "oam", "lyc"}
        /\ lines \in SUBSET Sources /\ flags \in SUBSET Sources
        /\ enabled \in SUBSET Sources
    BY Zenon DEF Init
  <2>3. /\ mode \in 0..3 /\ ly \in 0..(Visible + 9) /\ lyc \in 0..255
        /\ hdma \in -1..127
    BY GameAssumption DEF Init
  <2>4. C \in Int /\ beam \in Int
    BY DurationsAssumption DEF Init
  <2>. QED
    BY <2>1, <2>2, <2>3, <2>4 DEF TypeOK
<1>2. StatLineCurrent
  BY DEF Init, StatLineCurrent, StatHolds, Conditions
<1>3. VblankLineUp /\ OffAtTop
  BY GameAssumption DEF Init, VblankLineUp, OffAtTop
<1>4. LinesOnTime
  BY DurationsAssumption DEF Init, LinesOnTime, PhaseEnd
<1>. QED
  BY <1>1, <1>2, <1>3, <1>4 DEF LcdInv

(* Entering a phase, the STAT line driven to the phase's conditions.       *)
LEMMA Entering ==
  ASSUME LcdInv, NEW s \in Signals, NEW m \in 0..3, NEW l \in 0..(Visible + 9),
         NEW n \in Int, Enter(s, m, l, n), beam' \in Int, hdma' \in -1..127,
         STAT \in s.lines <=> StatHolds(on, m, l, lyc, sel)
  PROVE  /\ TypeOK' /\ StatLineCurrent'
         /\ mode' = m /\ ly' = l /\ C' = C + n /\ lines' = s.lines /\ on' = on
<1>1. /\ mode' = m /\ ly' = l /\ C' = C + n /\ SetIrq(s)
      /\ pc' \in {"fetch", "execute", "lcd", "idle", "woken"}
      /\ on' = on /\ lyc' = lyc /\ sel' = sel
      /\ enabled' = enabled /\ ime' = ime /\ ima' = ima
  BY DEF Enter, cpu
<1>2. /\ lines' = s.lines
      /\ lines' \in SUBSET Sources /\ flags' \in SUBSET Sources /\ halt' \in BOOLEAN
  BY <1>1, SetSignals
<1>3. TypeOK
  BY DEF LcdInv
<1>4. C' \in Int
  BY <1>1, <1>3 DEF TypeOK
<1>5. on' \in BOOLEAN /\ ime' \in BOOLEAN /\ ima' \in BOOLEAN
  BY <1>1, <1>3, Zenon DEF TypeOK
<1>6. /\ lyc' \in 0..255 /\ sel' \in SUBSET {"hblank", "vblank", "oam", "lyc"}
      /\ enabled' \in SUBSET Sources
  BY <1>1, <1>3, Zenon DEF TypeOK
<1>7. TypeOK'
  BY <1>1, <1>2, <1>4, <1>5, <1>6, GameAssumption, Zenon DEF TypeOK
<1>8. StatLineCurrent'
  BY <1>1, <1>2 DEF StatLineCurrent, StatHolds
<1>. QED
  BY <1>1, <1>2, <1>7, <1>8

(* What the invariant says of the current phase.                           *)
LEMMA PhaseFacts ==
  ASSUME LcdInv
  PROVE  /\ on \in BOOLEAN /\ mode \in 0..3 /\ ly \in 0..(Visible + 9)
         /\ C \in Int /\ beam \in Int /\ hdma \in -1..127
         /\ Irq \in Signals /\ Irq.lines = lines
         /\ STAT \in lines <=> StatHolds(on, mode, ly, lyc, sel)
         /\ on => beam + C = PhaseEnd
BY IrqSignals DEF LcdInv, TypeOK, StatLineCurrent, LinesOnTime

LEMMA Durations ==
  /\ Oam \in Int /\ Transfer \in Int /\ Hblank \in Int /\ Line \in Int
  /\ Entry \in Int /\ Rest \in Int /\ Short \in Int /\ Long \in Int
  /\ Oam + Transfer + Hblank = Line /\ Entry + Rest = Line /\ Short + Long = Line
  /\ Visible \in Int /\ Visible > 0
BY DurationsAssumption, GameAssumption

LEMMA Hdma ==
  ASSUME LcdInv, MoveBlock \/ UNCHANGED hdma
  PROVE  hdma' \in -1..127
BY PhaseFacts DEF MoveBlock

LEMMA OamEndsStep == LcdInv /\ OamEnds => LcdInv'
<1>. SUFFICES ASSUME LcdInv, OamEnds PROVE LcdInv'
  OBVIOUS
<1>. DEFINE s == StatChange(Irq, on, 3, ly)
<1>1. /\ s \in Signals
      /\ STAT \in s.lines <=> StatHolds(on, 3, ly, lyc, sel)
      /\ VBLANK \notin s.lines
  BY PhaseFacts, ChangeSignals
<1>2. on /\ mode = 2 /\ Enter(s, 3, ly, Transfer) /\ beam' = beam /\ hdma' = hdma
  BY DEF OamEnds, Shown, SameLine
<1>. HIDE DEF s
<1>3. /\ TypeOK' /\ StatLineCurrent'
      /\ mode' = 3 /\ ly' = ly /\ C' = C + Transfer /\ lines' = s.lines /\ on' = on
  <2>1. 3 \in 0..3 /\ beam' \in Int /\ hdma' \in -1..127
    BY <1>2, PhaseFacts
  <2>. QED
    BY <1>1, <1>2, <2>1, Entering, PhaseFacts, Durations
<1>4. VblankLineUp' /\ OffAtTop'
  BY <1>1, <1>2, <1>3 DEF LcdInv, VblankLineUp, OffAtTop
<1>5. LinesOnTime'
  BY <1>2, <1>3, PhaseFacts, Durations DEF LinesOnTime, PhaseEnd
<1>. QED
  BY <1>3, <1>4, <1>5 DEF LcdInv

LEMMA TransferEndsStep == LcdInv /\ TransferEnds => LcdInv'
<1>. SUFFICES ASSUME LcdInv, TransferEnds PROVE LcdInv'
  OBVIOUS
<1>. DEFINE s == StatChange(Irq, on, 0, ly)
<1>1. /\ s \in Signals
      /\ STAT \in s.lines <=> StatHolds(on, 0, ly, lyc, sel)
      /\ VBLANK \notin s.lines
  BY PhaseFacts, ChangeSignals
<1>2. on /\ mode = 3 /\ Enter(s, 0, ly, Hblank) /\ beam' = beam /\ MoveBlock
  BY DEF TransferEnds, Shown, SameLine
<1>. HIDE DEF s
<1>3. /\ TypeOK' /\ StatLineCurrent'
      /\ mode' = 0 /\ ly' = ly /\ C' = C + Hblank /\ lines' = s.lines /\ on' = on
  <2>1. 0 \in 0..3 /\ beam' \in Int /\ hdma' \in -1..127
    BY <1>2, Hdma, PhaseFacts
  <2>. QED
    BY <1>1, <1>2, <2>1, Entering, PhaseFacts, Durations
<1>4. VblankLineUp' /\ OffAtTop'
  BY <1>1, <1>2, <1>3 DEF LcdInv, VblankLineUp, OffAtTop
<1>5. LinesOnTime'
  BY <1>2, <1>3, PhaseFacts, Durations DEF LinesOnTime, PhaseEnd
<1>. QED
  BY <1>3, <1>4, <1>5 DEF LcdInv

LEMMA NextVisibleLineStep == LcdInv /\ NextVisibleLine => LcdInv'
<1>. SUFFICES ASSUME LcdInv, NextVisibleLine PROVE LcdInv'
  OBVIOUS
<1>. DEFINE s == StatChange(Irq, on, 2, ly + 1)
<1>1. /\ s \in Signals
      /\ STAT \in s.lines <=> StatHolds(on, 2, ly + 1, lyc, sel)
      /\ VBLANK \notin s.lines
  BY PhaseFacts, ChangeSignals
<1>2. /\ on /\ mode = 0 /\ ly + 1 < Visible /\ Enter(s, 2, ly + 1, Oam)
      /\ beam' = beam - Line /\ hdma' = hdma
  BY DEF NextVisibleLine, Shown, NextLine
<1>. HIDE DEF s
<1>3. /\ TypeOK' /\ StatLineCurrent'
      /\ mode' = 2 /\ ly' = ly + 1 /\ C' = C + Oam /\ lines' = s.lines /\ on' = on
  <2>1. ly + 1 \in 0..(Visible + 9) /\ beam' \in Int /\ 2 \in 0..3
    BY <1>2, PhaseFacts, Durations
  <2>. QED
    BY <1>1, <1>2, <2>1, Entering, PhaseFacts, Durations
<1>4. VblankLineUp' /\ OffAtTop'
  BY <1>1, <1>2, <1>3 DEF VblankLineUp, OffAtTop
<1>5. LinesOnTime'
  BY <1>2, <1>3, PhaseFacts, Durations DEF LinesOnTime, PhaseEnd
<1>. QED
  BY <1>3, <1>4, <1>5 DEF LcdInv

LEMMA VblankBeginsStep == LcdInv /\ VblankBegins => LcdInv'
<1>. SUFFICES ASSUME LcdInv, VblankBegins PROVE LcdInv'
  OBVIOUS
<1>1. /\ on /\ mode = 0 /\ beam' = beam - Line /\ hdma' = hdma
      /\ ly + 1 >= Visible
  BY DEF VblankBegins, Shown, NextLine
<1>2. ly < Visible /\ VBLANK \notin lines
  BY <1>1 DEF LcdInv, VblankLineUp
<1>3. /\ ly + 1 = Visible /\ ly + 1 \in 0..(Visible + 9) /\ 1 \in 0..3
      /\ beam' \in Int
  BY <1>1, <1>2, PhaseFacts, Durations
<1>4. CASE halt
  <2>. DEFINE r == Interrupt(Irq, {VBLANK}, {VBLANK})
              s == StatChange(r, on, 1, ly + 1)
  <2>1. r \in Signals /\ VBLANK \in r.lines
    BY PhaseFacts, InterruptSignals, SourceFacts
  <2>2. /\ s \in Signals
        /\ STAT \in s.lines <=> StatHolds(on, 1, ly + 1, lyc, sel)
        /\ VBLANK \in s.lines
    BY <2>1, ChangeSignals
  <2>3. Enter(s, 1, ly + 1, Line)
    BY <1>4 DEF VblankBegins
  <2>. HIDE DEF r, s
  <2>4. /\ TypeOK' /\ StatLineCurrent'
        /\ mode' = 1 /\ ly' = ly + 1 /\ C' = C + Line /\ lines' = s.lines /\ on' = on
    BY <1>1, <1>3, <2>2, <2>3, Entering, PhaseFacts, Durations
  <2>5. VblankLineUp' /\ OffAtTop'
    BY <1>1, <1>3, <2>2, <2>4, PhaseFacts DEF VblankLineUp, OffAtTop
  <2>6. LinesOnTime'
    <3>1. mode' = 1 /\ ly' = Visible /\ VBLANK \in lines' /\ Visible # Visible + 9
      BY <1>3, <2>2, <2>4, Durations
    <3>2. PhaseEnd' = Line
      BY <3>1 DEF PhaseEnd
    <3>3. PhaseEnd = Line
      BY <1>1 DEF PhaseEnd
    <3>. QED
      BY <1>1, <2>4, <3>2, <3>3, PhaseFacts, Durations DEF LinesOnTime
  <2>. QED
    BY <2>4, <2>5, <2>6 DEF LcdInv
<1>5. CASE ~ halt
  <2>. DEFINE s == StatChange(Irq, on, 1, ly + 1)
  <2>1. /\ s \in Signals
        /\ STAT \in s.lines <=> StatHolds(on, 1, ly + 1, lyc, sel)
        /\ VBLANK \notin s.lines
    BY <1>2, PhaseFacts, ChangeSignals
  <2>2. Enter(s, 1, ly + 1, Entry)
    BY <1>5 DEF VblankBegins
  <2>. HIDE DEF s
  <2>3. /\ TypeOK' /\ StatLineCurrent'
        /\ mode' = 1 /\ ly' = ly + 1 /\ C' = C + Entry /\ lines' = s.lines /\ on' = on
    BY <1>1, <1>3, <2>1, <2>2, Entering, PhaseFacts, Durations
  <2>4. VblankLineUp' /\ OffAtTop'
    BY <1>1, <1>3, <2>1, <2>3, PhaseFacts DEF VblankLineUp, OffAtTop
  <2>5. LinesOnTime'
    BY <1>1, <1>3, <2>1, <2>3, PhaseFacts, Durations DEF LinesOnTime, PhaseEnd
  <2>. QED
    BY <2>3, <2>4, <2>5 DEF LcdInv
<1>6. halt \in BOOLEAN
  BY Zenon DEF LcdInv, TypeOK
<1>. QED
  BY <1>4, <1>5, <1>6

LEMMA NextBlankLineStep == LcdInv /\ NextBlankLine => LcdInv'
<1>. SUFFICES ASSUME LcdInv, NextBlankLine PROVE LcdInv'
  OBVIOUS
<1>. DEFINE s == StatTrigger(Irq, on, 1, ly + 1, lyc, sel)
<1>1. /\ on /\ mode = 1 /\ VBLANK \in lines /\ ly # 0 /\ ly < Visible + 8
      /\ Enter(s, 1, ly + 1, Line) /\ beam' = beam - Line /\ hdma' = hdma
  BY DEF NextBlankLine, InVblank, Shown, VblankLine, NextLine
<1>2. /\ s \in Signals
      /\ STAT \in s.lines <=> StatHolds(on, 1, ly + 1, lyc, sel)
      /\ VBLANK \in s.lines
  <2>1. Irq \in Signals /\ VBLANK \in Irq.lines
    BY <1>1, PhaseFacts
  <2>. QED
    BY <2>1, TriggerSignals
<1>. HIDE DEF s
<1>3. ly >= Visible \/ ly = 0
  BY <1>1 DEF LcdInv, VblankLineUp
<1>4. ly + 1 \in 0..(Visible + 9) /\ (ly + 1 >= Visible \/ ly + 1 = 0) /\ 1 \in 0..3 /\ beam' \in Int
  BY <1>1, <1>3, PhaseFacts, Durations
<1>5. /\ TypeOK' /\ StatLineCurrent'
      /\ mode' = 1 /\ ly' = ly + 1 /\ C' = C + Line /\ lines' = s.lines /\ on' = on
  BY <1>1, <1>2, <1>4, Entering, PhaseFacts, Durations
<1>6. VblankLineUp' /\ OffAtTop'
  BY <1>1, <1>2, <1>4, <1>5 DEF VblankLineUp, OffAtTop
<1>7. PhaseEnd = Line /\ PhaseEnd' = Line
  BY <1>1, <1>2, <1>3, <1>5, PhaseFacts, Durations DEF PhaseEnd
<1>8. LinesOnTime'
  BY <1>1, <1>5, <1>7, PhaseFacts, Durations DEF LinesOnTime
<1>. QED
  BY <1>5, <1>6, <1>8 DEF LcdInv

LEMMA LastLineBeginsStep == LcdInv /\ LastLineBegins => LcdInv'
<1>. SUFFICES ASSUME LcdInv, LastLineBegins PROVE LcdInv'
  OBVIOUS
<1>. DEFINE s == StatTrigger(Irq, on, 1, ly + 1, lyc, sel)
<1>1. /\ on /\ mode = 1 /\ VBLANK \in lines /\ ly = Visible + 8
      /\ Enter(s, 1, ly + 1, Short) /\ beam' = beam - Line /\ hdma' = hdma
  BY DEF LastLineBegins, InVblank, Shown, VblankLine, NextLine
<1>2. /\ s \in Signals
      /\ STAT \in s.lines <=> StatHolds(on, 1, ly + 1, lyc, sel)
      /\ VBLANK \in s.lines
  <2>1. Irq \in Signals /\ VBLANK \in Irq.lines
    BY <1>1, PhaseFacts
  <2>. QED
    BY <2>1, TriggerSignals
<1>. HIDE DEF s
<1>3. ly >= Visible \/ ly = 0
  BY <1>1 DEF LcdInv, VblankLineUp
<1>4. ly + 1 \in 0..(Visible + 9) /\ (ly + 1 >= Visible \/ ly + 1 = 0) /\ 1 \in 0..3 /\ beam' \in Int
  BY <1>1, <1>3, PhaseFacts, Durations
<1>5. /\ TypeOK' /\ StatLineCurrent'
      /\ mode' = 1 /\ ly' = ly + 1 /\ C' = C + Short /\ lines' = s.lines /\ on' = on
  BY <1>1, <1>2, <1>4, Entering, PhaseFacts, Durations
<1>6. VblankLineUp' /\ OffAtTop'
  BY <1>1, <1>2, <1>4, <1>5 DEF VblankLineUp, OffAtTop
<1>7. PhaseEnd = Line /\ PhaseEnd' = Short
  BY <1>1, <1>2, <1>3, <1>5, PhaseFacts, Durations DEF PhaseEnd
<1>8. LinesOnTime'
  BY <1>1, <1>5, <1>7, PhaseFacts, Durations DEF LinesOnTime
<1>. QED
  BY <1>5, <1>6, <1>8 DEF LcdInv

LEMMA LyWrapsStep == LcdInv /\ LyWraps => LcdInv'
<1>. SUFFICES ASSUME LcdInv, LyWraps PROVE LcdInv'
  OBVIOUS
<1>. DEFINE s == StatTrigger(Irq, on, 1, 0, lyc, sel)
<1>1. /\ on /\ mode = 1 /\ VBLANK \in lines /\ ly > Visible + 8
      /\ Enter(s, 1, 0, Long) /\ beam' = beam /\ hdma' = hdma
  BY DEF LyWraps, InVblank, Shown, VblankLine, SameLine
<1>2. /\ s \in Signals
      /\ STAT \in s.lines <=> StatHolds(on, 1, 0, lyc, sel)
      /\ VBLANK \in s.lines
  <2>1. Irq \in Signals /\ VBLANK \in Irq.lines
    BY <1>1, PhaseFacts
  <2>. QED
    BY <2>1, TriggerSignals
<1>. HIDE DEF s
<1>3. ly >= Visible \/ ly = 0
  BY <1>1 DEF LcdInv, VblankLineUp
<1>4. 0 \in 0..(Visible + 9) /\ (0 >= Visible \/ 0 = 0) /\ 1 \in 0..3 /\ beam' \in Int
  BY <1>1, <1>3, PhaseFacts, Durations
<1>5. /\ TypeOK' /\ StatLineCurrent'
      /\ mode' = 1 /\ ly' = 0 /\ C' = C + Long /\ lines' = s.lines /\ on' = on
  BY <1>1, <1>2, <1>4, Entering, PhaseFacts, Durations
<1>6. VblankLineUp' /\ OffAtTop'
  BY <1>1, <1>2, <1>4, <1>5 DEF VblankLineUp, OffAtTop
<1>7. PhaseEnd = Short /\ PhaseEnd' = Line
  BY <1>1, <1>2, <1>3, <1>5, PhaseFacts, Durations DEF PhaseEnd
<1>8. LinesOnTime'
  BY <1>1, <1>5, <1>7, PhaseFacts, Durations DEF LinesOnTime
<1>. QED
  BY <1>5, <1>6, <1>8 DEF LcdInv

LEMMA VblankRisesStep == LcdInv /\ VblankRises => LcdInv'
<1>. SUFFICES ASSUME LcdInv, VblankRises PROVE LcdInv'
  OBVIOUS
<1>. DEFINE s == Interrupt(Irq, {VBLANK}, {VBLANK})
<1>1. /\ on /\ mode = 1 /\ VBLANK \notin lines
      /\ Enter(s, 1, ly, Rest) /\ beam' = beam /\ hdma' = hdma
  BY DEF VblankRises, Shown, SameLine
<1>2. /\ s \in Signals
      /\ STAT \in s.lines <=> StatHolds(on, 1, ly, lyc, sel)
      /\ VBLANK \in s.lines
  <2>1. /\ Irq \in Signals /\ Irq.lines = lines
        /\ STAT \in lines <=> StatHolds(on, 1, ly, lyc, sel)
    BY <1>1, PhaseFacts
  <2>2. s \in Signals /\ s.lines = (lines \ {VBLANK}) \cup {VBLANK}
    BY <2>1, InterruptSignals, SourceFacts, SMTT(30)
  <2>. QED
    BY <2>1, <2>2, SourceFacts
<1>. HIDE DEF s
<1>3. ly = Visible
  BY <1>1 DEF LcdInv, VblankLineUp
<1>4. 1 \in 0..3
  OBVIOUS
<1>5. /\ TypeOK' /\ StatLineCurrent'
      /\ mode' = 1 /\ ly' = ly /\ C' = C + Rest /\ lines' = s.lines /\ on' = on
  BY <1>1, <1>2, <1>4, Entering, PhaseFacts, Durations
<1>6. VblankLineUp' /\ OffAtTop'
  BY <1>1, <1>2, <1>3, <1>5, Durations DEF VblankLineUp, OffAtTop
<1>7. PhaseEnd = Entry /\ PhaseEnd' = Line
  BY <1>1, <1>2, <1>3, <1>5, Durations DEF PhaseEnd
<1>8. LinesOnTime'
  BY <1>1, <1>5, <1>7, PhaseFacts, Durations DEF LinesOnTime
<1>. QED
  BY <1>5, <1>6, <1>8 DEF LcdInv

LEMMA FrameEndsStep == LcdInv /\ FrameEnds => LcdInv'
<1>. SUFFICES ASSUME LcdInv, FrameEnds PROVE LcdInv'
  OBVIOUS
<1>. DEFINE s == StatChange(Irq, on, 2, 0)
<1>1. /\ on /\ mode = 1 /\ VBLANK \in lines /\ ly = 0
      /\ Enter(s, 2, 0, Oam) /\ beam' = beam - Line /\ hdma' = hdma
  BY DEF FrameEnds, InVblank, Shown, NextLine
<1>2. /\ s \in Signals
      /\ STAT \in s.lines <=> StatHolds(on, 2, 0, lyc, sel)
      /\ VBLANK \notin s.lines
  BY PhaseFacts, ChangeSignals
<1>. HIDE DEF s
<1>3. 2 \in 0..3 /\ 0 \in 0..(Visible + 9) /\ beam' \in Int
  BY <1>1, PhaseFacts, Durations
<1>4. /\ TypeOK' /\ StatLineCurrent'
      /\ mode' = 2 /\ ly' = 0 /\ C' = C + Oam /\ lines' = s.lines /\ on' = on
  BY <1>1, <1>2, <1>3, Entering, PhaseFacts, Durations
<1>5. VblankLineUp' /\ OffAtTop'
  BY <1>2, <1>4, Durations DEF VblankLineUp, OffAtTop
<1>6. PhaseEnd = Line /\ PhaseEnd' = Oam
  BY <1>1, <1>4, Durations DEF PhaseEnd
<1>7. LinesOnTime'
  BY <1>1, <1>4, <1>6, PhaseFacts, Durations DEF LinesOnTime
<1>. QED
  BY <1>4, <1>5, <1>7 DEF LcdInv

LEMMA OffTransitionStep == LcdInv /\ OffTransition => LcdInv'
<1>. SUFFICES ASSUME LcdInv, OffTransition PROVE LcdInv'
  OBVIOUS
<1>1. ~ on /\ beam' = beam /\ hdma' \in -1..127
  BY Hdma DEF OffTransition, SameLine
<1>2. mode # 1 /\ ly = 0
  BY <1>1 DEF LcdInv, OffAtTop
<1>3. PICK m \in {0, 2, 3}, n \in Int : Enter(StatChange(Irq, on, m, ly), m, ly, n)
  BY Durations DEF OffTransition
<1>. DEFINE s == StatChange(Irq, on, m, ly)
<1>4. /\ s \in Signals
      /\ STAT \in s.lines <=> StatHolds(on, m, ly, lyc, sel)
      /\ VBLANK \notin s.lines
  BY <1>3, PhaseFacts, ChangeSignals
<1>5. Enter(s, m, ly, n)
  BY <1>3
<1>. HIDE DEF s
<1>6. m \in 0..3 /\ beam' \in Int
  BY <1>1, PhaseFacts
<1>7. /\ TypeOK' /\ StatLineCurrent'
      /\ mode' = m /\ ly' = ly /\ lines' = s.lines /\ on' = on
  BY <1>1, <1>4, <1>5, <1>6, Entering, PhaseFacts
<1>8. VblankLineUp' /\ OffAtTop' /\ LinesOnTime'
  BY <1>1, <1>2, <1>3, <1>4, <1>7, Durations DEF VblankLineUp, OffAtTop, LinesOnTime
<1>. QED
  BY <1>7, <1>8 DEF LcdInv

(* Every other step leaves the phase and the VBLANK line alone, and spends *)
(* of C what it adds to beam.                                              *)
Typed ==
  /\ pc' \in {"fetch", "execute", "lcd", "idle", "woken"}
  /\ lyc' \in 0..255 /\ sel' \in SUBSET {"hblank", "vblank", "oam", "lyc"}
  /\ hdma' \in -1..127
  /\ lines' \in SUBSET Sources /\ flags' \in SUBSET Sources
  /\ enabled' \in SUBSET Sources
  /\ ime' \in BOOLEAN /\ ima' \in BOOLEAN /\ halt' \in BOOLEAN

LEMMA SamePhase ==
  ASSUME LcdInv, Typed, on' = on, mode' = mode, ly' = ly,
         C' \in Int, beam' \in Int, on => beam' + C' = beam + C,
         STAT \in lines' <=> StatHolds(on, mode, ly, lyc', sel'),
         VBLANK \in lines' <=> VBLANK \in lines
  PROVE  LcdInv'
<1>1. on' \in BOOLEAN /\ mode' \in 0..3 /\ ly' \in 0..(Visible + 9)
  BY PhaseFacts, Zenon
<1>2. TypeOK'
  BY <1>1, Zenon DEF Typed, TypeOK
<1>3. StatLineCurrent'
  BY DEF StatLineCurrent, StatHolds
<1>4. VblankLineUp' /\ OffAtTop'
  BY DEF LcdInv, VblankLineUp, OffAtTop
<1>5. PhaseEnd' = PhaseEnd
  BY DEF PhaseEnd
<1>6. LinesOnTime'
  BY <1>5 DEF LcdInv, LinesOnTime
<1>. QED
  BY <1>2, <1>3, <1>4, <1>6 DEF LcdInv

LEMMA Elapsed ==
  ASSUME LcdInv, NEW n \in Int, Elapse(C, n)
  PROVE  /\ pc' \in {"fetch", "execute", "lcd", "idle", "woken"} /\ C' \in Int
         /\ on' = on => beam' \in Int /\ (on => beam' + C' = beam + C)
BY PhaseFacts DEF Elapse

(* The registers an instruction may leave alone.                           *)
LEMMA Unwritten ==
  ASSUME LcdInv
  PROVE  /\ lyc \in 0..255 /\ sel \in SUBSET {"hblank", "vblank", "oam", "lyc"}
         /\ hdma \in -1..127
         /\ lines \in SUBSET Sources /\ flags \in SUBSET Sources
         /\ enabled \in SUBSET Sources
         /\ ime \in BOOLEAN /\ ima \in BOOLEAN /\ halt \in BOOLEAN
BY Zenon DEF LcdInv, TypeOK

LEMMA LengthsAreTimes == \A n \in Lengths : n \in Int
BY StepsAssumption

LEMMA IdleTimes == LcdInv => \A b \in Budgets : IdleTime(b) \in Int
BY StepsAssumption, PhaseFacts DEF IdleTime

(* Instructions that touch neither line of the controller.                 *)
LEMMA QuietInstruction ==
  ASSUME LcdInv, NEW n \in Int, Elapse(C, n),
         UNCHANGED <<on, mode, ly, lyc, sel, lines>>,
         hdma' \in -1..127, flags' \in SUBSET Sources, enabled' \in SUBSET Sources,
         ime' \in BOOLEAN, ima' \in BOOLEAN, halt' \in BOOLEAN
  PROVE  LcdInv'
<1>1. Typed
  BY Elapsed, Unwritten, Zenon DEF Typed
<1>. QED
  BY <1>1, Elapsed, SamePhase, PhaseFacts

LEMMA CpuStep ==
  ASSUME LcdInv, NEW n \in Int,
         Plain(n) \/ Ei(n) \/ Reti(n) \/ Di(n) \/ Halt(n)
  PROVE  LcdInv'
<1>1. /\ Elapse(C, n) /\ UNCHANGED <<on, mode, ly, lyc, sel, lines>>
      /\ UNCHANGED hdma /\ UNCHANGED flags /\ UNCHANGED enabled
  BY DEF Plain, Ei, Reti, Di, Halt, Instruction, lcd, irq, cpu
<1>2. ime' \in {ime, TRUE, FALSE} /\ ima' \in {ima, TRUE, FALSE} /\ halt' \in {halt, TRUE, FALSE}
  BY DEF Plain, Ei, Reti, Di, Halt, irq, cpu
<1>3. ime' \in BOOLEAN /\ ima' \in BOOLEAN /\ halt' \in BOOLEAN
  <2>1. ime' \in BOOLEAN
    BY <1>2, Unwritten, Zenon
  <2>2. ima' \in BOOLEAN
    BY <1>2, Unwritten, Zenon
  <2>3. halt' \in BOOLEAN
    BY <1>2, Unwritten, Zenon
  <2>. QED
    BY <2>1, <2>2, <2>3, Zenon
<1>4. hdma' \in -1..127 /\ flags' \in SUBSET Sources /\ enabled' \in SUBSET Sources
  BY <1>1, Unwritten
<1>. QED
  BY <1>1, <1>3, <1>4, QuietInstruction

LEMMA WriteStep ==
  ASSUME LcdInv, NEW n \in Int,
         \/ \E S \in Masks : WriteEnable(n, S) \/ WriteFlags(n, S)
         \/ \E k \in Blocks : StartHdma(n, k)
         \/ CancelHdma(n)
  PROVE  LcdInv'
<1>1. Elapse(C, n) /\ UNCHANGED <<on, mode, ly, lyc, sel, lines, ime, ima, halt>>
  BY DEF WriteEnable, WriteFlags, StartHdma, CancelHdma, Instruction, lcd, irq, cpu
<1>2. flags' \in SUBSET Sources /\ enabled' \in SUBSET Sources
  <2>1. \A S \in Masks : S \in SUBSET Sources
    BY GameAssumption DEF Sources, VBLANK, STAT, DEVICE
  <2>2. flags' = flags \/ flags' \in Masks
    BY DEF WriteEnable, WriteFlags, StartHdma, CancelHdma, irq
  <2>3. enabled' = enabled \/ enabled' \in Masks
    BY DEF WriteEnable, WriteFlags, StartHdma, CancelHdma, cpu
  <2>. QED
    BY <2>1, <2>2, <2>3, Unwritten
<1>3. hdma' \in -1..127
  <2>1. hdma' = hdma \/ hdma' \in Blocks \/ hdma' = -1
    BY DEF WriteEnable, WriteFlags, StartHdma, CancelHdma, lcd
  <2>2. \A k \in Blocks : k \in -1..127
    BY GameAssumption
  <2>3. hdma \in -1..127 /\ -1 \in -1..127
    BY Unwritten
  <2>. QED
    BY <2>1, <2>2, <2>3, Zenon
<1>4. ime' \in BOOLEAN /\ ima' \in BOOLEAN /\ halt' \in BOOLEAN
  BY <1>1, Unwritten, Zenon
<1>. QED
  BY <1>1, <1>2, <1>3, <1>4, QuietInstruction

(* Steps of the CPU that take no time.                                     *)
LEMMA FetchStep ==
  ASSUME LcdInv, Dispatch \/ Proceed
  PROVE  LcdInv'
<1>1. /\ UNCHANGED <<on, mode, ly, lyc, sel, hdma, C, beam, lines, enabled>>
      /\ pc' = "execute"
  BY DEF Dispatch, Proceed, lcd, irq
<1>2. flags' \in SUBSET Sources
  BY Unwritten DEF Dispatch, Proceed, irq
<1>3. ime' \in {ime, ima, FALSE} /\ ima' \in {ima, FALSE} /\ halt' \in {halt, FALSE}
  BY DEF Dispatch, Proceed, irq
<1>4. ime' \in BOOLEAN /\ ima' \in BOOLEAN /\ halt' \in BOOLEAN
  BY <1>3, Unwritten, Zenon
<1>5. Typed
  BY <1>1, <1>2, <1>4, Unwritten, Zenon DEF Typed
<1>. QED
  BY <1>1, <1>5, SamePhase, PhaseFacts

(* Another device's interrupt: a button, the timer, the serial port.       *)
LEMMA PulseLines ==
  ASSUME LcdInv, SetIrq(Pulse(Irq))
  PROVE  /\ lines' \in SUBSET Sources /\ flags' \in SUBSET Sources /\ halt' \in BOOLEAN
         /\ STAT \in lines' <=> StatHolds(on, mode, ly, lyc, sel)
         /\ VBLANK \in lines' <=> VBLANK \in lines
<1>1. Irq \in Signals /\ Irq.lines = lines
  BY PhaseFacts
<1>2. /\ Pulse(Irq) \in Signals
      /\ STAT \in Pulse(Irq).lines <=> STAT \in lines
      /\ VBLANK \in Pulse(Irq).lines <=> VBLANK \in lines
  BY <1>1, PulseSignals
<1>. QED
  BY <1>2, SetSignals, PhaseFacts

LEMMA PulseStep ==
  ASSUME LcdInv, SetIrq(Pulse(Irq)), UNCHANGED <<lcd, cpu>>,
         pc' \in {"fetch", "execute", "lcd", "idle", "woken"},
         C' \in Int, beam' \in Int, on => beam' + C' = beam + C
  PROVE  LcdInv'
<1>1. UNCHANGED <<on, mode, ly, lyc, sel, hdma, enabled, ime, ima>>
  BY DEF lcd, cpu
<1>2. Typed
  BY <1>1, PulseLines, Unwritten, Zenon DEF Typed
<1>. QED
  BY <1>1, <1>2, PulseLines, SamePhase

LEMMA PadEventStep == LcdInv /\ PadEvent => LcdInv'
<1>. SUFFICES ASSUME LcdInv, PadEvent PROVE LcdInv'
  OBVIOUS
<1>1. SetIrq(Pulse(Irq)) /\ UNCHANGED <<lcd, cpu>> /\ pc' = "fetch" /\ C' = C /\ beam' = beam
  BY DEF PadEvent
<1>. QED
  BY <1>1, PulseStep, PhaseFacts

LEMMA OtherInterruptStep ==
  ASSUME LcdInv, NEW n \in Int, OtherInterrupt(n)
  PROVE  LcdInv'
<1>1. SetIrq(Pulse(Irq)) /\ UNCHANGED <<lcd, cpu>> /\ Elapse(C, n) /\ on' = on
  BY DEF OtherInterrupt, Instruction, lcd
<1>. QED
  BY <1>1, PulseStep, Elapsed

LEMMA IdleNoTimeStep ==
  ASSUME LcdInv, IdleNoTime
  PROVE  LcdInv'
<1>1. UNCHANGED <<on, mode, ly, lyc, sel, hdma, C, beam, lines, flags, halt, enabled,
                  ime, ima>>
  BY DEF IdleNoTime, lcd, irq, cpu
<1>2. pc' \in {"fetch", "execute", "lcd", "idle", "woken"}
  BY DEF IdleNoTime
<1>3. Typed
  BY <1>1, <1>2, Unwritten, Zenon DEF Typed
<1>. QED
  BY <1>1, <1>3, SamePhase, PhaseFacts

LEMMA IdleStep ==
  ASSUME LcdInv, NEW b \in Budgets, Idle(b)
  PROVE  LcdInv'
<1>1. Elapse(C, IdleTime(b)) /\ UNCHANGED <<lcd, cpu>> /\ IdleTime(b) \in Int
  BY IdleTimes DEF Idle
<1>2. UNCHANGED <<on, mode, ly, lyc, sel, hdma, enabled, ime, ima>>
  BY <1>1 DEF lcd, cpu
<1>3. CASE SetIrq(Pulse(Irq))
  BY <1>1, <1>2, <1>3, PulseStep, Elapsed
<1>4. CASE UNCHANGED irq
  <2>1. UNCHANGED <<lines, flags, halt>>
    BY <1>4 DEF irq
  <2>. QED
    BY <1>1, <1>2, <2>1, QuietInstruction, Unwritten
<1>. QED
  BY <1>3, <1>4 DEF Idle

(* Writes to LYC and STAT drive the STAT line to the new conditions.       *)
LEMMA WriteLycStep ==
  ASSUME LcdInv, NEW n \in Int, NEW c \in Compares, WriteLyc(n, c)
  PROVE  LcdInv'
<1>. DEFINE s == StatTrigger(Irq, on, mode, ly, c, sel)
<1>1. /\ Elapse(C, n) /\ lyc' = c /\ SetIrq(s)
      /\ UNCHANGED <<on, mode, ly, sel, hdma, enabled, ime, ima>>
  BY DEF WriteLyc, Instruction, cpu
<1>2. /\ s \in Signals
      /\ STAT \in s.lines <=> StatHolds(on, mode, ly, c, sel)
      /\ VBLANK \in s.lines <=> VBLANK \in lines
  BY PhaseFacts, TriggerSignals
<1>. HIDE DEF s
<1>3. /\ lines' = s.lines
      /\ lines' \in SUBSET Sources /\ flags' \in SUBSET Sources /\ halt' \in BOOLEAN
  BY <1>1, <1>2, SetSignals
<1>4. lyc' \in 0..255
  BY <1>1, GameAssumption
<1>5. Typed
  BY <1>1, <1>3, <1>4, Elapsed, Unwritten, Zenon DEF Typed
<1>. QED
  BY <1>1, <1>2, <1>3, <1>5, Elapsed, SamePhase

LEMMA WriteStatStep ==
  ASSUME LcdInv, NEW n \in Int, NEW S \in Selections, WriteStat(n, S)
  PROVE  LcdInv'
<1>. DEFINE r == IF ~ Color /\ mode \in {0, 1} THEN Interrupt(Irq, {STAT}, {STAT}) ELSE Irq
            s == StatTrigger(r, on, mode, ly, lyc, S)
<1>1. /\ Elapse(C, n) /\ sel' = S /\ SetIrq(s)
      /\ UNCHANGED <<on, mode, ly, lyc, hdma, enabled, ime, ima>>
  BY DEF WriteStat, Instruction, cpu
<1>2. r \in Signals /\ (VBLANK \in r.lines <=> VBLANK \in lines)
  <2>1. Irq \in Signals /\ Irq.lines = lines
    BY PhaseFacts
  <2>2. /\ Interrupt(Irq, {STAT}, {STAT}) \in Signals
        /\ Interrupt(Irq, {STAT}, {STAT}).lines = (lines \ {STAT}) \cup {STAT}
    BY <2>1, InterruptSignals, SourceFacts
  <2>. QED
    BY <2>1, <2>2, SourceFacts
<1>. HIDE DEF r
<1>3. /\ s \in Signals
      /\ STAT \in s.lines <=> StatHolds(on, mode, ly, lyc, S)
      /\ VBLANK \in s.lines <=> VBLANK \in lines
  BY <1>2, TriggerSignals
<1>. HIDE DEF s
<1>4. /\ lines' = s.lines
      /\ lines' \in SUBSET Sources /\ flags' \in SUBSET Sources /\ halt' \in BOOLEAN
  BY <1>1, <1>3, SetSignals
<1>5. sel' \in SUBSET {"hblank", "vblank", "oam", "lyc"}
  BY <1>1, GameAssumption
<1>6. Typed
  BY <1>1, <1>4, <1>5, Elapsed, Unwritten, Zenon DEF Typed
<1>. QED
  BY <1>1, <1>3, <1>4, <1>6, Elapsed, SamePhase

(* Switching the LCD on or off starts the first line anew.                 *)
LEMMA SwitchStep ==
  ASSUME LcdInv, NEW n \in Int, Switch(n)
  PROVE  LcdInv'
<1>. DEFINE s == StatChange(Irq, on', 2, 0)
<1>1. /\ on' = ~ on /\ ly' = 0 /\ mode' = 2 /\ SetIrq(s)
      /\ C' = Oam - n /\ beam' = (IF on' THEN n ELSE 0)
      /\ pc' \in {"fetch", "execute", "lcd", "idle", "woken"}
      /\ UNCHANGED <<lyc, sel, hdma, enabled, ime, ima>>
  BY DEF Switch, cpu
<1>2. /\ s \in Signals
      /\ STAT \in s.lines <=> StatHolds(on', 2, 0, lyc, sel)
      /\ VBLANK \notin s.lines
  BY PhaseFacts, ChangeSignals
<1>. HIDE DEF s
<1>3. /\ lines' = s.lines
      /\ lines' \in SUBSET Sources /\ flags' \in SUBSET Sources /\ halt' \in BOOLEAN
  BY <1>1, <1>2, SetSignals
<1>4. on' \in BOOLEAN /\ mode' \in 0..3 /\ ly' \in 0..(Visible + 9)
  <2>1. on' \in BOOLEAN
    BY <1>1, Zenon
  <2>2. mode' \in 0..3 /\ ly' \in 0..(Visible + 9)
    BY <1>1, Durations
  <2>. QED
    BY <2>1, <2>2
<1>5. C' \in Int /\ beam' \in Int
  BY <1>1, Durations
<1>6. Typed
  BY <1>1, <1>3, Unwritten, Zenon DEF Typed
<1>7. TypeOK'
  BY <1>4, <1>5, <1>6, Zenon DEF Typed, TypeOK
<1>8. StatLineCurrent'
  BY <1>1, <1>2, <1>3 DEF StatLineCurrent, StatHolds
<1>9. VblankLineUp' /\ OffAtTop'
  BY <1>1, <1>2, <1>3, Durations DEF VblankLineUp, OffAtTop
<1>10. LinesOnTime'
  BY <1>1, Durations DEF LinesOnTime, PhaseEnd
<1>. QED
  BY <1>7, <1>8, <1>9, <1>10 DEF LcdInv

LEMMA LcdStep == LcdInv /\ [Next]_vars => LcdInv'
<1>. SUFFICES ASSUME LcdInv, [Next]_vars PROVE LcdInv'
  OBVIOUS
<1>1. CASE Sleep
  BY <1>1, IdleStep, IdleNoTimeStep, Zenon DEF Sleep
<1>2. CASE Fetch
  BY <1>2, FetchStep DEF Fetch
<1>3. CASE Execute
  <2>1. PICK n \in Lengths :
          \/ Plain(n) \/ Ei(n) \/ Reti(n) \/ Di(n) \/ Halt(n)
          \/ \E S \in Masks : WriteEnable(n, S) \/ WriteFlags(n, S)
          \/ OtherInterrupt(n)
          \/ \E c \in Compares : WriteLyc(n, c)
          \/ \E S \in Selections : WriteStat(n, S)
          \/ Switch(n)
          \/ \E k \in Blocks : StartHdma(n, k)
          \/ CancelHdma(n)
    BY <1>3, Zenon DEF Execute
  <2>2. n \in Int
    BY LengthsAreTimes
  <2>. QED
    BY <2>1, <2>2, CpuStep, WriteStep, OtherInterruptStep, WriteLycStep,
       WriteStatStep, SwitchStep, Zenon
<1>4. CASE PadEvent
  BY <1>4, PadEventStep
<1>5. CASE Transition
  BY <1>5, OamEndsStep, TransferEndsStep, NextVisibleLineStep, VblankBeginsStep,
     VblankRisesStep, NextBlankLineStep, LastLineBeginsStep, LyWrapsStep,
     FrameEndsStep, OffTransitionStep, Zenon DEF Transition
<1>6. CASE UNCHANGED vars
  <2>1. UNCHANGED <<pc, on, mode, ly, lyc, sel, hdma, C, beam, lines, flags, halt,
                    enabled, ime, ima>>
    BY <1>6 DEF vars, lcd, irq, cpu
  <2>2. pc' \in {"fetch", "execute", "lcd", "idle", "woken"}
    BY <2>1 DEF LcdInv, TypeOK
  <2>3. Typed
    BY <2>1, <2>2, Unwritten, Zenon DEF Typed
  <2>. QED
    BY <2>1, <2>3, SamePhase, PhaseFacts
<1>. QED
  BY <1>1, <1>2, <1>3, <1>4, <1>5, <1>6 DEF Next

LEMMA LcdAlways == Spec => []LcdInv
BY LcdInit, LcdStep, PTL DEF Spec

(* Every register keeps its range, whatever the game writes and whenever   *)
(* the LCD is switched.                                                    *)
THEOREM RegistersInRange == Spec => []TypeOK
<1>1. LcdInv => TypeOK
  BY DEF LcdInv
<1>. QED
  BY <1>1, LcdAlways, PTL

(* The STAT line is never stale: each of the places that change LY, LYC,   *)
(* the mode, the selection or the LCD switch re-evaluates it.              *)
THEOREM StatNeverStale == Spec => []StatLineCurrent
<1>1. LcdInv => StatLineCurrent
  BY DEF LcdInv
<1>. QED
  BY <1>1, LcdAlways, PTL

(* The VBLANK line rises once in a frame, late or not, and falls with it.  *)
THEOREM VblankOnceAFrame == Spec => []VblankLineUp
<1>1. LcdInv => VblankLineUp
  BY DEF LcdInv
<1>. QED
  BY <1>1, LcdAlways, PTL

(* No cycle is lost: each line takes Line cycles for any durations that    *)
(* add up, whether or not the CPU is halted, sleeps or overruns.           *)
THEOREM LinesTakeTheirTime == Spec => []LinesOnTime
<1>1. LcdInv => LinesOnTime
  BY DEF LcdInv
<1>. QED
  BY <1>1, LcdAlways, PTL
-----------------------------------------------------------------------------
(* No enabled interrupt of the LCD is late.  Only a CPU that none of them  *)
(* can wake lets the controller fall behind by more than an instruction;   *)
(* what is raised while it catches up is then not enabled.  A game enables *)
(* interrupts by instructions, so that where one is enabled there are some.*)

Soon == \E n \in Lengths : C > -n
Deaf == enabled \cap {VBLANK, STAT} = {}

OnTimeInv ==
  /\ LcdInv
  /\ on /\ pc # "lcd" => C > 0
  /\ on /\ pc = "lcd" => Soon \/ Deaf
  /\ enabled # {} => Lengths # {}

(* Time passes on a shown line: the controller has its turn at once.       *)
LEMMA PassingTime ==
  ASSUME OnTimeInv, NEW n \in Int, Elapse(C, n), on' = on
  PROVE  /\ on' /\ pc' # "lcd" => C' > 0
         /\ C' \in Int /\ C' = C - n
<1>1. C \in Int
  BY DEF OnTimeInv, LcdInv, TypeOK
<1>. QED
  BY <1>1 DEF Elapse

(* An instruction takes time from a counter that had not run out.          *)
LEMMA InstructionOnTime ==
  ASSUME OnTimeInv, NEW n \in Lengths, Instruction(n), on' = on
  PROVE  /\ on' /\ pc' # "lcd" => C' > 0
         /\ on' /\ pc' = "lcd" => Soon'
<1>1. C \in Int /\ n \in Int /\ n > 0
  BY StepsAssumption DEF OnTimeInv, LcdInv, TypeOK
<1>2. on => C > 0
  BY DEF OnTimeInv, Instruction
<1>3. /\ on' /\ pc' # "lcd" => C' > 0
      /\ C' \in Int /\ C' = C - n
  BY <1>1, PassingTime DEF Instruction
<1>4. on' => C' > -n
  BY <1>1, <1>2, <1>3
<1>. QED
  BY <1>3, <1>4 DEF Soon

(* A CPU that an interrupt of the LCD can wake sleeps only to its moment.  *)
LEMMA SleepOnTime ==
  ASSUME OnTimeInv, NEW b \in Budgets, Idle(b)
  PROVE  /\ on' /\ pc' # "lcd" => C' > 0
         /\ on' /\ pc' = "lcd" => Soon' \/ Deaf'
<1>1. C \in Int /\ b \in Int /\ IdleTime(b) \in Int
  BY StepsAssumption DEF OnTimeInv, LcdInv, TypeOK, IdleTime
<1>2. on' = on /\ enabled' = enabled /\ Elapse(C, IdleTime(b))
  BY DEF Idle, lcd, cpu
<1>3. /\ on' /\ pc' # "lcd" => C' > 0
      /\ C' \in Int /\ C' = C - IdleTime(b)
  BY <1>1, <1>2, PassingTime
<1>4. ASSUME ~ Deaf PROVE Soon'
  <2>1. IdleTime(b) <= C
    BY <1>1, <1>4 DEF IdleTime, Deaf
  <2>2. PICK n \in Lengths : TRUE
    BY <1>4 DEF OnTimeInv, Deaf
  <2>3. n \in Nat /\ n > 0
    BY StepsAssumption
  <2>4. C' > -n
    BY <1>1, <1>3, <2>1, <2>3
  <2>. QED
    BY <2>4 DEF Soon
<1>. QED
  BY <1>2, <1>3, <1>4 DEF Deaf

(* A transition that ends before the counter is positive is followed by    *)
(* the next one.                                                           *)
LEMMA EnterOnTime ==
  ASSUME OnTimeInv, pc = "lcd" \/ ~ on, NEW s, NEW m, NEW l, NEW n \in Nat, Enter(s, m, l, n)
  PROVE  /\ on' /\ pc' # "lcd" => C' > 0
         /\ on' /\ pc' = "lcd" => Soon' \/ Deaf'
         /\ enabled' = enabled
<1>1. C \in Int /\ on' = on /\ enabled' = enabled /\ C' = C + n
  BY DEF OnTimeInv, LcdInv, TypeOK, Enter, cpu
<1>2. pc = "lcd" => pc' = IF on /\ C' <= 0 THEN "lcd" ELSE "fetch"
  BY DEF Enter
<1>3. on' /\ pc' # "lcd" => C' > 0
  BY <1>1, <1>2
<1>4. ASSUME on, Soon PROVE Soon'
  <2>1. PICK k \in Lengths : C > -k
    BY <1>4 DEF Soon
  <2>2. k \in Nat
    BY StepsAssumption
  <2>3. C' > -k
    BY <1>1, <2>1, <2>2
  <2>. QED
    BY <2>3 DEF Soon
<1>5. on => Soon \/ Deaf
  BY DEF OnTimeInv
<1>6. Deaf => Deaf'
  BY <1>1 DEF Deaf
<1>. QED
  BY <1>1, <1>3, <1>4, <1>5, <1>6

(* Driving the lines raises no flags but theirs.                           *)
LEMMA RaisedBy ==
  ASSUME NEW s, NEW i, NEW mask
  PROVE  Interrupt(s, i, mask).flags \subseteq s.flags \cup i
BY DEF Interrupt

(* The STAT line raises its own flag.                                      *)
LEMMA RaisedByStat ==
  ASSUME NEW s, NEW o, NEW m, NEW l, NEW c, NEW sl
  PROVE  StatTrigger(s, o, m, l, c, sl).flags \subseteq s.flags \cup {STAT}
<1>. DEFINE i == IF StatHolds(o, m, l, c, sl) THEN {STAT} ELSE {}
<1>1. StatTrigger(s, o, m, l, c, sl) = Interrupt(s, i, {STAT}) /\ i \subseteq {STAT}
  BY DEF StatTrigger
<1>. HIDE DEF i
<1>2. Interrupt(s, i, {STAT}).flags \subseteq s.flags \cup i
  BY RaisedBy
<1>. QED
  BY <1>1, <1>2

(* So does a change of mode.                                               *)
LEMMA RaisedByChange ==
  ASSUME NEW s, NEW o, NEW m, NEW l
  PROVE  StatChange(s, o, m, l).flags \subseteq s.flags \cup {STAT}
<1>. DEFINE r == IF m # 1 THEN Interrupt(s, {}, {VBLANK}) ELSE s
<1>1. r.flags \subseteq s.flags
  <2>1. Interrupt(s, {}, {VBLANK}).flags \subseteq s.flags \cup {}
    BY RaisedBy
  <2>. QED
    BY <2>1
<1>2. StatChange(s, o, m, l) = StatTrigger(r, o, m, l, lyc, sel)
  BY DEF StatChange
<1>. HIDE DEF r
<1>3. StatTrigger(r, o, m, l, lyc, sel).flags \subseteq r.flags \cup {STAT}
  BY RaisedByStat
<1>. QED
  BY <1>1, <1>2, <1>3

(* The flags a transition may raise are those of the LCD.                  *)
OfLcd(s) == s.flags \subseteq flags \cup {VBLANK, STAT}

(* Every way a transition drives the lines is of that kind.                *)
LEMMA OfLcdFacts ==
  /\ \A o, m, l : OfLcd(StatChange(Irq, o, m, l))
  /\ \A o, m, l, c, sl : OfLcd(StatTrigger(Irq, o, m, l, c, sl))
  /\ OfLcd(Interrupt(Irq, {VBLANK}, {VBLANK}))
  /\ \A o, m, l : OfLcd(StatChange(Interrupt(Irq, {VBLANK}, {VBLANK}), o, m, l))
<1>1. Irq.flags = flags
  BY DEF Irq
<1>2. Interrupt(Irq, {VBLANK}, {VBLANK}).flags \subseteq Irq.flags \cup {VBLANK}
  BY RaisedBy
<1>. DEFINE r == Interrupt(Irq, {VBLANK}, {VBLANK})
<1>. HIDE DEF r
<1>3. \A o, m, l : StatChange(Irq, o, m, l).flags \subseteq Irq.flags \cup {STAT}
  BY RaisedByChange
<1>4. \A o, m, l, c, sl : StatTrigger(Irq, o, m, l, c, sl).flags \subseteq Irq.flags \cup {STAT}
  BY RaisedByStat
<1>5. \A o, m, l : StatChange(r, o, m, l).flags \subseteq r.flags \cup {STAT}
  BY RaisedByChange
<1>6. r.flags \subseteq flags \cup {VBLANK}
  BY <1>1, <1>2 DEF r
<1>7. \A o, m, l : OfLcd(StatChange(Irq, o, m, l))
  BY <1>1, <1>3 DEF OfLcd
<1>8. \A o, m, l, c, sl : OfLcd(StatTrigger(Irq, o, m, l, c, sl))
  BY <1>1, <1>4 DEF OfLcd
<1>9. OfLcd(r)
  BY <1>6 DEF OfLcd
<1>10. \A o, m, l : OfLcd(StatChange(r, o, m, l))
  BY <1>5, <1>6 DEF OfLcd
<1>. QED
  BY <1>7, <1>8, <1>9, <1>10 DEF r

(* Each transition enters a mode for a time, and raises no other flags.    *)
Enters == \E s, m, l : \E n \in Nat : Enter(s, m, l, n) /\ OfLcd(s)

(* All ten transitions do.                                                 *)
LEMMA TransitionEnters ==
  ASSUME Transition
  PROVE  (pc = "lcd" \/ ~ on) /\ Enters
<1>. DEFINE r == Interrupt(Irq, {VBLANK}, {VBLANK})
<1>0. {Oam, Transfer, Hblank, Line, Entry, Rest, Short, Long, 0} \subseteq Nat
  BY DurationsAssumption
<1>1. CASE OamEnds
  BY <1>0, <1>1, OfLcdFacts DEF OamEnds, Shown, Enters
<1>2. CASE TransferEnds
  BY <1>0, <1>2, OfLcdFacts DEF TransferEnds, Shown, Enters
<1>3. CASE NextVisibleLine
  BY <1>0, <1>3, OfLcdFacts DEF NextVisibleLine, Shown, Enters
<1>4. CASE VblankBegins
  <2>1. pc = "lcd"
    BY <1>4 DEF VblankBegins, Shown
  <2>2. \/ Enter(StatChange(Interrupt(Irq, {VBLANK}, {VBLANK}), on, 1, ly + 1), 1, ly + 1, Line)
        \/ Enter(StatChange(Irq, on, 1, ly + 1), 1, ly + 1, Entry)
    BY <1>4, Zenon DEF VblankBegins
  <2>. QED
    BY <1>0, <2>1, <2>2, OfLcdFacts DEF Enters
<1>5. CASE VblankRises
  BY <1>0, <1>5, OfLcdFacts DEF VblankRises, Shown, Enters
<1>6. CASE NextBlankLine
  BY <1>0, <1>6, OfLcdFacts DEF NextBlankLine, VblankLine, InVblank, Shown, Enters
<1>7. CASE LastLineBegins
  BY <1>0, <1>7, OfLcdFacts DEF LastLineBegins, VblankLine, InVblank, Shown, Enters
<1>8. CASE LyWraps
  BY <1>0, <1>8, OfLcdFacts DEF LyWraps, VblankLine, InVblank, Shown, Enters
<1>9. CASE FrameEnds
  BY <1>0, <1>9, OfLcdFacts DEF FrameEnds, InVblank, Shown, Enters
<1>10. CASE OffTransition
  <2>1. (IF hdma >= 0 THEN 0 ELSE Hblank) \in Nat
    BY <1>0
  <2>2. ~ on
    BY <1>10 DEF OffTransition
  <2>3. \E m, l : \E n \in Nat : Enter(StatChange(Irq, on, m, l), m, l, n)
    BY <1>0, <1>10, <2>1 DEF OffTransition
  <2>. QED
    BY <2>2, <2>3, OfLcdFacts DEF Enters
<1>. QED
  BY <1>1, <1>2, <1>3, <1>4, <1>5, <1>6, <1>7, <1>8, <1>9, <1>10 DEF Transition

(* Every step keeps the controller on time.                                *)
LEMMA OnTimeStep == OnTimeInv /\ [Next]_vars => OnTimeInv'
<1>. SUFFICES ASSUME OnTimeInv, [Next]_vars PROVE OnTimeInv'
  OBVIOUS
<1>0. LcdInv'
  BY LcdStep DEF OnTimeInv
<1>1. CASE Sleep
  <2>1. CASE IdleNoTime
    <3>1. /\ on' = on /\ C' = C /\ pc # "lcd" /\ pc' # "lcd" /\ enabled' = enabled
      BY <2>1 DEF IdleNoTime, lcd, cpu
    <3>. QED
      BY <1>0, <3>1 DEF OnTimeInv
  <2>2. ASSUME NEW b \in Budgets, Idle(b) PROVE OnTimeInv'
    <3>1. enabled' = enabled
      BY <2>2 DEF Idle, cpu
    <3>. QED
      BY <1>0, <2>2, <3>1, SleepOnTime DEF OnTimeInv
  <2>. QED
    BY <1>1, <2>1, <2>2, Zenon DEF Sleep
<1>2. CASE Fetch
  <2>1. on' = on /\ C' = C /\ pc # "lcd" /\ pc' # "lcd" /\ enabled' = enabled
    BY <1>2 DEF Fetch, Dispatch, Proceed, Awake, lcd
  <2>. QED
    BY <1>0, <2>1 DEF OnTimeInv
<1>3. CASE Execute
  <2>1. PICK n \in Lengths :
          \/ Plain(n) \/ Ei(n) \/ Reti(n) \/ Di(n) \/ Halt(n)
          \/ \E S \in Masks : WriteEnable(n, S) \/ WriteFlags(n, S)
          \/ OtherInterrupt(n)
          \/ \E c \in Compares : WriteLyc(n, c)
          \/ \E S \in Selections : WriteStat(n, S)
          \/ Switch(n)
          \/ \E k \in Blocks : StartHdma(n, k)
          \/ CancelHdma(n)
    BY <1>3, Zenon DEF Execute
  <2>2. CASE Switch(n)
    <3>1. /\ C' = Oam - n /\ pc' = (IF C' <= 0 THEN "lcd" ELSE "fetch")
          /\ Oam \in Int /\ Oam > 0 /\ n \in Int
      BY <2>2, DurationsAssumption, StepsAssumption DEF Switch
    <3>2. pc' # "lcd" => C' > 0
      BY <3>1
    <3>3. C' > -n
      BY <3>1
    <3>. QED
      BY <1>0, <3>2, <3>3 DEF OnTimeInv, Soon
  <2>3. CASE ~ Switch(n)
    <3>1. Instruction(n) /\ on' = on
      BY <2>1, <2>3, Zenon DEF Plain, Ei, Reti, Di, Halt, WriteEnable, WriteFlags, OtherInterrupt,
         WriteLyc, WriteStat, StartHdma, CancelHdma, lcd
    <3>2. /\ on' /\ pc' # "lcd" => C' > 0
          /\ on' /\ pc' = "lcd" => Soon'
      BY <3>1, InstructionOnTime
    <3>. QED
      BY <1>0, <3>2 DEF OnTimeInv
  <2>. QED
    BY <2>2, <2>3
<1>4. CASE PadEvent
  <2>1. on' = on /\ C' = C /\ pc' = pc /\ pc # "lcd" /\ enabled' = enabled
    BY <1>4 DEF PadEvent, lcd, cpu
  <2>. QED
    BY <1>0, <2>1 DEF OnTimeInv
<1>5. CASE Transition
  <2>1. (pc = "lcd" \/ ~ on) /\ Enters
    BY <1>5, TransitionEnters
  <2>. QED
    BY <1>0, <2>1, EnterOnTime DEF Enters, OnTimeInv
<1>6. CASE UNCHANGED vars
  BY <1>0, <1>6 DEF OnTimeInv, Soon, Deaf, vars, lcd, cpu
<1>. QED
  BY <1>1, <1>2, <1>3, <1>4, <1>5, <1>6 DEF Next

(* What is raised while the controller catches up is raised within an      *)
(* instruction of its moment, or not enabled.                              *)
Punctually ==
  pc = "lcd" /\ on /\ (flags' \ flags) \cap enabled # {} => \E n \in Lengths : C > -n

(* Only transitions raise flags in the controller's turn.                  *)
LEMMA RaisedOnTime == OnTimeInv /\ [Next]_vars => Punctually
<1>. SUFFICES ASSUME OnTimeInv, [Next]_vars, pc = "lcd", on, (flags' \ flags) \cap enabled # {}
              PROVE  Soon
  BY DEF Punctually, Soon
<1>1. ~ Sleep /\ ~ Fetch /\ ~ PadEvent
  BY DEF Sleep, Idle, IdleNoTime, Fetch, Dispatch, Proceed, Awake, PadEvent
<1>2. ~ Execute
  BY Zenon DEF Execute, Plain, Ei, Reti, Di, Halt, WriteEnable, WriteFlags, OtherInterrupt,
     WriteLyc, WriteStat, Switch, StartHdma, CancelHdma, Instruction
<1>3. ~ UNCHANGED vars
  BY DEF vars, irq
<1>4. Transition
  BY <1>1, <1>2, <1>3 DEF Next
<1>5. flags' \subseteq flags \cup {VBLANK, STAT}
  BY <1>4, TransitionEnters DEF Enters, Enter, SetIrq, OfLcd
<1>6. ~ Deaf
  BY <1>5 DEF Deaf
<1>. QED
  BY <1>6 DEF OnTimeInv

(* An enabled LCD interrupt is never raised later than an instruction      *)
(* after its moment (cpu_idle's bound, lcdc_trans), for every screen, all  *)
(* durations that add up and whatever the game does.                       *)
THEOREM InterruptsAreOnTime == Spec => EnabledOnTime
<1>1. Init => OnTimeInv
  <2>1. Init => LcdInv
    BY LcdInit
  <2>. QED
    BY <2>1, DurationsAssumption DEF Init, OnTimeInv
<1>2. OnTimeInv /\ [Next]_vars => OnTimeInv' /\ [Punctually]_vars
  BY OnTimeStep, RaisedOnTime
<1>. QED
  BY <1>1, <1>2, PTL DEF Spec, EnabledOnTime, Punctually
=============================================================================
