---------------------------- MODULE MemoryProofs ----------------------------
(***************************************************************************)
(* Proofs about the address space, for every set of cartridges: the banks  *)
(* in use always exist, the tables never disagree with the registers, and  *)
(* the windows show the banks the game chose.                              *)
(***************************************************************************)
EXTENDS Memory, TLAPS

(* The tables are what mem_map_const and mem_updatemap would compute now.  *)
MapsFresh ==
  /\ rmap = ReadMap(mbc, sel, vbk, svbk)
  /\ wmap = WriteMap(mbc, sel, svbk)

(* A remainder by a positive number is smaller than it.                    *)
LEMMA ModRange ==
  ASSUME NEW a \in Int, NEW n \in Nat \ {0}
  PROVE  a % n \in 0..(n - 1)
OBVIOUS

\* A cartridge has ROM and RAM banks.
LEMMA SizesPositive ==
  ASSUME NEW c \in Carts
  PROVE  c.rom \in Nat \ {0} /\ c.ram \in Nat \ {0}
BY CartsAssumption

\* The low half is a byte.
LEMMA LowRange ==
  ASSUME NEW type, NEW b \in 0..255
  PROVE  Low(type, b) \in 0..255
<1>1. Span(type) \in {16, 32, 128, 256}
  BY DEF Span
<1>2. b % Span(type) \in 0..255
  BY <1>1
<1>. QED
  BY <1>2 DEF Low

\* A write leaves registers ...
LEMMA WrittenType ==
  ASSUME NEW type, NEW reg, NEW b \in 0..255,
         NEW m \in [rombank: Nat, rambank: Nat, enableram: BOOLEAN, model: 0..1]
  PROVE  Written(type, reg, b, m) \in
           [rombank: Int, rambank: Int, enableram: BOOLEAN, model: 0..1]
<1>1. Span(type) \in {16, 32, 128, 256} /\ Highs(type) \in {1, 2, 4}
  BY DEF Span, Highs
<1>2. Rams(type) \in {4, 8, 16}
  BY DEF Rams
<1>3. SetLow(type, m.rombank, b) \in Int
  <2>1. (m.rombank \div Span(type)) % Highs(type) \in Int
    BY <1>1
  <2>2. Low(type, b) \in Int
    <3>1. Low(type, b) \in 0..255
      BY LowRange, Zenon
    <3>. QED
      BY <3>1
  <2>. QED
    BY <1>1, <2>1, <2>2 DEF SetLow
<1>4. SetHigh(type, m.rombank, b) \in Int
  BY <1>1 DEF SetHigh
<1>5. b % Rams(type) \in Int /\ b % 2 \in 0..1
  BY <1>2
<1>. DEFINE T == [rombank: Int, rambank: Int, enableram: BOOLEAN, model: 0..1]
<1>6. \A n \in Int : [m EXCEPT !.rombank = n] \in T /\ [m EXCEPT !.rambank = n] \in T
  OBVIOUS
<1>7. \A g \in BOOLEAN : [m EXCEPT !.enableram = g] \in T
  OBVIOUS
<1>8. \A k \in 0..1 : [m EXCEPT !.model = k] \in T
  OBVIOUS
<1>9. m \in T
  OBVIOUS
<1>10. [m EXCEPT !.rombank = SetLow(type, m.rombank, b)] \in T
  BY <1>3, <1>6
<1>11. [m EXCEPT !.rombank = SetHigh(type, m.rombank, b)] \in T
  BY <1>4, <1>6
<1>12. [m EXCEPT !.rambank = b % Rams(type)] \in T
  BY <1>5, <1>6
<1>13. [m EXCEPT !.model = b % 2] \in T
  BY <1>5, <1>8
<1>14. [m EXCEPT !.enableram = (b % 16 = 10)] \in T
  BY <1>7
<1>. QED
  BY <1>9, <1>10, <1>11, <1>12, <1>13, <1>14, Zenon DEF Written

\* ... and the masking brings them onto the cartridge.
LEMMA MaskedType ==
  ASSUME NEW c \in Carts,
         NEW m \in [rombank: Int, rambank: Int, enableram: BOOLEAN, model: 0..1]
  PROVE  Masked(c, m) \in Banks(c)
<1>1. m.rombank % c.rom \in 0..(c.rom - 1)
  BY SizesPositive, ModRange
<1>2. m.rambank % c.ram \in 0..(c.ram - 1)
  BY SizesPositive, ModRange
<1>. QED
  BY <1>1, <1>2 DEF Masked, Banks

\* So are the registers at power-up.
LEMMA PowerUpType ==
  ASSUME NEW c \in Carts
  PROVE  PowerUp \in Banks(c)
<1>1. c.rom - 1 \in Nat /\ c.rom >= 2 /\ c.ram >= 1 /\ c.ram \in Nat /\ c.rom \in Nat
  BY CartsAssumption
<1>. QED
  BY <1>1 DEF PowerUp, Banks

\* The types hold at the beginning ...
LEMMA TypeInit == Init => TypeOK
<1>. SUFFICES ASSUME Init PROVE TypeOK
  OBVIOUS
<1>1. mbc \in Banks(cart)
  BY PowerUpType DEF Init
<1>2. chosen \in Choices
  BY DEF Init, FirstChoice, Choices
<1>3. games \in 0..MaxGames
  BY GamesAssumption DEF Init
<1>4. sel \in 0..15 /\ vbk \in 0..1 /\ svbk \in 0..7
  BY DEF Init
<1>5. cart \in Carts /\ running \in BOOLEAN /\ quick \in {NoState} \cup States(cart)
  BY Zenon DEF Init
<1>. QED
  BY <1>1, <1>2, <1>3, <1>4, <1>5 DEF TypeOK

\* ... and after every step.
LEMMA TypeStep == TypeOK /\ [Next]_vars => TypeOK'
<1>. SUFFICES ASSUME TypeOK, [Next]_vars PROVE TypeOK'
  OBVIOUS
<1>1. ASSUME NEW r \in 0..7, NEW odd \in BOOLEAN, NEW b \in Bytes,
             RomWrite(r, odd, b)
      PROVE  TypeOK'
  <2>1. b \in 0..255 /\ b % 16 \in 0..15
    BY BytesAssumption
  <2>2. mbc \in [rombank: Nat, rambank: Nat, enableram: BOOLEAN, model: 0..1]
    BY DEF TypeOK, Banks
  <2>. DEFINE reg == Register(cart.mbc, r, odd, mbc.model)
  <2>3. mbc' \in Banks(cart)
    BY <1>1, <2>1, <2>2, WrittenType, MaskedType DEF RomWrite, TypeOK
  <2>4. sel' \in 0..15
    BY <1>1, <2>1 DEF RomWrite, TypeOK
  <2>5. /\ Low(cart.mbc, b) \in 0..255
        /\ b % Highs(cart.mbc) \in 0..3
        /\ b % Rams(cart.mbc) \in 0..15
    <3>1. b % 1 \in 0..3 /\ b % 2 \in 0..3 /\ b % 4 \in 0..3
      BY <2>1
    <3>2. b % 4 \in 0..15 /\ b % 8 \in 0..15 /\ b % 16 \in 0..15
      BY <2>1
    <3>3. b % Highs(cart.mbc) \in 0..3
      BY <3>1 DEF Highs
    <3>4. b % Rams(cart.mbc) \in 0..15
      BY <3>2 DEF Rams
    <3>. QED
      BY <2>1, <3>3, <3>4, LowRange
  <2>6. chosen' \in Choices
    <3>. chosen \in Choices
      BY DEF TypeOK
    <3>1. [chosen EXCEPT !.low = Low(cart.mbc, b)] \in Choices
      BY <2>5 DEF Choices
    <3>2. [chosen EXCEPT !.high = b % Highs(cart.mbc)] \in Choices
      BY <2>5 DEF Choices
    <3>3. [chosen EXCEPT !.ram = b % Rams(cart.mbc)] \in Choices
      BY <2>5 DEF Choices
    <3>. HIDE DEF reg
    <3>4. chosen' \in {chosen,
                       [chosen EXCEPT !.low = Low(cart.mbc, b)],
                       [chosen EXCEPT !.high = b % Highs(cart.mbc)],
                       [chosen EXCEPT !.ram = b % Rams(cart.mbc)]}
      BY <1>1, Zenon DEF RomWrite, reg
    <3>. QED
      BY <3>1, <3>2, <3>3, <3>4, Zenon
  <2>. QED
    BY <1>1, <2>3, <2>4, <2>6 DEF RomWrite, TypeOK
<1>2. ASSUME NEW b \in Bytes, VideoBank(b) \/ WorkBank(b)
      PROVE  TypeOK'
  <2>1. b % 2 \in 0..1 /\ b % 8 \in 0..7
    BY BytesAssumption
  <2>. QED
    BY <1>2, <2>1 DEF VideoBank, WorkBank, TypeOK
<1>3. CASE SaveState
  BY <1>3 DEF SaveState, TypeOK, States
<1>4. CASE LoadState
  BY <1>4 DEF LoadState, Restore, TypeOK, States
<1>5. ASSUME NEW c \in Carts, StartGame(c)
      PROVE  TypeOK'
  <2>1. quick' \in {NoState} \cup States(c)
    BY <1>5 DEF StartGame, TypeOK
  <2>2. games' \in 0..MaxGames
    BY <1>5, GamesAssumption DEF StartGame, TypeOK
  <2>. QED
    BY <1>5, <2>1, <2>2, PowerUpType DEF StartGame, TypeOK, FirstChoice, Choices
<1>6. CASE LeaveGame
  BY <1>6 DEF LeaveGame, TypeOK
<1>7. CASE UNCHANGED vars
  BY <1>7 DEF vars, TypeOK
<1>. QED
  BY <1>1, <1>2, <1>3, <1>4, <1>5, <1>6, <1>7 DEF Next

(* Whatever the game writes, saves and loads, the selected banks exist on  *)
(* its cartridge, and so do those of the quick state it may load.          *)
THEOREM BanksExist == Spec => []TypeOK
BY TypeInit, TypeStep, PTL DEF Spec

(* Every step that changes a register the tables depend on rebuilds them.  *)
LEMMA FreshStep == MapsFresh /\ [Next]_vars => MapsFresh'
<1>. SUFFICES ASSUME MapsFresh, [Next]_vars PROVE MapsFresh'
  OBVIOUS
<1>1. ASSUME UpdateMap PROVE MapsFresh'
  BY <1>1 DEF UpdateMap, MapsFresh, ReadMap, WriteMap, SramBank, RamOn, WramBank
<1>2. ASSUME UNCHANGED <<mbc, sel, vbk, svbk, rmap, wmap>> PROVE MapsFresh'
  BY <1>2 DEF MapsFresh, ReadMap, WriteMap, SramBank, RamOn, WramBank
<1>. QED
  BY <1>1, <1>2
     DEF Next, vars, RomWrite, VideoBank, WorkBank, SaveState, LoadState,
         StartGame, LeaveGame

\* Tables that are fresh agree with the registers.
LEMMA FreshAgrees ==
  ASSUME TypeOK, MapsFresh
  PROVE  TablesMatchRegisters /\ WritesReadBack
<1>1. \A r \in Regions : wmap[r] # Null => wmap[r] = SlowWrite(r)
  BY DEF MapsFresh, TypeOK, WriteMap, SramBank, RamOn, SlowWrite, CartRam, Regions, Null
<1>2. \A r \in 10..15 : rmap[r] # Null => rmap[r] = SlowRead(r)
  BY DEF MapsFresh, TypeOK, ReadMap, SramBank, RamOn, SlowRead, CartRam, Regions, Null
<1>3. \A r \in Regions : ReadAt(r) # Unmapped
  BY DEF MapsFresh, TypeOK, ReadMap, SramBank, RamOn, WramBank, ReadAt, SlowRead,
         CartRam, Regions, Null, Unmapped, Open
<1>4. \A r \in 8..15 : WriteAt(r) = ReadAt(r)
  BY DEF MapsFresh, TypeOK, ReadMap, WriteMap, SramBank, RamOn, WramBank, ReadAt,
         WriteAt, SlowRead, SlowWrite, CartRam, Regions, Null
<1>. QED
  BY <1>1, <1>2, <1>3, <1>4 DEF TablesMatchRegisters, WritesReadBack

\* They always are.
LEMMA FreshAlways == Spec => [](TypeOK /\ MapsFresh)
<1>1. Init => MapsFresh
  BY DEF Init, MapsFresh
<1>. QED
  BY <1>1, FreshStep, TypeInit, TypeStep, PTL DEF Spec

(* The fast path reaches what the registers select, for every cartridge.   *)
THEOREM NoStaleTable == Spec => []TablesMatchRegisters
BY FreshAlways, FreshAgrees, PTL

(* What is written above the ROM is read back from where it went.          *)
THEOREM ReadsFindWrites == Spec => []WritesReadBack
BY FreshAlways, FreshAgrees, PTL

-----------------------------------------------------------------------------
(* The selected banks.  A register set shows a choice if its banks are the *)
(* ones chosen, as far as the cartridge has them: masking at every write   *)
(* must not lose the half that is not written.                             *)
Shows(c, m, k) ==
  /\ m.rombank = (k.high * Span(c.mbc) + k.low) % c.rom
  /\ m.rambank = k.ram % c.ram
  /\ k.low < Span(c.mbc) /\ k.high < Highs(c.mbc)

(* What the invariant adds to TypeOK: the machine shows what the game      *)
(* chose, and so does the quick state it may load.                         *)
ChoiceShown ==
  /\ Shows(cart, mbc, chosen)
  /\ quick # NoState => Shows(cart, quick.mbc, quick.chosen)

Spans    == {16, 32, 128, 256}
RomSizes == {2, 4, 8, 16, 32, 64, 128, 256, 512}

(* What is left of the high half in a masked bank: by cases on the two     *)
(* powers of two.                                                          *)
LEMMA HighLeft ==
  ASSUME NEW s \in Spans, NEW n \in RomSizes, NEW h \in 0 .. 3, NEW l \in 0 .. s - 1
  PROVE  LET d == ((h * s + l) % n) \div s
         IN  d \in 0 .. h /\ \A k \in 0 .. s - 1 : (d * s + k) % n = (h * s + k) % n
<1>0. h \in {0, 1, 2, 3} /\ l \in Nat /\ l < s
  BY DEF Spans
<1>. DEFINE d == ((h * s + l) % n) \div s
<1>. SUFFICES d \in 0 .. h /\ \A k \in 0 .. s - 1 : (d * s + k) % n = (h * s + k) % n
  OBVIOUS
<1>1. /\ n >= (h + 1) * s => d = h
      /\ n = 2 * s /\ h >= 2 => d = h - 2
      /\ n <= s => d = 0
  <2>1. CASE s = 16
    BY <1>0, <2>1 DEF RomSizes
  <2>2. CASE s = 32
    BY <1>0, <2>2 DEF RomSizes
  <2>3. CASE s = 128
    BY <1>0, <2>3 DEF RomSizes
  <2>4. CASE s = 256
    BY <1>0, <2>4 DEF RomSizes
  <2>. QED
    BY <2>1, <2>2, <2>3, <2>4 DEF Spans
<1>. HIDE DEF d
<1>2. n >= (h + 1) * s \/ (n = 2 * s /\ h >= 2) \/ n <= s
  BY <1>0 DEF Spans, RomSizes
<1>3. CASE n >= (h + 1) * s
  BY <1>0, <1>1, <1>3
<1>4. CASE n = 2 * s /\ h >= 2
  <2>1. d = h - 2
    BY <1>1, <1>4
  <2>2. ASSUME NEW k \in 0 .. s - 1
        PROVE  ((h - 2) * s + k) % n = (h * s + k) % n
    <3>1. CASE s = 16
      BY <1>0, <1>4, <3>1 DEF RomSizes
    <3>2. CASE s = 32
      BY <1>0, <1>4, <3>2 DEF RomSizes
    <3>3. CASE s = 128
      BY <1>0, <1>4, <3>3 DEF RomSizes
    <3>4. CASE s = 256
      BY <1>0, <1>4, <3>4 DEF RomSizes
    <3>. QED
      BY <3>1, <3>2, <3>3, <3>4 DEF Spans
  <2>. QED
    BY <1>0, <1>4, <2>1, <2>2
<1>5. CASE n <= s
  <2>1. ASSUME NEW k \in 0 .. s - 1
        PROVE  k % n = (h * s + k) % n
    <3>1. CASE s = 16
      BY <1>0, <1>5, <3>1 DEF RomSizes
    <3>2. CASE s = 32
      BY <1>0, <1>5, <3>2 DEF RomSizes
    <3>3. CASE s = 128
      BY <1>0, <1>5, <3>3 DEF RomSizes
    <3>4. CASE s = 256
      BY <1>0, <1>5, <3>4 DEF RomSizes
    <3>. QED
      BY <3>1, <3>2, <3>3, <3>4 DEF Spans
  <2>2. d = 0
    BY <1>1, <1>5
  <2>3. \A k \in 0 .. s - 1 : 0 * s + k = k
    BY DEF Spans
  <2>. QED
    BY <1>0, <2>1, <2>2, <2>3
<1>. QED
  BY <1>2, <1>3, <1>4, <1>5

(* ... and writing the high half keeps the low one.                        *)
LEMMA HighKeepsLow ==
  ASSUME NEW s \in Spans, NEW n \in RomSizes, NEW h \in 0 .. 3, NEW e \in 0 .. 3,
         NEW l \in 0 .. s - 1
  PROVE  ((((h * s + l) % n) % s) + e * s) % n = (e * s + l) % n
<1>0. h \in {0, 1, 2, 3} /\ e \in {0, 1, 2, 3} /\ l \in Nat
  BY DEF Spans
<1>1. CASE s = 16
  BY <1>0, <1>1 DEF RomSizes
<1>2. CASE s = 32
  BY <1>0, <1>2 DEF RomSizes
<1>3. CASE s = 128
  BY <1>0, <1>3, SMTT(30) DEF RomSizes
<1>4. CASE s = 256
  BY <1>0, <1>4, SMTT(30) DEF RomSizes
<1>. QED
  BY <1>1, <1>2, <1>3, <1>4 DEF Spans

\* So writing the low half loses nothing of the high one.
LEMMA LowKeepsHigh ==
  ASSUME NEW s \in Spans, NEW n \in RomSizes, NEW g \in {1, 2, 4},
         NEW h \in 0 .. g - 1, NEW l \in 0 .. s - 1, NEW k \in 0 .. s - 1
  PROVE  ((((((h * s + l) % n) \div s) % g) * s) + k) % n = (h * s + k) % n
<1>. DEFINE d == ((h * s + l) % n) \div s
<1>1. h \in 0 .. 3
  OBVIOUS
<1>2. d \in 0 .. h /\ (d * s + k) % n = (h * s + k) % n
  BY <1>1, HighLeft
<1>. HIDE DEF d
<1>3. d % g = d
  BY <1>2
<1>4. (((d % g) * s) + k) % n = (h * s + k) % n
  BY <1>2, <1>3
<1>. QED
  BY <1>4 DEF d

(* The registers a byte selects are ones the chip has.                     *)
LEMMA ChosenFits ==
  ASSUME NEW type, NEW b \in 0..255
  PROVE  /\ Span(type) \in Spans /\ Highs(type) \in {1, 2, 4} /\ Rams(type) \in {4, 8, 16}
         /\ Low(type, b) \in 0 .. Span(type) - 1
         /\ b % Highs(type) \in 0 .. Highs(type) - 1 /\ b % Rams(type) \in 0 .. 15
<1>1. Span(type) \in Spans /\ Highs(type) \in {1, 2, 4} /\ Rams(type) \in {4, 8, 16}
  BY DEF Span, Highs, Rams, Spans
<1>2. b % Span(type) \in 0 .. Span(type) - 1 /\ 1 \in 0 .. Span(type) - 1
  BY <1>1 DEF Spans
<1>3. Low(type, b) \in 0 .. Span(type) - 1
  BY <1>2, Zenon DEF Low
<1>. QED
  BY <1>1, <1>3

(* Masking twice is masking once.                                          *)
LEMMA MaskTwice ==
  ASSUME NEW a \in Nat, NEW n \in Nat \ {0}
  PROVE  (a % n) % n = a % n
<1>1. a % n \in 0 .. n - 1
  BY ModRange
<1>2. \A r \in 0 .. n - 1 : r % n = r
  OBVIOUS
<1>. QED
  BY <1>1, <1>2

(* What a masked register set shows.                                       *)
LEMMA MaskedShows ==
  ASSUME NEW c \in Carts, NEW k,
         NEW m \in [rombank: Int, rambank: Int, enableram: BOOLEAN, model: 0..1],
         m.rombank % c.rom = (k.high * Span(c.mbc) + k.low) % c.rom,
         m.rambank % c.ram = k.ram % c.ram,
         k.low < Span(c.mbc), k.high < Highs(c.mbc)
  PROVE  Shows(c, Masked(c, m), k)
<1>1. Masked(c, m).rombank = m.rombank % c.rom /\ Masked(c, m).rambank = m.rambank % c.ram
  BY DEF Masked
<1>. QED
  BY <1>1 DEF Shows

(* A write to the mapper shows the choice it makes.                        *)
LEMMA RomWriteShows ==
  ASSUME TypeOK, Shows(cart, mbc, chosen),
         NEW r \in 0..7, NEW odd \in BOOLEAN, NEW b \in Bytes, RomWrite(r, odd, b)
  PROVE  Shows(cart, mbc', chosen')
<1>. DEFINE type == cart.mbc
            reg  == Register(cart.mbc, r, odd, mbc.model)
            w    == Written(type, reg, b, mbc)
            s == Span(type)
            g == Highs(type)
            n == cart.rom
<1>1. b \in 0..255 /\ cart \in Carts
  BY BytesAssumption DEF TypeOK
<1>2. /\ mbc \in [rombank: Nat, rambank: Nat, enableram: BOOLEAN, model: 0..1]
      /\ chosen \in Choices /\ mbc.rombank \in 0 .. n - 1 /\ mbc.rambank \in 0 .. cart.ram - 1
  BY DEF TypeOK, Banks
<1>3. w \in [rombank: Int, rambank: Int, enableram: BOOLEAN, model: 0..1]
  BY <1>1, <1>2, WrittenType
<1>4. n \in RomSizes /\ n \in Nat \ {0} /\ cart.ram \in Nat \ {0}
  BY <1>1, CartsAssumption DEF RomSizes
<1>5. /\ s \in Spans /\ g \in {1, 2, 4} /\ Low(type, b) \in 0 .. s - 1
      /\ b % g \in 0 .. g - 1 /\ b % Rams(type) \in 0 .. 15
  BY <1>1, ChosenFits, ZenonT(30)
<1>6. /\ mbc.rombank = (chosen.high * s + chosen.low) % n
      /\ mbc.rambank = chosen.ram % cart.ram
      /\ chosen.low < s /\ chosen.high < g
      /\ chosen.low \in 0 .. s - 1 /\ chosen.high \in 0 .. g - 1 /\ chosen.ram \in Nat
  BY <1>2, <1>5 DEF Shows, Choices, Spans
<1>7. mbc.rombank % n = mbc.rombank /\ mbc.rambank % cart.ram = mbc.rambank
  BY <1>2, <1>4
<1>8. mbc' = Masked(cart, w)
  BY Zenon DEF RomWrite
<1>. HIDE DEF s, g, n, reg, type, w
<1>9. CASE reg = "low"
  <2>1. w = [mbc EXCEPT !.rombank = SetLow(type, mbc.rombank, b)]
    BY <1>9 DEF Written, w
  <2>2. chosen' = [chosen EXCEPT !.low = Low(type, b)]
    BY <1>9, Zenon DEF RomWrite, reg, type
  <2>3. w.rombank = SetLow(type, mbc.rombank, b) /\ w.rambank = mbc.rambank
    BY <1>2, <2>1
  <2>4. chosen'.low = Low(type, b) /\ chosen'.high = chosen.high /\ chosen'.ram = chosen.ram
    BY <1>2, <2>2 DEF Choices
  <2>5. SetLow(type, mbc.rombank, b) % n = (chosen.high * s + Low(type, b)) % n
    <3>1. \A h \in 0 .. g - 1 : \A l, k \in 0 .. s - 1 :
            ((((((h * s + l) % n) \div s) % g) * s) + k) % n = (h * s + k) % n
      BY <1>4, <1>5, LowKeepsHigh
    <3>2. ((((((chosen.high * s + chosen.low) % n) \div s) % g) * s) + Low(type, b)) % n =
          (chosen.high * s + Low(type, b)) % n
      BY <1>5, <1>6, <3>1, Zenon
    <3>. QED
      BY <1>6, <3>2 DEF SetLow, s, g
  <2>. QED
    BY <1>1, <1>3, <1>5, <1>6, <1>7, <1>8, <2>3, <2>4, <2>5, MaskedShows DEF s, g, n, type, Spans
<1>10. CASE reg = "high"
  <2>1. w = [mbc EXCEPT !.rombank = SetHigh(type, mbc.rombank, b)]
    BY <1>10 DEF Written, w
  <2>2. chosen' = [chosen EXCEPT !.high = b % g]
    BY <1>10 DEF RomWrite, g, reg, type
  <2>3. w.rombank = SetHigh(type, mbc.rombank, b) /\ w.rambank = mbc.rambank
    BY <1>2, <2>1
  <2>4. chosen'.low = chosen.low /\ chosen'.high = b % g /\ chosen'.ram = chosen.ram
    BY <1>2, <2>2 DEF Choices
  <2>5. SetHigh(type, mbc.rombank, b) % n = ((b % g) * s + chosen.low) % n
    <3>1. chosen.high \in 0 .. 3 /\ b % g \in 0 .. 3
      BY <1>5, <1>6
    <3>2. \A h, e \in 0 .. 3 : \A l \in 0 .. s - 1 :
            ((((h * s + l) % n) % s) + e * s) % n = (e * s + l) % n
      BY <1>4, <1>5, HighKeepsLow
    <3>3. ((((chosen.high * s + chosen.low) % n) % s) + (b % g) * s) % n =
          ((b % g) * s + chosen.low) % n
      BY <1>6, <3>1, <3>2, Zenon
    <3>. QED
      BY <1>6, <3>3 DEF SetHigh, s, g
  <2>. QED
    BY <1>1, <1>3, <1>5, <1>6, <1>7, <1>8, <2>3, <2>4, <2>5, MaskedShows DEF s, g, n, type
<1>11. CASE reg \in {"ram", "clock and ram"}
  <2>1. w = [mbc EXCEPT !.rambank = b % Rams(type)]
    BY <1>11 DEF Written, w
  <2>2. chosen' = [chosen EXCEPT !.ram = b % Rams(type)]
    BY <1>11 DEF RomWrite, reg, type
  <2>3. w.rombank = mbc.rombank /\ w.rambank = b % Rams(type)
    BY <1>2, <2>1
  <2>4. /\ chosen'.low = chosen.low /\ chosen'.high = chosen.high
        /\ chosen'.ram = b % Rams(type)
    BY <1>2, <2>2 DEF Choices
  <2>. QED
    BY <1>1, <1>3, <1>5, <1>6, <1>7, <1>8, <2>3, <2>4, MaskedShows DEF s, g, n, type
<1>12. CASE reg \notin {"low", "high", "ram", "clock and ram"}
  <2>1. w.rombank = mbc.rombank /\ w.rambank = mbc.rambank
    BY <1>2, <1>12 DEF Written, w
  <2>2. chosen' = chosen
    BY <1>12 DEF RomWrite, reg, type
  <2>. QED
    BY <1>1, <1>3, <1>5, <1>6, <1>7, <1>8, <2>1, <2>2, MaskedShows DEF s, g, n, type
<1>. QED
  BY <1>9, <1>10, <1>11, <1>12

(* Every step does.                                                        *)
LEMMA ChoiceStep == TypeOK /\ ChoiceShown /\ [Next]_vars => ChoiceShown'
<1>. SUFFICES ASSUME TypeOK, ChoiceShown, [Next]_vars PROVE ChoiceShown'
  OBVIOUS
<1>1. ASSUME UNCHANGED <<cart, mbc, chosen, quick>> PROVE ChoiceShown'
  BY <1>1 DEF ChoiceShown, Shows
<1>2. ASSUME NEW r \in 0..7, NEW odd \in BOOLEAN, NEW b \in Bytes,
             RomWrite(r, odd, b)
      PROVE  ChoiceShown'
  <2>1. Shows(cart, mbc', chosen')
    BY <1>2, RomWriteShows DEF ChoiceShown
  <2>2. cart' = cart /\ quick' = quick
    BY <1>2, Zenon DEF RomWrite
  <2>. QED
    BY <2>1, <2>2 DEF ChoiceShown, Shows
<1>3. CASE SaveState
  <2>1. quick'.mbc = mbc /\ quick'.chosen = chosen /\ UNCHANGED <<cart, mbc, chosen>>
    BY <1>3 DEF SaveState
  <2>. QED
    BY <2>1 DEF ChoiceShown, Shows
<1>4. CASE LoadState
  <2>1. quick # NoState /\ mbc' = quick.mbc /\ chosen' = quick.chosen
        /\ UNCHANGED <<cart, quick>>
    BY <1>4 DEF LoadState, Restore
  <2>. QED
    BY <2>1 DEF ChoiceShown, Shows
<1>5. ASSUME NEW c \in Carts, StartGame(c) PROVE ChoiceShown'
  <2>1. /\ cart' = c /\ mbc' = PowerUp /\ chosen' = FirstChoice
        /\ quick' = IF c = cart THEN quick ELSE NoState
    BY <1>5 DEF StartGame
  <2>2. Shows(c, PowerUp, FirstChoice)
    <3>1. /\ c.rom \in RomSizes /\ c.ram \in Nat \ {0} /\ Span(c.mbc) \in Spans
          /\ Highs(c.mbc) \in {1, 2, 4}
      BY CartsAssumption DEF RomSizes, Span, Highs, Spans
    <3>2. 0 * Span(c.mbc) + 1 = 1 /\ 1 % c.rom = 1 /\ 0 % c.ram = 0
      BY <3>1 DEF RomSizes, Spans
    <3>. QED
      BY <3>1, <3>2 DEF Shows, PowerUp, FirstChoice, Spans
  <2>3. quick' # NoState => c = cart /\ quick' = quick
    BY <2>1
  <2>4. quick' # NoState => Shows(c, quick'.mbc, quick'.chosen)
    BY <2>3 DEF ChoiceShown
  <2>. QED
    BY <2>1, <2>2, <2>4 DEF ChoiceShown, Shows
<1>. QED
  BY <1>1, <1>2, <1>3, <1>4, <1>5 DEF Next, vars, VideoBank, WorkBank, LeaveGame

\* The first game has chosen nothing yet.
LEMMA ChoiceBegins == Init => ChoiceShown
<1>. SUFFICES ASSUME Init PROVE ChoiceShown
  OBVIOUS
<1>1. /\ cart \in Carts /\ mbc = PowerUp /\ chosen = FirstChoice /\ quick = NoState
  BY DEF Init
<1>2. /\ cart.rom \in RomSizes /\ cart.ram \in Nat \ {0} /\ Span(cart.mbc) \in Spans
      /\ Highs(cart.mbc) \in {1, 2, 4}
  BY <1>1, CartsAssumption DEF RomSizes, Span, Highs, Spans
<1>3. 0 * Span(cart.mbc) + 1 = 1 /\ 1 % cart.rom = 1 /\ 0 % cart.ram = 0
  BY <1>2 DEF RomSizes, Spans
<1>. QED
  BY <1>1, <1>2, <1>3 DEF ChoiceShown, Shows, PowerUp, FirstChoice, Spans

\* What the tables hold is then what the game chose.
LEMMA ShownIsRead ==
  ASSUME TypeOK, MapsFresh, ChoiceShown
  PROVE  SelectionHonoured
<1>1. rmap[4] = <<"rom", mbc.rombank>> /\ ReadAt(4) = rmap[4]
  BY DEF MapsFresh, ReadMap, Regions, ReadAt, Null
<1>2. RamOn(mbc, sel) => rmap[10] = <<"sram", mbc.rambank>> /\ ReadAt(10) = rmap[10]
  BY DEF MapsFresh, ReadMap, SramBank, Regions, ReadAt, Null
<1>. QED
  BY <1>1, <1>2, Zenon DEF ChoiceShown, Shows, SelectionHonoured

(* The ROM and RAM windows show the banks the game chose, whatever the     *)
(* order in which it wrote the halves of a bank number, and after a state  *)
(* was loaded: masking with the cartridge's size at every write loses      *)
(* nothing.                                                                *)
THEOREM BanksAreTheChosen == Spec => []SelectionHonoured
BY FreshAlways, ChoiceBegins, ChoiceStep, ShownIsRead, PTL DEF Spec
=============================================================================
