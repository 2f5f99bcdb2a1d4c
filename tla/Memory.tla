------------------------------- MODULE Memory -------------------------------
(***************************************************************************)
(* The Game Boy's address space in gnuboy (mem.c, fastmem.h): the mapper   *)
(* chip of the cartridge, the bank registers of the colour Game Boy, and   *)
(* the tables of pointers through which almost every access goes.          *)
(*                                                                         *)
(* An access looks its 4K region up in a table (rmap or wmap) and only     *)
(* falls back to mem_read or mem_write, which decode the registers, when   *)
(* the entry is null.  So what the tables were computed from and what the  *)
(* registers say now must agree after every change of either.              *)
(*                                                                         *)
(* Data: what an address holds is left out; a location is the bank an      *)
(* access reaches.                                                         *)
(***************************************************************************)
EXTENDS Integers

CONSTANTS
  Carts,     \* cartridges: [mbc, rom: 16K banks, ram: 8K banks, cgb]
  Bytes,     \* bytes a game writes to the registers
  MaxGames   \* bound: number of games started

ASSUME CartsAssumption ==
  \A c \in Carts :
    /\ c.mbc \in {"NONE", "MBC1", "MBC2", "MBC3", "MBC5", "RUMBLE", "HUC1", "HUC3"}
    /\ c.rom \in {2, 4, 8, 16, 32, 64, 128, 256, 512}
    /\ c.ram \in {1, 4, 16}
    /\ c.cgb \in BOOLEAN

ASSUME BytesAssumption == Bytes \subseteq 0..255

ASSUME GamesAssumption == MaxGames \in Nat

VARIABLES
  cart,    \* the cartridge of the game that runs or ran last
  running, \* between emu_run's start and its end
  mbc,     \* the mapper: rombank, rambank, enableram, model
  sel,     \* rtc.sel: the clock register selected instead of cartridge RAM
  vbk,     \* R_VBK & 1
  svbk,    \* R_SVBK & 7
  rmap,    \* per region, the location reads go to, or Null
  wmap,    \* per region, the location writes go to, or Null
  quick,   \* the quick state in the ram disk: its registers, or NoState
  chosen,  \* history: what the game last wrote to each mapper register
  games    \* number of games started

vars == <<cart, running, mbc, sel, vbk, svbk, rmap, wmap, quick, chosen, games>>

Regions  == 0..15
Null     == <<"null", 0>>
Open     == <<"open", 0>>       \* a disabled cartridge RAM: reads 0xFF
Mapper   == <<"mapper", 0>>     \* a write there is mbc_write
Unmapped == <<"unmapped", 0>>   \* the end of mem_read
NoState  == [mbc |-> <<>>]
-----------------------------------------------------------------------------
(* The mapper chips.                                                       *)

(* Which register of the mapper a write to a region of the ROM sets        *)
(* (mbc_write's switch); odd is bit 8 of the address, for MBC2, and model  *)
(* says what MBC1's second bank register is for.                           *)
Register(type, r, odd, model) ==
  CASE type = "MBC2" ->
         IF ~ odd THEN "gate" ELSE IF r \in {2, 3} THEN "low" ELSE "none"
    [] type \in {"MBC5", "RUMBLE"} ->
         IF r \in {0, 1} THEN "gate" ELSE IF r = 2 THEN "low"
         ELSE IF r = 3 THEN "high" ELSE IF r \in {4, 5} THEN "ram" ELSE "none"
    [] type \in {"MBC1", "HUC1"} ->
         IF r \in {0, 1} THEN "gate" ELSE IF r \in {2, 3} THEN "low"
         ELSE IF r \in {6, 7} THEN "mode" ELSE IF model = 0 THEN "high" ELSE "ram"
    [] type \in {"MBC3", "HUC3"} ->
         IF r \in {0, 1} THEN "gate" ELSE IF r \in {2, 3} THEN "low"
         ELSE IF r \in {4, 5} THEN "clock and ram" ELSE "latch"
    [] OTHER -> "none"

(* The span of the low ROM bank register, the number of values the high    *)
(* one has, and the number of RAM banks the chip can select.               *)
Span(type)  == CASE type \in {"MBC1", "HUC1"} -> 32 [] type = "MBC2" -> 16
                 [] type \in {"MBC5", "RUMBLE"} -> 256 [] OTHER -> 128
Highs(type) == CASE type \in {"MBC1", "HUC1"} -> 4
                 [] type \in {"MBC5", "RUMBLE"} -> 2 [] OTHER -> 1
Rams(type)  == CASE type = "MBC5" -> 16 [] type = "RUMBLE" -> 8 [] OTHER -> 4

(* Zero selects bank 1, except on MBC2.                                    *)
Low(type, b) ==
  LET n == b % Span(type) IN IF n = 0 /\ type # "MBC2" THEN 1 ELSE n
SetLowDropsHigh(type, n, b) == Low(type, b)
SetLow(type, n, b)  == ((n \div Span(type)) % Highs(type)) * Span(type) + Low(type, b)
SetHigh(type, n, b) == (n % Span(type)) + (b % Highs(type)) * Span(type)

(* The registers as mbc_write leaves them before the masking at its end.   *)
Written(type, reg, b, m) ==
  CASE reg = "gate" -> [m EXCEPT !.enableram = (b % 16 = 10)]
    [] reg = "low"  -> [m EXCEPT !.rombank = SetLow(type, @, b)]
    [] reg = "high" -> [m EXCEPT !.rombank = SetHigh(type, @, b)]
    [] reg \in {"ram", "clock and ram"} -> [m EXCEPT !.rambank = b % Rams(type)]
    [] reg = "mode" -> [m EXCEPT !.model = b % 2]
    [] OTHER -> m

(* & (romsize - 1) and & (ramsize - 1): both sizes are powers of two.      *)
Masked(c, m) == [m EXCEPT !.rombank = @ % c.rom, !.rambank = @ % c.ram]
-----------------------------------------------------------------------------
(* The tables.                                                             *)

WramBank(n)  == <<"wram", IF n = 0 THEN 1 ELSE n>>
RamOn(m, s)  == m.enableram /\ s < 8
SramBank(m, s) == IF RamOn(m, s) THEN <<"sram", m.rambank>> ELSE Null

(* mem_map_const, then mem_updatemap.                                      *)
ReadMap(m, s, v, w) ==
  [r \in Regions |->
     CASE r \in 0..3   -> <<"rom", 0>>
       [] r \in 4..7   -> <<"rom", m.rombank>>
       [] r \in 8..9   -> <<"vram", v>>
       [] r \in 10..11 -> SramBank(m, s)
       [] r = 13       -> WramBank(w)
       [] r = 15       -> Null
       [] OTHER        -> <<"wram", 0>>]
WriteMap(m, s, w) ==
  [r \in Regions |->
     CASE r \in 10..11 -> SramBank(m, s)
       [] r \in {12, 14} -> <<"wram", 0>>
       [] r = 13       -> WramBank(w)
       [] OTHER        -> Null]
UpdateMap ==
  /\ rmap' = ReadMap(mbc', sel', vbk', svbk')
  /\ wmap' = WriteMap(mbc', sel', svbk')
-----------------------------------------------------------------------------
(* Accesses.                                                               *)

(* What the registers say cartridge RAM is: mem_read and mem_write, case   *)
(* 0xA.                                                                    *)
CartRam == IF ~ mbc.enableram THEN Open
           ELSE IF sel >= 8 THEN <<"clock", sel % 8>> ELSE <<"sram", mbc.rambank>>

(* mem_write, in the region r.                                             *)
SlowWrite(r) ==
  CASE r \in 0..7   -> Mapper
    [] r \in 8..9   -> <<"vram", vbk>>
    [] r \in 10..11 -> CartRam
    [] r \in {12, 14} -> <<"wram", 0>>
    [] OTHER        -> WramBank(svbk)
WriteAt(r) == IF wmap[r] # Null THEN wmap[r] ELSE SlowWrite(r)

(* mem_read; the upper half of the echo (region 15) goes through readb.    *)
SlowRead(r) ==
  CASE r \in 10..11 -> CartRam
    [] r \in {12, 14} -> <<"wram", 0>>
    [] r \in {13, 15} -> WramBank(svbk)
    [] OTHER        -> Unmapped
ReadAt(r) ==
  CASE rmap[r] # Null -> rmap[r]
    [] r = 15 /\ rmap[13] # Null -> rmap[13]
    [] OTHER -> SlowRead(r)
-----------------------------------------------------------------------------
(* The game's writes.                                                      *)

(* A write to the ROM area: mbc_write.  The clock latch (region 6 of MBC3  *)
(* and HUC3) changes no bank.                                              *)
RomWrite(r, odd, b) ==
  LET type == cart.mbc
      reg  == Register(type, r, odd, mbc.model)
  IN  /\ running
      /\ WriteAt(r) = Mapper
      /\ mbc' = Masked(cart, Written(type, reg, b, mbc))
      /\ sel' = IF reg = "clock and ram" THEN b % 16 ELSE sel
      /\ chosen' =
           CASE reg = "low" -> [chosen EXCEPT !.low = Low(type, b)]
             [] reg = "high" -> [chosen EXCEPT !.high = b % Highs(type)]
             [] reg \in {"ram", "clock and ram"} -> [chosen EXCEPT !.ram = b % Rams(type)]
             [] OTHER -> chosen
      /\ UNCHANGED <<vbk, svbk>>
      /\ UpdateMap
      /\ UNCHANGED <<cart, running, quick, games>>

VideoBankNoUpdate(b) ==
  /\ running /\ cart.cgb
  /\ vbk' = b % 2
  /\ UNCHANGED <<mbc, sel, svbk, rmap, wmap, cart, running, quick, chosen, games>>
(* ioreg_write, RI_VBK: ignored on a monochrome Game Boy.                  *)
VideoBank(b) ==
  /\ running /\ cart.cgb
  /\ vbk' = b % 2
  /\ UNCHANGED <<mbc, sel, svbk>>
  /\ UpdateMap
  /\ UNCHANGED <<cart, running, quick, chosen, games>>

(* ioreg_write, RI_SVBK.                                                   *)
WorkBank(b) ==
  /\ running /\ cart.cgb
  /\ svbk' = b % 8
  /\ UNCHANGED <<mbc, sel, vbk>>
  /\ UpdateMap
  /\ UNCHANGED <<cart, running, quick, chosen, games>>
-----------------------------------------------------------------------------
(* savestate and loadstate.                                                *)

SaveState ==
  /\ running
  /\ quick' = [mbc |-> mbc, sel |-> sel, vbk |-> vbk, svbk |-> svbk, chosen |-> chosen]
  /\ UNCHANGED <<cart, running, mbc, sel, vbk, svbk, rmap, wmap, chosen, games>>

Restore ==
  /\ mbc' = quick.mbc /\ sel' = quick.sel
  /\ vbk' = quick.vbk /\ svbk' = quick.svbk
  /\ chosen' = quick.chosen
LoadStateNoUpdate ==
  /\ running /\ quick # NoState
  /\ Restore
  /\ UNCHANGED <<cart, running, rmap, wmap, quick, games>>
(* loadstate: the registers, then the tables.                              *)
LoadState ==
  /\ running /\ quick # NoState
  /\ Restore
  /\ UpdateMap
  /\ UNCHANGED <<cart, running, quick, games>>
-----------------------------------------------------------------------------
(* Starting and leaving a game.                                            *)

PowerUp == [rombank |-> 1, rambank |-> 0, enableram |-> FALSE, model |-> 0]
FirstChoice == [low |-> 1, high |-> 0, ram |-> 0]

(* do_rom_menu_and_run and run_game: another cartridge's quick state is    *)
(* dropped, mem_init clears the mapper, emu_reset the registers.  Nothing  *)
(* clears rtc.sel.                                                         *)
StartGame(c) ==
  /\ ~ running
  /\ games < MaxGames
  /\ games' = games + 1
  /\ cart' = c /\ running' = TRUE
  /\ quick' = IF c = cart THEN quick ELSE NoState
  /\ mbc' = PowerUp /\ vbk' = 0 /\ svbk' = 1
  /\ UNCHANGED sel
  /\ UpdateMap
  /\ chosen' = FirstChoice

LeaveGame ==
  /\ running
  /\ running' = FALSE
  /\ UNCHANGED <<cart, mbc, sel, vbk, svbk, rmap, wmap, quick, chosen, games>>

(* The first game is about to start; a program's globals start as zeros.   *)
Init ==
  /\ cart \in Carts
  /\ running = FALSE
  /\ mbc = PowerUp /\ sel = 0 /\ vbk = 0 /\ svbk = 1
  /\ rmap = ReadMap(mbc, sel, vbk, svbk)
  /\ wmap = WriteMap(mbc, sel, svbk)
  /\ quick = NoState
  /\ chosen = FirstChoice
  /\ games = 0

Next ==
  \/ \E r \in 0..7, odd \in BOOLEAN, b \in Bytes : RomWrite(r, odd, b)
  \/ \E b \in Bytes : VideoBank(b) \/ WorkBank(b)
  \/ SaveState \/ LoadState
  \/ \E c \in Carts : StartGame(c)
  \/ LeaveGame

Spec == Init /\ [][Next]_vars
-----------------------------------------------------------------------------
(* Properties.                                                             *)

Banks(c) == [rombank: 0..(c.rom - 1), rambank: 0..(c.ram - 1),
             enableram: BOOLEAN, model: 0..1]
Choices  == [low: 0..255, high: 0..3, ram: 0..15]
States(c) == [mbc: Banks(c), sel: 0..15, vbk: 0..1, svbk: 0..7, chosen: Choices]

(* The banks in use exist on the cartridge, in the machine and in the      *)
(* quick state that may be loaded into it: the maps never point past the   *)
(* ROM file or the battery RAM (mbc_write, loadstate).                     *)
TypeOK ==
  /\ cart \in Carts
  /\ running \in BOOLEAN
  /\ mbc \in Banks(cart)
  /\ sel \in 0..15 /\ vbk \in 0..1 /\ svbk \in 0..7
  /\ quick \in {NoState} \cup States(cart)
  /\ chosen \in Choices
  /\ games \in 0..MaxGames

(* A byte written anywhere above the ROM is read back from the same place: *)
(* reads and writes take different paths (a table, the other table, the    *)
(* decoding of the registers), and a table left stale would split them.    *)
WritesReadBack == \A r \in 8..15 : WriteAt(r) = ReadAt(r)

(* Every access that takes the fast path reaches what the registers        *)
(* select, so no access may tell whether an entry was null; mem_read's     *)
(* last line is indeed "not reached".                                      *)
TablesMatchRegisters ==
  /\ \A r \in Regions : wmap[r] # Null => wmap[r] = SlowWrite(r)
  /\ \A r \in 10..15 : rmap[r] # Null => rmap[r] = SlowRead(r)
  /\ \A r \in Regions : ReadAt(r) # Unmapped

(* The ROM window shows the bank the game selected: masking the bank at    *)
(* every write loses nothing, whatever the order of the low and the high   *)
(* half, and neither half disturbs the other (mbc_write).                  *)
SelectionHonoured ==
  /\ ReadAt(4) = <<"rom", (chosen.high * Span(cart.mbc) + chosen.low) % cart.rom>>
  /\ RamOn(mbc, sel) => ReadAt(10) = <<"sram", chosen.ram % cart.ram>>

(* A game that starts finds the machine as the first game did (emu.c:35:   *)
(* emu_reset "should set cpu registers, hardware registers, etc. to their  *)
(* appropriate values at powerup time").                                   *)
StartsPoweredUp ==
  [][ ~ running /\ running' =>
        mbc' = PowerUp /\ sel' = 0 /\ vbk' = 0 /\ svbk' = 1 ]_vars
=============================================================================
