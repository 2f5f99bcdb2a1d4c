----------------------------- MODULE GameSaves -----------------------------
(***************************************************************************)
(* What survives of a game in gnuboy/DC (loader.c, save.c, fs_md.c, the    *)
(* menus of dc.c and main.c): battery RAM, written to the memory card when *)
(* the game is left; the quick state, one image in a RAM disk shared by    *)
(* all games; and the state files on the card, which go through the same   *)
(* image.                                                                  *)
(*                                                                         *)
(* Data: the machine is a sequence of pages of 4K, first the registers,    *)
(* work and video RAM, then the cartridge's RAM, as savestate lays them    *)
(* out; of a page only the game and the moment it stems from matter.  A    *)
(* file is what it decompresses to, so that a file of which some blocks    *)
(* were not written is torn, unless what lay in its blocks was whole.      *)
(***************************************************************************)
EXTENDS Integers, FiniteSets

CONSTANTS
  Games,     \* ROM files
  Paths,     \* where on a disc a ROM may lie
  Default,   \* the ROM that starts with the console,
  Start,     \* and its path, /gb/default.gb
  Core, Ram, \* per game, its pages without and of cartridge RAM
  Battery,   \* games with a battery (mbc.batt)
  MaxTime,   \* bound: moments at which a machine changes
  MaxSaves,  \* bound: saves to the card
  MaxFreed,  \* bound: removed saves whose blocks are still remembered
  ReadsFail  \* whether a read of the card may fail: here that of a battery
             \* file; a save whose directory is misread is in VmuFs

NoGame == "no game"

ASSUME GamesAssumption ==
  /\ Default \in Games /\ NoGame \notin Games /\ Start \in Paths
  /\ Core \in [Games -> Nat \ {0}] /\ Ram \in [Games -> Nat]
  /\ Battery \subseteq Games

ASSUME BoundsAssumption ==
  MaxTime \in Nat /\ MaxSaves \in Nat /\ MaxFreed \in Nat /\ ReadsFail \in BOOLEAN

VARIABLES
  phase,     \* "off", "menu" (the main menu) or "game"
  card,      \* dc_mvmu # 0
  rom,       \* the game that runs or ran last
  path,      \* last_romfile, where it lay
  machine,   \* its pages
  loaded,    \* ram.loaded
  image,     \* the pages of /md/quick
  available, \* is_statesave_available
  battery,   \* the card: per game, its battery file
  states,    \* the card: per game, its state file
  freed,     \* the card: saves whose blocks were freed and not written since
  message,   \* what the card's menu says, while it is open
  time,
  saves,
  based,     \* history: the session's cartridge RAM comes from the battery
             \* file, or there was none, or the player asked for a state
  kept,      \* history: per game, the machine when a state was last saved,
             \* as long as no save of it was disturbed since
  machineDoubt, imageDoubt
             \* history: the machine, the image come from a file in doubt, or
             \* from a quick state kept over an exchange of discs

files == <<battery, states, freed, saves>>
vars  == <<phase, card, rom, path, machine, loaded, image, available, files, message,
           time, based, kept, machineDoubt, imageDoubt>>

None    == [kind |-> "none"]      \* no such file, or not recognised
Torn    == [kind |-> "torn"]      \* a file that does not decompress
(* The file is in doubt (a history) if it was entered by a disturbed save, *)
(* or written from a machine in doubt.                                     *)
File(pages, d) == [kind |-> "whole", pages |-> pages, doubt |-> d]
Readable(file) == file.kind = "whole"
Unknown == <<>>
Length(g)  == Core[g] + Ram[g]
Pages(g)   == 0..(Length(g) - 1)
RamPages(g) == Core[g]..(Length(g) - 1)
Page(g, t) == [game |-> g, time |-> t]
Garbage(g) == Page(g, -1)         \* part of a torn file
Strange    == Page(NoGame, -1)    \* from another game's file: not followed
-----------------------------------------------------------------------------
(* Files.                                                                  *)

(* savestate into the RAM disk, opened for writing: fopen("w") empties it. *)
Written(g, m) == [p \in Pages(g) |-> m[p]]
OverwrittenRefused(g, m, img) == img
(* savestate into the RAM disk, opened with "r": md_write does not refuse, *)
(* and what lies behind the state stays.                                   *)
Overwritten(g, m, img) ==
  [p \in Pages(g) \cup DOMAIN img |-> IF p \in Pages(g) THEN m[p] ELSE img[p]]
(* loadstate: pages the file does not have stay as they are.  A file that  *)
(* does not begin with the registers of this game is laid out otherwise.   *)
Restored(g, m, img) ==
  [p \in Pages(g) |->
    IF 0 \in DOMAIN img /\ img[0].game = g
    THEN IF p \in DOMAIN img THEN img[p] ELSE m[p]
    ELSE Strange]

(* The saves that may still lie in free blocks once a file that was old is *)
(* removed, or replaced by one of another size; or in its own blocks when  *)
(* it is torn.  What is not remembered has been written over.              *)
StillThere(old) == freed \cup (IF Readable(old) THEN {old.pages} ELSE {})
Leftovers(old)  ==
  {S \in SUBSET StillThere(old) :
     Cardinality(S) = MaxFreed \/ (S = StillThere(old) /\ Cardinality(S) < MaxFreed)}

(* The ways ndc_vmu_save may end: what the file then holds, and whether    *)
(* success is reported.  An undisturbed call (clean) writes the file or,   *)
(* before any write, gives up.  Failing writes of data blocks go unnoticed *)
(* (ndc_vmu_write_blocks): a file overwritten in place is then old, torn   *)
(* or new.  A file that was removed, entered or torn before may besides be *)
(* gone, or hold what lay in its blocks: another save, if it is the blocks *)
(* of one, down to the application id by which it is recognised.  A card   *)
(* that is pulled, or power that is cut, in the call leaves one of these.  *)
SaveEnds(old, pages, d) ==
  {[file |-> File(pages, d), ok |-> TRUE, clean |-> TRUE],
   [file |-> old, ok |-> FALSE, clean |-> TRUE]}
  \cup [file: IF Readable(old) THEN {old, Torn, File(pages, d)} ELSE {},
        ok: {TRUE}, clean: {FALSE}]
  \cup [file: {None, Torn} \cup {File(p, TRUE) : p \in StillThere(old) \cup {pages}},
        ok: BOOLEAN, clean: {FALSE}]

(* A save of a file that was old ends as e.                                *)
Ends(e, old) ==
  /\ saves < MaxSaves /\ saves' = saves + 1
  /\ freed' \in IF e.file = old THEN {freed} ELSE Leftovers(old)
-----------------------------------------------------------------------------
(* Starting a game.                                                        *)

Fresh(g) == [p \in Pages(g) |-> Page(g, 0)]
WithRam(g, ram) == [p \in Pages(g) |-> IF p \in RamPages(g) THEN ram[p] ELSE Page(g, 0)]
(* uncompress into the cartridge's RAM, whatever the file holds.           *)
RamIn(g, pages) ==
  IF DOMAIN pages = RamPages(g) THEN pages ELSE [p \in RamPages(g) |-> Strange]

(* sram_load; mem_init has just cleared ram.loaded.                        *)
SramLoad(g) ==
  LET used == card' /\ g \in Battery IN
  /\ loaded' = used
  /\ \/ /\ used /\ Readable(battery[g])
        /\ machine' = WithRam(g, RamIn(g, battery[g].pages))
        /\ based' = TRUE
        /\ machineDoubt' = battery[g].doubt
     \/ /\ used /\ battery[g] = Torn
        /\ machine' = WithRam(g, [p \in RamPages(g) |-> Garbage(g)])
        /\ based' = TRUE
        /\ machineDoubt' = FALSE
     \/ /\ ~ used \/ battery[g] = None
        /\ machine' = Fresh(g)
        /\ based' = (battery[g] = None)
        /\ machineDoubt' = FALSE
     \/ /\ used /\ Readable(battery[g]) /\ ReadsFail
        /\ machine' = Fresh(g)
        /\ based' = FALSE
        /\ machineDoubt' = FALSE

(* run_game: mem_init, then loader_init, which fails when it cannot open   *)
(* the ROM.                                                                *)
LoadGame(g) ==
  /\ rom' = g
  /\ \/ phase' = "game" /\ SramLoad(g)
     \/ /\ phase' = "menu"
        /\ machine' = Fresh(g) /\ loaded' = FALSE /\ based' = FALSE /\ machineDoubt' = FALSE
  /\ UNCHANGED <<image, files, time, kept>>
  /\ message' = "none"

(* main: the card is looked for once, then the default ROM runs.           *)
SwitchOn ==
  /\ phase = "off"
  /\ card' \in BOOLEAN
  /\ path' = Start
  /\ available' = FALSE /\ imageDoubt' = FALSE
  /\ LoadGame(Default)

StartGameKeeping(g, p) ==
  /\ phase = "menu"
  /\ path' = p
  /\ imageDoubt' = (imageDoubt \/ (p = path /\ g # rom))
  /\ UNCHANGED <<card, available>>
  /\ LoadGame(g)
(* do_rom_menu_and_run: another path makes the quick state unavailable.    *)
(* With another disc in the drive another ROM may lie at the same path.    *)
StartGame(g, p) ==
  /\ phase = "menu"
  /\ path' = p
  /\ available' = (available /\ p = path)
  /\ imageDoubt' = (imageDoubt \/ (p = path /\ g # rom))
  /\ UNCHANGED card
  /\ LoadGame(g)
-----------------------------------------------------------------------------
(* Playing, with the menus over the game.                                  *)

Running == phase = "game"
session == <<phase, card, rom, path, loaded>>

(* The game goes on, and may write to its cartridge's RAM.                 *)
Play ==
  /\ Running /\ time < MaxTime
  /\ time' = time + 1
  /\ \E changed \in {{}, RamPages(rom)} :
       machine' = [p \in Pages(rom) |->
         IF machine[p].game = rom /\ (p \notin RamPages(rom) \/ p \in changed)
         THEN Page(rom, time') ELSE machine[p]]
  /\ message' = "none"
  /\ UNCHANGED <<session, image, available, files, based, kept, machineDoubt, imageDoubt>>

(* do_quick_menu, X and A.                                                 *)
QuickSave ==
  /\ Running
  /\ image' = Written(rom, machine)
  /\ available' = TRUE
  /\ imageDoubt' = machineDoubt
  /\ message' = "none"
  /\ UNCHANGED <<session, machine, files, time, based, kept, machineDoubt>>

QuickLoad ==
  /\ Running /\ available
  /\ machine' = Restored(rom, machine, image)
  /\ machineDoubt' = imageDoubt
  /\ based' = TRUE
  /\ message' = "none"
  /\ UNCHANGED <<session, image, available, files, time, kept, imageDoubt>>

(* do_save_menu, X: statesave_to_vmu writes the state into the RAM disk,   *)
(* then the whole of the RAM disk's file to the card.                      *)
StateSave ==
  /\ Running /\ card
  /\ image' = Overwritten(rom, machine, image)
  /\ imageDoubt' = machineDoubt
  /\ \E e \in SaveEnds(states[rom], image', machineDoubt) :
       /\ Ends(e, states[rom])
       /\ states' = [states EXCEPT ![rom] = e.file]
       /\ available' = (available \/ e.ok)
       /\ message' = IF e.ok THEN "saved" ELSE "save failed"
       /\ kept' = IF e.clean /\ ~ e.ok THEN kept
                  ELSE [kept EXCEPT ![rom] =
                          IF e.clean /\ machine[0].game = rom THEN machine ELSE Unknown]
  /\ UNCHANGED <<session, machine, battery, time, based, machineDoubt>>

(* do_save_menu, A: stateload_from_vmu replaces the RAM disk's file.       *)
StateLoad ==
  /\ Running /\ card /\ Readable(states[rom])
  /\ image' = states[rom].pages
  /\ machine' = Restored(rom, machine, image')
  /\ imageDoubt' = states[rom].doubt /\ machineDoubt' = states[rom].doubt
  /\ available' = TRUE
  /\ based' = TRUE
  /\ message' = "loaded"
  /\ UNCHANGED <<session, files, time, kept>>

(* The menu's other outcomes.  The buffer's length that stateload_from_vmu *)
(* hands to ndc_vmu_load is uninitialized: a small one is refused.         *)
StateSaveFails ==
  /\ Running /\ ~ card
  /\ message' = "save failed"
  /\ UNCHANGED <<session, machine, image, available, files, time, based, kept,
                 machineDoubt, imageDoubt>>
StateLoadFails ==
  /\ Running
  /\ message' = "load failed"
  /\ UNCHANGED <<session, machine, image, available, files, time, based, kept,
                 machineDoubt, imageDoubt>>
-----------------------------------------------------------------------------
(* Leaving.                                                                *)

(* sram_save, when it comes to writing the cartridge's RAM.                *)
SramWritten ==
  \E e \in SaveEnds(battery[rom], [p \in RamPages(rom) |-> machine[p]], machineDoubt) :
    /\ Ends(e, battery[rom])
    /\ battery' = [battery EXCEPT ![rom] = e.file]

(* The game's memory is freed.                                             *)
Unloaded ==
  /\ machine' = Fresh(rom) /\ based' = FALSE /\ machineDoubt' = FALSE
  /\ message' = "none"
  /\ UNCHANGED <<card, rom, path, loaded, image, available, states, time, kept, imageDoubt>>

LeaveGameAlways ==
  /\ Running /\ phase' = "menu"
  /\ SramWritten
  /\ Unloaded
(* loader_unload: sram_save.  A state of another game brings its own       *)
(* mbc.batt with it.                                                       *)
LeaveGame ==
  /\ Running /\ phase' = "menu"
  /\ \/ /\ card /\ rom \in Battery /\ loaded /\ Ram[rom] # 0
        /\ SramWritten
     \/ /\ ~ (card /\ rom \in Battery /\ loaded /\ Ram[rom] # 0) \/ machine[0].game # rom
        /\ UNCHANGED <<battery, freed, saves>>
  /\ Unloaded

(* do_vmu_menu: the player removes saves.                                  *)
RemoveSave ==
  /\ phase = "menu" /\ card
  /\ \E g \in Games :
       \/ /\ battery' = [battery EXCEPT ![g] = None] /\ UNCHANGED states
          /\ freed' \in Leftovers(battery[g])
       \/ /\ states' = [states EXCEPT ![g] = None] /\ UNCHANGED battery
          /\ freed' \in Leftovers(states[g])
  /\ message' = "none"
  /\ UNCHANGED <<session, machine, image, available, time, saves, based, kept,
                 machineDoubt, imageDoubt>>

(* The console is switched off or quits: only the card remains.            *)
Off ==
  /\ phase' = "off" /\ card' = FALSE /\ rom' = Default /\ path' = Start /\ machine' = Fresh(Default)
  /\ loaded' = FALSE /\ image' = <<>> /\ available' = FALSE /\ message' = "none"
  /\ based' = FALSE /\ machineDoubt' = FALSE /\ imageDoubt' = FALSE
SwitchOff ==
  /\ phase # "off"
  /\ Off
  /\ UNCHANGED <<files, time, kept>>

Init ==
  /\ phase = "off" /\ card = FALSE /\ rom = Default /\ path = Start
  /\ machine = Fresh(Default)
  /\ loaded = FALSE /\ image = <<>> /\ available = FALSE /\ message = "none"
  /\ battery = [g \in Games |-> None] /\ states = [g \in Games |-> None] /\ freed = {}
  /\ time = 0 /\ saves = 0 /\ based = FALSE
  /\ kept = [g \in Games |-> Unknown]
  /\ machineDoubt = FALSE /\ imageDoubt = FALSE

Next ==
  \/ SwitchOn \/ (\E g \in Games, p \in Paths : StartGame(g, p))
  \/ Play \/ QuickSave \/ QuickLoad
  \/ StateSave \/ StateLoad \/ StateSaveFails \/ StateLoadFails
  \/ LeaveGame \/ RemoveSave \/ SwitchOff

Spec == Init /\ [][Next]_vars
-----------------------------------------------------------------------------
(* Properties.                                                             *)

(* A state of game g by the time t, complete and of one moment; the        *)
(* cartridge's RAM may be older, it is what the game last wrote.           *)
Own(g, t) == [game: {g}, time: -1..t]
Whole(g, t, pages) ==
  /\ Pages(g) \subseteq DOMAIN pages
  /\ \A p \in Pages(g) : pages[p] \in Own(g, t)
  /\ \A p \in Pages(g) \ RamPages(g) : pages[p] = pages[0]

(* Files hold what their names promise: a battery file the cartridge's RAM *)
(* of its game, a state file a whole state of its game, though all states  *)
(* pass through one image that is never emptied on the way (README, "VMU-  *)
(* state-save makes a file per ROM").  A save that is disturbed while it   *)
(* overwrites a file in place does not break the promise (dc_vmu.c:647     *)
(* reads a checksum it does not test); one that was entering the file can. *)
FilesOwn ==
  \A g \in Games :
    /\ Readable(battery[g]) /\ ~ battery[g].doubt =>
         battery[g].pages \in [RamPages(g) -> Own(g, time)]
    /\ Readable(states[g]) /\ ~ states[g].doubt => Whole(g, time, states[g].pages)

TypeOK ==
  /\ phase \in {"off", "menu", "game"} /\ card \in BOOLEAN
  /\ rom \in Games /\ path \in Paths /\ DOMAIN machine = Pages(rom)
  /\ DOMAIN battery = Games /\ DOMAIN states = Games
  /\ loaded \in BOOLEAN /\ available \in BOOLEAN /\ based \in BOOLEAN
  /\ machineDoubt \in BOOLEAN /\ imageDoubt \in BOOLEAN
  /\ \A g \in Games : \A file \in {battery[g], states[g]} :
       Readable(file) => file.doubt \in BOOLEAN
  /\ message \in {"none", "saved", "save failed", "loaded", "load failed"}
  /\ time \in 0..MaxTime

(* The machine is never a mixture: whatever was loaded into it, from the   *)
(* RAM disk or the card, is a whole state of the game that runs.  Only     *)
(* files in doubt and exchanged discs (main.c:110 compares paths, not      *)
(* ROMs) can make it one.                                                  *)
MachineWhole == ~ machineDoubt => Whole(rom, time, machine)

(* The quick state on offer is a whole state of the game that runs, or of  *)
(* the game left last, although another game's longer state may lie in the *)
(* same image and a state save that failed may have written over it        *)
(* (README, "quick-state-save shares savefile with all ROMs").             *)
QuickStateWhole == available /\ ~ imageDoubt => Whole(rom, time, image)

(* Loading a state from the card brings back exactly the machine that the  *)
(* last successful save found, unless a save of that file was disturbed:   *)
(* its success may be reported although nothing was written.               *)
StateRestored ==
  [][ StateLoad /\ kept[rom] # Unknown => machine' = kept[rom] ]_vars

(* A game that could not read its battery file does not overwrite it       *)
(* (loader.c:251, "If we crash before we ever loaded sram, DO NOT SAVE!"). *)
UnreadNotOverwritten ==
  [][ phase = "game" /\ battery' # battery => based ]_vars

(* A state that was saved can be loaded as long as its file is whole and   *)
(* the card readable (README, "so you can load state after quit").         *)
SavedStatesLoad ==
  [][ StateLoadFails /\ message # message' => ~ (card /\ Readable(states[rom])) ]_vars
=============================================================================
