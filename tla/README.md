# gnuboy/DC: a verification development

gnuboy/DC is a Game Boy and Game Boy Color emulator for the Dreamcast. This directory holds TLA+
modules that model the parts of it that are hard to get right by testing, TLC configurations that
check them on small instances, and proofs, checked by TLAPS, of the properties that matter most.
File names below are relative to `src/gnuboy-1.0.3/` unless they begin with `src/` or `kos` (the
vendored operating system, `src/kos-2002-03-13/`).

The emulator is one thread on the Dreamcast's main processor, interrupted by a timer and by the
video chip; the firmware of the sound processor runs beside it. The hard behaviour is therefore only
in a few places *interleaving*. Mostly it is *state in two places that must agree* (pointer tables
and mapper registers, interrupt lines and LCD registers, channel state and sound registers, a row of
the picture and LY, a FAT and a directory, a list and the card it was read from), *time* (a CPU that
sleeps through many events at once, sound that is computed later than it was asked for), and
*failure* (a memory card that fails, is torn out, or loses power between two block writes).

## 1. Inventory

| component | state | operations | hard behaviour | what makes it correct | modules |
|---|---|---|---|---|---|
| memory-card files, `sys/dc/dc_vmu.c` | on the card: FAT, directory, blocks | `ndc_vmu_save`, `_load`, `_remove_file`, block reads and writes | failing and half-done writes, power cuts, failed reads taken for "no such file", a full card, other programs' files | files never share blocks or dangle; a load returns what the last undisturbed save wrote; other files untouched | `SaveStore`, `VmuFs` |
| battery RAM, quick state, state files, `loader.c`, `save.c`, `sys/dc/fs_md.c` | battery RAM, one image in a RAM disk, files per game on the card | load and leave a game, quick save/load, state save/load, remove | one image for all games and for the card; a save that fails half way; reads that fail | no game gets another's state or a mixture; a state loads as saved; nothing is overwritten unread | `GameSaves` |
| address space and mappers, `mem.c`, `fastmem.h` | mapper registers, bank registers, pointer tables `rmap`/`wmap` | `readb`, `writeb`, `mbc_write`, `ioreg_write`, `loadstate`, `mbc_reset` | tables left stale; banks masked between two halves of a write; state of the previous game | tables agree with registers; reads find writes; the selected bank shows | `Memory` |
| LCD controller, `lcdc.c`; interrupts, DMA, pad, `hw.c` | LY, LYC, STAT, LCDC, the cycle counter; interrupt lines, IF, IE, HDMA counter | `lcdc_trans`, `lcdc_change`, `stat_write`, `stat_trigger`, `hw_interrupt`, `hw_hdma` | catching up after a long sleep or an overrun, switching off in mid-line, late VBLANK; edges lost because a line is up | lines take their time, interrupt lines say what registers say, no enabled interrupt is late | `Lcdc` |
| CPU loop, `cpu.c` | IME, halt, speed, divider and timer | `cpu_emulate`, `cpu_idle`, `div_advance`, `timer_advance` | skipping time while halted without missing an event; double speed | chunks of time count like cycles; a sleep ends with the interrupt it waits for | `Lcdc`, `Timers` |
| clock of the cartridge, `rtc.c` | frames to days, latch, shown registers | `rtc_tick`, `rtc_latch`, `rtc_write` | setting while counting, values that do not fit, the ninth bit of the day | a tick is a frame over every boundary; what is set is read back | `Rtc` |
| main loop, `emu.c` | loop flags | `emu_run`, `ev_poll` | finding the vertical blank while the game switches the LCD | the pad is polled in time, frames are equally long | `FrameLoop` |
| frame skipping, `sys/dc/dc.c` | `rest_frames`, `drop_frames` | `vid_end`, `timer_handler`, settings | a timer interrupt between two accesses to `rest_frames` | ticks are accounted for, the picture catches up and moves | `Pacing` |
| sound emulation, `sound.c` | queue of timed writes, registers, channels | `sound_write`, `sound_read`, `sound_mix`, `sound_dirty` | a full queue; a clock set back by a state load; state derived from registers on six paths | writes take effect in order and in time; a channel runs by what its registers say | `BoundedFifo`, `SndQueue`, `SoundMix`, `SoundChannel` |
| sound output, `sys/dc/dc_pcm.c`, `sys/dc/dc_sound.c`, `sys/dc/sound/` | two halves of a buffer, words shared by two processors | `dc_sound_init`, `render_pcm`, the firmware's `arm_main` | stale handshake words; a position that is old when it is read | the sound starts as asked; the half being played is not written | `SoundOutput` |
| renderer, `lcd.c`, `lcd-scan.c`, `lcd-spr.c` | a line's pixels, two buffers that outlive it, the row drawn next | `lcd_refreshline`, `lcd_begin` | overlaps, edges, buffers left from other lines; a row that is moved apart from LY | every pixel is the one asked for; a shown picture is whole | `Scanline`, `Screen` |
| display, `sys/dc/dc_utils.c`, `kos` pvr | two textures, two frames, the flags of the interrupt handler | `dc_vid_flip`, `dc_vid_flip_fill_renderer`, `dc_vid_empty` | the program runs ahead of the screen; lost interrupts | pictures are seen in order and, after a fill, whole; flips return | `Flip` |
| menus, `sys/dc/dc_menu.c` | cursors, file lists, marks | file menu, card menu | lists that are stale, cursors remembered for other discs | the cursor is on a listed file; only what is marked is removed | `FileMenu`, `VmuMenu` |
| start-up, settings, game selection, `main.c` | last ROM, card address | `run_game`, `do_rom_menu_and_run`, `save_option_to_vmu` | state that outlives a game | a game starts from power-up state | `GameSaves`, `VmuFs`, `Memory` |
| decompression, configuration, debugger, other platforms, most of KallistiOS, build tools | | | | not modelled, see section 7 | |

The main loop calls the CPU, which calls memory, which calls the mapper, the devices and, through
them, the interrupt logic; the LCD controller is advanced by every instruction and draws a line when
its mode 2 ends. Once per frame the loop shows the picture, counts the cartridge's clock, mixes the
sound and polls the controller, from which the menus, and through them the save paths and the card
layer, are called synchronously. The timer interrupt shares `rest_frames` with the loop, the video
chip's interrupt shares its flags with the flip, the sound processor shares seven words.

## 2. Plan

Done, in this order:

1. `SaveStore`, `VmuFs`, `VmuFsProofs`: the card layer, where a mistake loses the player's data.
2. `Memory`, `MemoryProofs`: the mappers and the pointer tables, on which every access relies.
3. `Lcdc`, `LcdcProofs`: LCD controller, interrupt lines and sleeping CPU, the emulator's clockwork.
4. `GameSaves`, `GameSavesProofs`: everything that survives a game.
5. `Timers`: counting in chunks against counting cycle by cycle; the sleep until the timer
   interrupt.
6. `FrameLoop`, `FrameLoopProofs`, `Pacing`: the loop, and frame skipping against the timer
   interrupt.
7. `BoundedFifo`, `SndQueue`, `SoundMix`, `SoundChannel`: the sound emulation, its queue as the
   implementation of an abstract one.
8. `SoundOutput`: two processors, the handshake and the two halves; `SoundProofs` for the four
   modules of the sound.
9. `Rtc`, `FileMenu`, `VmuMenu`: the clock and the two menus; `TimingProofs` for `Timers`, `Rtc` and
   `Pacing`.
10. `Scanline`, `Screen`, `Flip`: from registers to pixels, from lines to pictures, from pictures to
    the screen; `Screen` extends `FrameLoop` by what the loop draws and shows. `DisplayProofs` for
    `Scanline`, `Flip` and the menus.

Left, most important first:

11. The composition of `GameSaves` over `VmuFs`, so that the ways a save may end (`SaveEnds`) are
    shown by the block writes; today they are read off `dc_vmu.c`. With it, saves whose directory is
    misread, in `GameSaves` too; and a card that is exchanged in the middle of a call.
12. The HDMA's copies with the memory they read, the palettes (`pal_write`, `fb.dirty`) and the
    arithmetic of the CPU's flags (`cpucore.h`) as pure operators against a reference.

## 3. The modules

Constants are declared with named assumptions, as weak as the code justifies. Mutated forms of some
operators stand beside them (for example `SaveStepNoRoomTest` before `SaveStep`): each is the
operator with a plausible mistake, and the property it is paired with in `PROJECT.json` fails when
it takes the operator's place. They take part in nothing else.

### VmuFs: the card, block by block

State: `fat`, `dir`, `data` (the card), `op` (the call in progress with its local variables), and
the history `kept`. A call first reads whatever it needs, then writes blocks. Nothing of gnuboy runs
between two reads, so a step is one block write together with the decisions that lead to it:

| action | code |
|---|---|
| `BeginSave`, `BeginSaveSettings`, `BeginRemove` | the reading part of `ndc_vmu_save`, `save_option_to_vmu`, `ndc_vmu_remove_file` |
| `Unlink`, `FreeChain` | the two writes of `ndc_vmu_remove_file` |
| `Allocate`, `Enter` | `allocate_blocks_on_fat` and `ndc_vmu_allocate_file` |
| `WriteBlock` | one turn of the loop of `ndc_vmu_write_blocks` |
| `FatWriteFails`, `DirWriteFails`, `DataWriteFails` | a block write that fails, of which any of its four 128-byte phases may have reached the card |
| `BeginSaveMisread` | a failed directory read taken for "no such file", by a save or for the settings |
| `PowerCut` | the console switched off or the card torn out, at any write |

A block holds `<<name, version, index>>`; index 0 carries the header by which files are recognised.
The card starts formatted or with another program's file, possibly under a name gnuboy uses.
`VisitIn` is the walk along a chain that both the FAT's readers and the properties use.

`SaveStore` is the abstract specification: a store of saves by name in which a call changes only the
save it names, and an undisturbed call leaves what it was asked to leave. `VmuFs` refines it
(`ImplementsSaveStore`) with `store` read off the blocks by `Load`.

### Memory: mappers, banks and pointer tables

State: the mapper `mbc`, `sel` (`rtc.sel`), `vbk`, `svbk`, the tables `rmap` and `wmap`, the quick
state, and the history `chosen`. An address is its 4K region, its contents are left out: a location
is the bank an access reaches. `RomWrite` is a write to the ROM area for any mapper (`Register` says
which register it reaches, also for the history `chosen`; `Written` what it does, `Masked` what the
end of `mbc_write` does).
`ReadAt` and `WriteAt` are `readb` and `writeb` with the slow paths `mem_read` and `mem_write`
behind them. `SaveState` and `LoadState` are the parts of `save.c` that touch this state. Region 15
stands for its echo part, below the object memory.

### Lcdc: LCD controller, interrupts, sleeping CPU

State: where the CPU loop is (`pc`), the LCD registers, the counter `C` (`cpu.lcdc`), the interrupt
lines and flags, IE, IME, IMA, halt, and the history `beam`, the cycles since the line began. The
CPU loop is `Sleep` (`cpu_idle` with any budget), `Fetch` (`Dispatch` an interrupt, or `Proceed`),
`Execute` (an instruction of any length with any effect on these registers) and `Transition`, one
action per case of `lcdc_trans`; its catch-up loop is a sequence of steps. With the LCD off a block
moved by DMA may leave the counter at 0; `cpu_idle` then lets no time pass, but moves the controller
on and returns as if the CPU were awake (`IdleNoTime`, `pc` "idle" and "woken"). A transfer the game
before has left is still active at the start. A game is arbitrary: every instruction may write any
register. Three sources of interrupts (VBLANK, STAT, and one
standing for timer, serial and pad) keep the priorities. The double speed changes only the length of
instructions and is covered by `Lengths`.

### GameSaves: what survives a game

State: the machine as pages (first those of the console, then the cartridge's RAM), the image in the
RAM disk and whether it is offered (`is_statesave_available`), the path of the ROM that runs
(`last_romfile`), the battery and state files on the card, and the saves whose blocks were freed and
not written since (`freed`). Of a page only the game and the moment it stems from are kept.

`StartGame` is `do_rom_menu_and_run` with `run_game` and `loader_init` (which may fail to open the
ROM). It goes by the path, as `main.c:110` does: with another disc in the drive another ROM may lie
there, and the quick state then stays on offer. `Play` lets the game run, `QuickSave`, `QuickLoad`,
`StateSave`, `StateLoad` are the menus of `sys/dc/dc.c`, `LeaveGame` is `loader_unload`,
`RemoveSave` the card menu, `SwitchOff` may come at any time. The state save goes through a handle
opened for reading, which `md_write` accepts on this system because the bits of `O_RDONLY` and
`O_APPEND` overlap; the image is overwritten in place and not shortened, so a longer state of
another game may lie behind the new one, on the card too.

`SaveEnds` lists how `ndc_vmu_save` may end:

| the save | the file is then | reported |
|---|---|---|
| undisturbed | new | success |
| gives up before any write | as before | failure |
| data writes fail, over a readable file in place | as before, torn, or new | success |
| disturbed while the file is removed or entered, or over a torn one | gone, torn, new, or another save | either |

The third line is `dc_vmu.c:314-327`, which drops the result of every block write. The last line's
"another save" is what lay in the file's blocks: an entry whose blocks were never written leads to
whatever was removed there, and if that was a file of gnuboy's, whole and in the same order, its
application id makes it a file of this game (`dc_vmu.c:148`). Which saves can still be there is
`StillThere`: those of `freed`, which forgets saves as their blocks are written again (`Leftovers`).
A torn file does not decompress; torn battery RAM leaves garbage in that game's own RAM.

Histories: a file's `doubt` says that a disturbed save entered it or that it was written from such a
file's state; `machineDoubt` and `imageDoubt` say the same of the machine and the image, and
`imageDoubt` also that the quick state was kept over an exchange of discs. `kept` is the machine at
the last state save, until a save of that file is disturbed; `based` says whether the cartridge's
RAM comes from its file.

The modules from here on were written as groups of small modules. Those of a group share no
variable, so one run checks the group: an MC module `EXTENDS` them all and its variable `part`
chooses which of them a behaviour runs, while the others stay where they begin (`MCSound`,
`MCMachine`, `MCDisplay`).

### Timers, Rtc, FrameLoop, Pacing: what keeps the machine running

**`Timers`** holds the divider and the timer (`count`), TMA and TAC (`timerRegs`), the double speed,
the timer's bit of IE, and halt, IME, IMA. `Execute` is an instruction with any effect on these,
`Idle` is `cpu_idle` with the length `IdleTime` it chooses, `TakeInterrupt` the dispatch. Time
passes as in `cpu.c`, in one go (`div_advance`, `timer_advance`); `OneCycle` is the hardware's
counting, the reference. The counts of a step are constants so that a run can use small ones; that
every rate of TAC divides the timer's range is an assumption on them.

**`Rtc`** has one clock for all the games of a session: `rtc_tick` with its nested ends, the five
registers of `rtc_write`, `rtc_latch`, and `StartGame`, `LeaveGame`, `SwitchOff`, of which only the
last one touches it. The ninth bit of the day is read from the tenth bit of `d`, as the code does.

**`FrameLoop`** is `emu_run` in lines: `Run` (the two calls of `cpu_emulate` that do not look at
LY), `Step` (the two loops that do), `FrameEnds`, the ways out of `ev_poll` (`PollPad`, `Exit`,
`MenuSave`, `MenuLoad`) and `FrameBegins`. In any line the game may switch the LCD (`SwitchLcd`).

**`Pacing`** has the loop and the timer interrupt as two actors. `vid_end` is cut where the
interrupt can fall: `EndCount` reads `rest_frames`, `Decrement` writes it, then `Compare`, `Copy`
and `Clear`; `Tick` comes whenever the time `clock` is up. The history `due` counts the ticks and
`lost` those that are overwritten. The stick and the menus change the setting (`SetFrameskip`,
`Menu`), which takes effect with the next frame (`NextFrame`).

### BoundedFifo, SndQueue, SoundMix, SoundChannel: sound emulation

**`BoundedFifo`** is the abstract queue of register writes: a sequence of bounded length that drops
what does not fit. **`SndQueue`** is the ring of `sound.c` with `head` and `tail`, of which one slot
stays free; `Contents` reads the sequence off it and `ImplementsFifo` is the refinement.

**`SoundMix`** says when a queued write takes effect. The clock `snd` runs (`sound_advance`), a
write is queued with its time (`sound_write`), a read or the sound chip starts a mix (`sound_read`,
`render_pcm`), whose loop is `MixRound` after `MixRound` until `MixEnd`. `loadstate` may restore any
clock and any register: state files outlive sessions, and the queue is not in them. `sound_reset` is
the start of a game, with `pcm_init`.

**`SoundChannel`** follows one of the four channels (`id`) through every register write, `SoundOff`,
`StateRoundTrip` and `MixSample` with its length, envelope and sweep. What distinguishes the
channels is given by functions of the channel (`Steps`, `DirtyUnit`, ...). `sound_off` sets NR33
where it means NR34, and `OffRegisters` does the same. What `sound_dirty` assigns depends on nothing
but what was saved, so one round trip at any moment stands for every load.

### SoundOutput: two processors and the chip

The main processor: `PcmInit`, `LoadFirmware`, `WriteParameters`, `SeeInit`, `SetStart`, `SeePlay`
(`dc_sound_init` line by line), `RenderNothing`, `RenderBegin`, `RenderEnd` (`render_pcm`), `Pause`,
`Resume`, `PcmClose`. The sound processor: `ArmClearStart`, `ArmClearInit`, `ArmClearPlay`,
`ArmAnnounce`, `ArmSeeStart`, `ArmPlay`, `ArmConfirm`, `ArmPublish` (`arm_main`). `Sample` is the
chip playing on. The shared words keep their values when the firmware is stopped, wherever it is.
How fast the two processors are against the chip enters as three bounds, `FrameTime`, `CopyTime` and
`PublishTime`.

### Scanline, Screen, Flip: from registers to the screen

**`Scanline`** draws one line (`DrawLine`) as `lcd_refreshline` does: `ChosenObjs` is the loop of
`spr_enum` over object memory, `VS` its sorting, which puts one sprite after the other in its place
(`Insert`); `BgCells`/`BgPixel` and `WndCells`/`WndPixel` are the tile loops, `SolidAfter` and
`AboveAfter` the two buffers, `WithSprites` is `spr_scan`, the loop that draws one sprite over the
other (`Overlay`). A pixel is named by its source (layer, tile, row, column). `Drawable` says what a
line's registers can be, `Objects` what an entry of object memory is. The buffers outlive the line.
`Seen` is the reference: what a player should see at a column, said without loops or buffers. Where
the code is known to differ is named, `Stale` and `Shifted` (section 4), and excepted.

**`Screen`** is `FrameLoop` with the picture: `vdest` (the row drawn next), `drawn`, `fb.enabled`
and the history `picture`. Each step of the loop says what becomes of them: `DrawOn` and
`DrawSwitched` for lines, `ShowPicture` for `vid_end`, `LeaveMenu` and `LoadInMenu` for the menus,
which are drawn over the picture. The history `clean` marks where row and line part: a loaded state,
which does not hold `vdest`, and frame skipping that changes when line 0 has been drawn already.

**`Flip`** is `dc_vid_flip` in three steps, `Copy`, `WaitReady` and `Submit`, with KallistiOS's
interrupt handler and the chip as the other actors: `OpaqueDone`, `RenderDone`, `RenderDoneLost`
(the interrupt of which `pvr_irq.c` says that it never comes) and `ScanInt`. The chip renders a
scene into the frame that is not viewed and views it one scene later; a texture that is overwritten
while a scene is rendered from it shows in that frame.

### FileMenu, VmuMenu: the menus

**`FileMenu`** is `do_file_menu`: `OpenFiles`, `Read` and `ReadFails` for a directory, which may
hold something else each time it is read, and `PollFiles` for a turn of the pad loop with any
buttons held. `dirstat` is the table of remembered cursors, which when full reuses its first place.

**`VmuMenu`** is `do_vmu_menu`: `Open` (`read_vmu_items`, in which headers may be unreadable),
`Poll`, `RemoveNext` and `RemoveEnds`, and `ExchangeCard`, which the player may do at any moment.
The list, the marks and the cursor go by places, the card by names: of two files of one name, which
a misread directory may leave, the first goes, and on an exchanged card a save of the same name.
`Without` is the loop that copies a directory and leaves out the entries it does not want, both in
`read_vmu_items` and after a removal.

## 4. What the runs check

| run | distinct states | shows |
|---|---|---|
| `vmu` | 163,778 | no shared, dangling or leaked blocks; chains as long as their entries say; other programs' files survive; the card implements `SaveStore` |
| `vmu_misread` | 184,134 | what still holds when a failed directory read makes a save duplicate a name: no shared blocks, other files untouched, only failures lose a save |
| `memory` | 55,781 | tables and registers agree, reads find writes, the selected bank shows, also across games and state loads |
| `memory_power` | violation | `rtc.sel` outlives a game (below) |
| `lcdc` | 390,096 | lines on time, STAT and VBLANK lines current, no enabled interrupt late; a CPU that sleeps with VBLANK enabled wakes up; no deadlock |
| `saves` | 1,407,218 | files and machine are whole and the right game's, unless a disturbed save's file or an exchanged disc is behind them; a state loads as saved, unless a save of it was disturbed; no unread file is overwritten while reads succeed; no deadlock |
| `saves_unread` | violation | with failing reads it is overwritten (below) |
| `saves_length` | violation | a whole state file may be refused (below) |
| `sound` | 343,720 | the ring is a queue; writes take effect in turn and within two mixes; channels run by their registers and keep their length; the handshake ends and starts what was asked; no half is torn or heard twice |
| `machine` | 442,076 | chunks count like cycles and sleeps are exact at single speed; the pad is polled in time; steady frames; ticks are accounted for and the picture catches up; the clock keeps its time; sleepers wake, games are left, the picture moves |
| `display` | 158,257 | pixels as asked, shown pictures whole, pictures seen in order and after a fill whole; cursors fit, only marked saves go; menus and flips return |
| `timers_double` | violation | at double speed a sleep runs past the timer interrupt (below) |

Deadlock is checked in all runs but those of `VmuFs` and `Memory`, which end when their bounds on
saves and games are reached. Type invariants are proved (section 6) or conjuncts of a run's
properties.

What each property says and which code it is about stands in the comment above it. The hazards it is
for, and the mistake in the code it was seen to catch, are in `PROJECT.json`.

### Disagreements between code and comments

- `emu.c:35` says `emu_reset` sets all hardware registers to their power-up values. Nothing resets
  `rtc.sel`: after an MBC3 or HuC3 game that left a clock register selected, the cartridge RAM of
  the next game cannot be reached (`memory_power`, `StartsPoweredUp`).
- `loader.c:251` says that RAM that was never loaded is not saved. `sram_load` marks it as loaded
  before the read, so a read that fails ends in overwriting the battery file with blank RAM
  (`saves_unread`, `UnreadNotOverwritten`).
- `src/README` promises that a state on the card can be loaded after a restart. `stateload_from_vmu`
  passes an uninitialized length, and `ndc_vmu_load` refuses a file longer than it (`saves_length`,
  `SavedStatesLoad`).
- `cpu.c:340` says `cpu_idle` finds out when the next timer interrupt will happen. At double speed
  the timers count each cycle of the sleep twice (`cpu_timers`), `cpu_idle` does not, and sleeps up
  to twice as long (`timers_double`, `SleepsExactly`; at single speed it is exact,
  `SleepsExactlySingle`).

### Where the models follow the code against expectation

The properties are stated so that they hold in spite of these, and name what they except:

- A state load loses the writes queued when the state was saved and applies those queued before the
  load (`save.c:226`; `Settled` excepts loaded states). A clock that is put back, or that wraps,
  holds writes up (`sound.c:549`; `Punctual`). A register that was just written still reads as
  before (`sound.c:216`).
- `sound_dirty` computes the third channel's length with `<< 20` where a write uses `<< 13`
  (`sound.c:163`, `sound.c:350`; `StopsOnTime`), and restores the envelope's starting volume instead
  of the current one.
- The battery does not keep the clock: the bodies of `rtc_save` and `rtc_load` (`loader.c:372`) are
  compiled out (`Rtc`, `SwitchOff`).
- Sprites behind the window's colour 0, and colour games' priority there, are decided by what the
  background left in the buffer (`lcd-scan.c:329`; `Stale`); a mirrored sprite looks up the priority
  one pixel to the left (`lcd-spr.c:196`; `Shifted`).
- `loadstate` does not restore `vdest`, so the picture of the frame it falls into is shifted
  (`lcd.c:191`; `clean`).
- A texture written while it is rendered shows parts of two pictures for one frame (`InOrder` allows
  a mixture with the next picture and no other). If `RENDERDONE` is lost (`pvr_irq.c:43`), the
  screen stays as it is, while flips go on returning by their timeout (`CallDelivers` needs `losses
  = 0`, `FlipReturns` does not).
- With no disc in the drive the file menu keeps coming back to a root it cannot read, for ever
  (`MenuAnswers` assumes that the root becomes readable).
- A state save into an existing file reports success when every block write failed, and the older
  state loads (`dc_vmu.c:317`; `StateRestored` speaks of undisturbed saves). A file entered by a
  disturbed save can be another game's removed state (`dc_vmu.c:148`; `doubt`). In both cases TLC
  finds the property violated within a few steps when the exception is left out.
- The quick state of the game left last is on offer to another ROM at the same path on another disc
  (`main.c:110`; `imageDoubt`).
- In the card menu, a save of the same name goes when the card is exchanged under the list
  (`dc_menu.c:611`; `OnlySelectedGo` speaks of names).

Seen while reading and in no model: reading BCPD returns the byte written last, after the index has
moved on (`mem.c:184`), and "L + R: exit" tests `rtrig & ltrig`, the bitwise conjunction of two
pressures (`dc_menu.c:841`).

## 5. Bounds, and why they are enough

- `VmuFs`: 4 blocks and phases of 2 FAT entries give chains that grow, shrink, cross a phase
  boundary and fill the card; 3 saves allow create, resize and repair after a failure; 2 failures
  allow one in the repair. There are at least as many directory entries as blocks, as on the device
  (208 and 200), so the directory is never the first to be full. Blocks, not bytes, are counted.
- `Memory`: a cartridge for every way of banking, with ROM and RAM smaller than the mapper can
  select and, for MBC5, as large; bytes 0, 10 and 33 reach "zero means one", the RAM gate, a clock
  register and the high halves. 2 games, so that the second inherits from the first. RUMBLE, HuC1
  and HuC3 bank like MBC5, MBC1 and MBC3 and are covered by the proofs.
- `Lcdc`: 2 visible lines, and lines of 9 cycles divided into 3, 3, 3 keep every transition,
  including both splits of the blanking lines; the only relation the properties rely on is that
  instructions are short against a line (3 instructions fit into modes 2 and 3; on the device at
  most 36 cycles against 126). `MaxDebt` bounds how far the counter may fall behind with the LCD
  off, where nothing bounds it in the code.
- `GameSaves`: a small game with a battery and a longer one without, so that images differ in length
  in both directions; two paths, so that both games may lie at either; a machine that changes once
  after its start, so that an older and a newer state can be told apart; two saves, the second over
  or beside what the first left, and one removed save remembered, which it can find in its blocks.
- `Timers`: 4 counts to a step and 3 values to a register make DIV, TIMA and both fractions wrap
  within a sleep, several times over with `Budgets` 20 and TMA 2; instructions of 2 cycles.
- `FrameLoop`: 20 visible lines of which 4 pass before LY is looked at (`OffLines` 26 makes up the
  30 of a frame), so that every phase of the LCD meets every phase of the loop.
- `Pacing`: two settings, frames that take one period, a little more than one, and over three,
  hidden ones that take less than one; up to 2 lost ticks. `SpeedAssumption` says what the console
  must be fast enough for; without it no frame skipping catches up.
- `Rtc`: 2 frames to a second and so on up to 2 hours, a year of 3 days, days counted to 5: every
  carry, values that do not fit their counter, and a day count beyond the year, which a game can
  set.
- Sound: a ring of 4; 2 queued writes, 2 cycles to a sample and a clock of 5 values, so that it
  wraps within every run; units of 3 cycles against samples of 2, so that counters overshoot; one
  channel after the other with the ranges that matter to it; halves of 6 samples with frames of 3,
  copies and reports of 1, the slowest that still works: with frames of 4 `InStep` fails.
- `Scanline`: a screen of 2 tiles of 2 pixels on a map of 4, at most 2 sprites on a line. The line
  states are every scroll position with every place of the window, pairs of sprites of all kinds
  (`Fancy`) over three windows, triples at all distances of which two are drawn (`Plain`), and each
  of these after four lines that leave different things in the buffers.
- `Screen`: 3 visible lines. `Flip`: 2 textures, 4 fills and pictures numbered up to 6, more than
  can be under way at once; one lost interrupt. 3 fills would do, 2 would not.
- `FileMenu`: a tree of 4 directories, one of them unreadable, lists shorter and longer than the
  window of 2, a table for 2 cursors so that it overflows. `VmuMenu`: 3 saves and another program's
  file, 3 cards, a window of 2.

Counters that only bound a run (`MaxVersion`, `MaxFaults`, `MaxGames`, `MaxTime`, `MaxSaves`,
`MaxDay`, `MaxLost`, `MaxIgnored`, `MaxLosses`, and the numbering `Pictures`) appear in guards, and
`MaxFreed` in `Leftovers`.

**Fairness** is weak fairness throughout, of what the code does by itself. Which instruction comes
next is the game's choice, which button is pressed the player's, and neither is fair.

- `Lcdc`: `Sleep`, `Fetch`, `Execute` and `Transition`. `cpu_emulate` is one loop that `emu_run`
  calls until the game is left, on a thread nothing else competes with. `Timers`: `Sleep`, for the
  same reason.
- `FrameLoop`: the loop's step as a whole, until it is left. `Pacing`: the main program, and the
  tick: the interrupt is enabled all the time and handled when it is due.
- `SoundOutput`: the sound processor, and each step of the main one in the handshake. The two run in
  parallel, and both loops poll. Leaving a game or opening a menu is not fair.
- `Flip`: the steps inside `dc_vid_flip`, and the chip's events; the end of a rendering comes or is
  lost.
- `FileMenu`: reading a directory returns, with success or without.

## 6. What is proved

The proofs hold for every value of the constants that the named assumptions allow. TLC has checked
every invariant they use. Each theorem is listed with the property it states in `PROJECT.json`.

### Component by component

- `VmuFsProofs`, types and structure: `TypeCorrect`, `FilesNeverShareBlocks`, `FilesNeverDangle`.
  That no two entries share a block is not inductive: an allocation has linked its chain before it
  is entered, a removal has cleared the entry before its chain is freed, and in between the chain
  that the call holds is in no entry. `FilesInv` therefore adds `PendingChain` (that chain is
  allocated throughout and disjoint from every listed file) and `PendingUnlink` (the entry a removal
  is about to clear is still the one it read). Chains are least closed sets, so the facts about them
  follow without induction.
- `VmuFsProofs`, lengths: `ChainsAreAsLongAsEntered`. A chain's length is counted along it, so
  `ChainsInv` speaks of the walk `VisitIn`: which block is reached after how many links, in the FAT
  as it is and as a half-written one leaves it. `OthersFilesAreSafe` follows from the same
  invariant: no call is ever at the entry of another program's file.
- `VmuFsProofs`, what failures cost: `OnlyFailuresLeak`, `SavesComplete`. Hypothesis: there are at
  least as many directory entries as blocks (`NumSlots >= NumBlocks`; 208 and 200 on the device),
  because an allocation that finds no entry has leaked its chain. `Accounted` says that every block
  that is not free is in a listed file or held by the call, `RoomBelow` and `Progress` how far the
  undisturbed call has come: the entry it will make is the one a load will find, and what it has
  written is what it was asked to write.
- `VmuFsProofs`, refinement: `SavesAreAStore`, every block write implements a step of `SaveStore` or
  none. It assumes in addition `Misreads = FALSE`: after a misread directory a name can be listed
  twice, and removing it then uncovers the other file, which is no step of a store.
  `OneFileEach` and `DoubtKept` are what the mapping needs beyond the above.
- `MemoryProofs`: `BanksExist`, `NoStaleTable`, `ReadsFindWrites` from the types and `MapsFresh`,
  that the tables are exactly what `mem_updatemap` would compute now. `BanksAreTheChosen` adds
  `ChoiceShown`, which relates the masked bank number to the halves the game wrote, before and after
  masking; its arithmetic is done once for each mapper in lemmas on the high and the low half.
- `LcdcProofs`: `RegistersInRange`, `StatNeverStale`, `VblankOnceAFrame`, `LinesTakeTheirTime`. The
  inductive invariant adds to these four that the LCD, switched off, stays at the top of the screen.
  Each of the ten transitions and each register write has its own step. `InterruptsAreOnTime` is the
  action property `EnabledOnTime`; its invariant `OnTimeInv` adds that the controller has its turn
  as soon as the counter has run out, and that in its turn it is either within an instruction of its
  moment (`Soon`) or no interrupt of the LCD is enabled (`Deaf`), in which case `cpu_idle` may have
  slept past any number of transitions.
- `GameSavesProofs`: `FilesHoldTheirOwn`, `MachineNeverMixed`, `QuickStateIsTheGames`. The three and
  the types are inductive together: a file is whole because the image was, the image because the
  machine was, and the machine because a file was; and what is not whole is in doubt, through every
  copy. The lemmas on `Written`, `Overwritten` and `Restored` say that copying a whole state over
  anything gives a whole state, `EndOf` and `EndCases` what each end of a save leaves.
  `StatesComeBack` needs `KeptInv`: what was kept is what the file holds and the machine a load will
  give. These four assume `ReadsFail = FALSE`: a save whose directory is misread enters a second
  file of the same name, which `VmuFs` has and `GameSaves` has not. They do not assume that writes
  succeed: what failing writes can and cannot damage is what they say. `UnreadIsSafe` assumes that
  reads of the card do not fail, and the run `saves_unread` shows that it must; its invariant
  `LoadedBased` is that what counts as loaded was loaded.
- `SoundProofs`: `RingIsFifo` follows each operation on `Contents`, wherever `head` and `tail` have
  wrapped, for every size of the ring. `WritesAreTimely` uses `MixInv` (`InOrder`, `LastWanted`:
  what is queued is in the order of its times, and the last of it is what the game wants).
  `RunsByItsRegisters` and `SoundsForItsLength` use `ChannelInv`, that the derived fields are those
  the registers give and that the counter of the length is where the time since the trigger puts it;
  the lemmas on numbers composed of two registers are what they rest on. `SoundStartsAsAsked`: for
  each place of the main processor, where the sound processor can be and which of the shared words
  may still hold what an earlier game left there. `SoundStaysInStep` adds to this, for each place of
  the two, how far the chip can have played since the position was published (`Published`,
  `Streaming`). Its hypothesis `FastEnough` is that the three time bounds together are below half a
  buffer; the run's bounds are the largest that satisfy it.
- `FrameLoopProofs`: `LoopInRange`, `PadPolledInTime`, `FramesAreSteady`. `LoopInv` says at every
  place of the loop how many lines have passed since the last poll and how many are still to come
  before LY lets it go on (`InTime`), and exactly how many when nobody has switched the LCD
  (`SteadyOff`, `SteadyOn`). A line at which the LCD is off is line 0 (`OffAtTop`), in a saved state
  too. `PicturesAreWhole` extends it to `Screen`: `vdest` is where LY is and the rows above it hold
  their lines (`InPlace`), or the picture has been shown and nothing is drawn before the next top
  (`Over`).
- `TimingProofs`, timers: `ChunksCount` gives the loop that reloads TIMA a closed form and shows by
  induction on the cycles that a chunk counts like them; `SleepsEnd` follows with the first cycle
  that overflows. `TimersAssumption` says outright that a rate `2^s` is a positive divisor of the
  timer's range, since the provers know nothing of exponentiation, and that DIV's step is more than
  one cycle.
- `TimingProofs`, clock: `ClockKeepsTime`, the ranges, the carries as one count of frames, and
  `Remembered`, that the register shown is the one set.
- `TimingProofs`, pacing: `TicksAreAccounted` from `Counted`, what the counters add up to between
  any two accesses of `vid_end`; in two of these places a tick is about to be overwritten.
  `StaysInPace` from `PaceInv`, which bounds two measures of time, what frames are due for
  (`Credit`) and what the program is behind (`Behind`), under `SpeedAssumption`.
- `DisplayProofs`, pixels: `LinesAreAsAsked`, for every width, tile size, map, object memory and
  number of sprites. That the type of the first buffer is kept is all the invariant needs besides
  the property: whatever other lines left there, the line drawn next is right. The lemmas follow
  `lcd_refreshline`: the tile loops cover the screen and stay within the margins (`BgCovers`,
  `WindowCovers`), a map that is read to its end and then from its start is read where the scroll
  registers say (`MapColumn`), the buffers hold what the pixels under the sprites are
  (`SolidAsAsked`, `AboveAsAsked`), `spr_enum` finds the first sprites on the line
  (`ChosenAreFound`) and sorts them by priority (`SpritesInOrder`), and drawing them from the last
  to the first leaves the first on each pixel (`FirstIsSeen`).
- `DisplayProofs`, menus: `OnlyMarkedGo`, where the cursor's rows and the marks are inductive with
  `GoneLater` (nothing has gone while the player still marks), and `CursorsAlwaysFit`, with `Table`
  (a directory is in the table once, its cursor fits its own list) and `Showing` (the list shown is
  that of the entry in use). `Dirs` is assumed to be finite, which a disc is.
- `DisplayProofs`, flips: `PicturesAreDelivered` is `PicturesDelivered` for any number of textures
  from two and of fills from three that is not below that of the textures (the program has two and
  four; with two fills TLC finds a picture that is not yet seen). `FlipInv` follows a picture
  through its stages: what is viewed, what is viewed next (`Pending`, rendered or being rendered),
  what is submitted and what is being flipped hold the same picture or successive ones (`Stages`),
  each submission of a call pushes it one stage on (`Pushed`), and a texture written within the call
  holds its picture (`Copied`). It rests on `OneScene`: no scene is submitted before the chip has
  taken the one before it, and after a lost interrupt the chip does nothing more.

### Induction over data

The provers cannot instantiate a theorem that takes an operator. Where a loop over data has to be
followed, the modules use recursive *functions*, and the proofs take two facts in set form that the
library's `WFMin` gives: a set of numbers that is not empty has a least one (`NatMin`), and a set
that has 0 and with each number the next has all (`NatInd`). With them it is shown first that a
function with the recursive equations exists, by which the definition's `CHOOSE` satisfies them, and
then what it computes.

### What is only model-checked

- Liveness (`SleepersWake`, `HandshakeEnds`, `KeepsGoing`, `DisplayAnswers`): it needs fairness and
  `ENABLED`, which are beyond these provers.
- The runs that expect a violation state no theorem.


## 7. What is not modelled

- Colours: palette registers and conversion (`pal_write`, `palette.c`), the pattern and map displays
  of the debugger, and the copying loops of `refresh.c`, which this build does not use.
- What instructions compute (`cpucore.h` and the decoder in `cpu.c`); what DMA copies; the pad's
  bits; serial transfer beyond its interrupt.
- The samples themselves: wave tables, noise, panning and volume; the registers of the sound chip
  (`aica.c`).
- Loading a state into the LCD controller: the state file holds the interrupt lines, the counter and
  the registers, so a load returns the controller to an earlier state of the same game, which `Lcdc`
  contains; only the history `beam` would have to go back with it.
- Exchanging the memory card in the middle of a call of `VmuFs`, and between calls in `GameSaves`;
  the lengths in bytes of compressed states.
- In `GameSaves`, a save whose directory is misread, which enters a second file of the same name
  (`vmu_misread` has it); in `VmuFs`, a load of which a block is not read (`dc_vmu.c:285` drops the
  result, and the buffer keeps what it held).
- In `Timers`, a sleep whose bound is zero or negative, as it can be with the LCD off
  (`cpu.c:330-331`); `Lcdc` has it.
- In `SoundMix`, that writes to the wave RAM are dropped while the third channel plays
  (`sound.c:291`) and that switching the sound off rewrites the registers (`sound.c:389`), which
  `SoundChannel` has.
- In `SoundOutput`, the moment between the two writes that start the playing
  (`sys/dc/sound/main.c:74-78`), which `ArmConfirm` takes together.
- The parsing of the ROM header; the option menu, which sets two flags, and the menu that places the
  picture on the screen; how menus are drawn; `events.c`, whose queue this port does not use.
- `inflate.c` and `unzip.c` (third-party), the configuration files and the debugger (compiled but
  without effect here, or compiled out), the ports to other systems, and the build tools under
  `src/utils`.
- The vendored KallistiOS, by far the largest part of the repository (its malloc, its zlib, its file
  systems and drivers are not gnuboy's), except for what its memory-card driver leaves behind when a
  write fails and how its video driver turns submitted scenes into viewed frames.
