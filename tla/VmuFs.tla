------------------------------- MODULE VmuFs -------------------------------
(***************************************************************************)
(* The memory-card file layer of gnuboy/DC, sys/dc/dc_vmu.c, block by      *)
(* block.                                                                  *)
(*                                                                         *)
(* A card (VMU) is a FAT block, a directory and user blocks.  Every call   *)
(* reads what it needs and then performs a series of block writes; a step  *)
(* of this module is one call's decisions up to and including one block    *)
(* write, because nothing else runs between two reads (the menus call this *)
(* layer synchronously) but the player can switch the console off, or a    *)
(* write can fail, between any two writes and inside any one of them.      *)
(*                                                                         *)
(* Data: a block's content is the junk it came with, or <<name, version,   *)
(* index>> of the save that wrote it; index 0 is the block with the file   *)
(* header that carries the application id.                                 *)
(***************************************************************************)
EXTENDS Integers, FiniteSets, Sequences

CONSTANTS
  NumBlocks,   \* user blocks of the card (200 on the device)
  NumSlots,    \* directory entries (13 directory blocks of 16 on the device)
  PhaseLen,    \* FAT entries per 128-byte flash phase (64 on the device)
  Names,       \* file names gnuboy uses on the card
  Settings,    \* the name of the settings file, written by main.c
  OtherName,   \* a name gnuboy does not use
  MaxSize,     \* bound: largest save, in blocks
  MaxVersion,  \* bound: number of saves started
  MaxFaults,   \* bound: number of failures and power cuts
  Misreads     \* whether a directory read may fail and be taken for "no file"

ASSUME SizesAssumption ==
  /\ NumBlocks \in Nat \ {0}
  /\ NumSlots \in Nat \ {0}
  /\ PhaseLen \in Nat \ {0}
  /\ MaxSize \in Nat \ {0}
  /\ MaxVersion \in Nat
  /\ MaxFaults \in Nat
  /\ Misreads \in BOOLEAN

ASSUME NamesAssumption == Settings \in Names /\ OtherName \notin Names

Blocks == 0..(NumBlocks - 1)
Slots  == 1..NumSlots
FREE   == -1          \* 0xfffc in a FAT entry
LAST   == -2          \* 0xfffa in a FAT entry
Torn   == 0           \* version of a block whose write was cut short
Junk   == <<>>
NoEntry == [name |-> OtherName, first |-> LAST, size |-> 0]

Contents == {Junk} \cup (Names \X (0..MaxVersion) \X (0..MaxSize))
Entries  == {NoEntry} \cup
            [name: Names \cup {OtherName}, first: Blocks, size: 1..(MaxSize + 1)]

VARIABLES
  fat,      \* the FAT block
  dir,      \* the directory blocks
  data,     \* the user blocks
  op,       \* the call in progress: where it is and its local variables
  version,  \* number of saves started; tags their contents
  faults,   \* number of failures so far
  kept      \* history: what the last undisturbed call left under each name

vars == <<fat, dir, data, op, version, faults, kept>>

Steps == {"idle", "unlink", "freechain", "allocate", "enter", "write"}
Idle  == [step |-> "idle", kind |-> "save", name |-> Settings, version |-> 0,
          size |-> 1, block |-> 0, first |-> 0, done |-> 0, clean |-> TRUE]
Calls == [step: Steps, kind: {"save", "remove"}, name: Names,
          version: 0..MaxVersion, size: 1..(MaxSize + 1), block: Blocks,
          first: Blocks, done: 0..MaxSize, clean: BOOLEAN]
Unknown == <<Junk>>   \* no load returns it: a recognised file starts with a header
-----------------------------------------------------------------------------
(* Reading the card.                                                       *)

(* The blocks a file chain visits: the least set that holds its first      *)
(* block and is closed under the FAT links, for a FAT f.                   *)
ClosedUnder(f, S) == \A b \in S : f[b] \in Blocks => f[b] \in S
ChainIn(f, b) ==
  {c \in Blocks : \A S \in SUBSET Blocks : b \in S /\ ClosedUnder(f, S) => c \in S}
Chain(b) == ChainIn(fat, b)

(* ndc_vmu_check_free_blocks: the blocks it marks in free_mem.             *)
FreeBlocks == {b \in Blocks : fat[b] = FREE}

(* The k-th block ndc_vmu_read_blocks visits from b, or the end mark, in a *)
(* FAT f.                                                                  *)
VisitIn(f, b) ==
  LET at[k \in 0..NumBlocks] ==
        IF k = 0 THEN b
        ELSE IF at[k - 1] \in Blocks THEN f[at[k - 1]] ELSE at[k - 1]
  IN at
Visit(b) == VisitIn(fat, b)

(* The block starts with a file header of gnuboy's (app_id = progname).    *)
HasAppId(b) == data[b] # Junk /\ data[b][3] = 0

RecognisedByName(s, n) == dir[s] # NoEntry /\ dir[s].name = n
RecognisedByAppId(s, n) == dir[s] # NoEntry /\ HasAppId(dir[s].first)
(* get_file_dirent_info: data file, same name, and gnuboy's application id *)
(* in the file's first block.                                              *)
Recognised(s, n) ==
  /\ dir[s] # NoEntry
  /\ dir[s].name = n
  /\ HasAppId(dir[s].first)

Matches(n)  == {s \in Slots : Recognised(s, n)}
Exists(n)   == Matches(n) # {}
First(S)    == CHOOSE s \in S : \A t \in S : s <= t
FileSlot(n) == First(Matches(n))
FreeSlots   == {s \in Slots : dir[s] = NoEntry}

(* ndc_vmu_load: the blocks of the recognised file in chain order; the     *)
(* empty sequence when the call returns -1.                                *)
Load(n) ==
  IF ~ Exists(n) THEN <<>>
  ELSE LET e  == dir[FileSlot(n)]
           at == Visit(e.first)
       IN  IF \A k \in 0..(e.size - 1) : at[k] \in Blocks
           THEN [k \in 1..e.size |-> data[at[k - 1]]]
           ELSE <<>>

(* What a complete save of version v in k blocks reads back as.            *)
Image(n, v, k) == [i \in 1..k |-> <<n, v, i - 1>>]
-----------------------------------------------------------------------------
PickedEndMarks(n) ==
  LET pool == {b \in Blocks : fat[b] \notin Blocks}
  IN  {b \in pool : Cardinality({c \in pool : c > b}) < n}
PickedOneMore(n) ==
  {b \in FreeBlocks : Cardinality({c \in FreeBlocks : c > b}) <= n}
(* allocate_blocks_on_fat: the n highest free blocks, linked downwards.    *)
Picked(n) ==
  {b \in FreeBlocks : Cardinality({c \in FreeBlocks : c > b}) < n}
Highest(S) == CHOOSE b \in S : \A c \in S : c <= b
Linked(n) ==
  [b \in Blocks |->
     IF b \notin Picked(n) THEN fat[b]
     ELSE LET below == {c \in Picked(n) : c < b}
          IN  IF below = {} THEN LAST ELSE Highest(below)]

UnlinkedFirstOnly(b) == [c \in Blocks |-> IF c = b THEN FREE ELSE fat[c]]
(* ndc_vmu_remove_file: every block of the chain back to 0xfffc.           *)
Unlinked(b) == [c \in Blocks |-> IF c \in Chain(b) THEN FREE ELSE fat[c]]
-----------------------------------------------------------------------------
(* Starting a call: its read-only part decides which block write is first. *)

Begin(kind, n, v, k, step, block, clean) ==
  op' = [step |-> step, kind |-> kind, name |-> n, version |-> v, size |-> k,
         block |-> block, first |-> block, done |-> 0, clean |-> clean]

SaveStepNoRoomTest(n, k) ==
  CASE Exists(n) /\ dir[FileSlot(n)].size = k -> "write"
    [] Exists(n) /\ dir[FileSlot(n)].size # k -> "unlink"
    [] ~ Exists(n) /\ Cardinality(FreeBlocks) >= k -> "allocate"
    [] OTHER -> "idle"
(* ndc_vmu_save up to its first write.  A file of the right size is        *)
(* overwritten in place; one of another size is removed first, if the card *)
(* would then have room; otherwise the blocks come from the free ones.     *)
(* "idle": the call returns -1.                                            *)
SaveStep(n, k) ==
  LET size == dir[FileSlot(n)].size
      room == Cardinality(FreeBlocks)
  IN  CASE Exists(n) /\ size = k -> "write"
        [] Exists(n) /\ size # k /\ size + room >= k -> "unlink"
        [] ~ Exists(n) /\ room >= k -> "allocate"
        [] OTHER -> "idle"

FirstBlock(n) == IF Exists(n) THEN dir[FileSlot(n)].first ELSE 0

BeginSave(n, k) ==
  /\ op.step = "idle"
  /\ version < MaxVersion
  /\ version' = version + 1
  /\ SaveStep(n, k) # "idle"
  /\ Begin("save", n, version', k, SaveStep(n, k), FirstBlock(n), TRUE)
  /\ UNCHANGED <<fat, dir, data, faults, kept>>

(* main.c save_option_to_vmu: always two blocks, never resized.            *)
BeginSaveSettings ==
  /\ op.step = "idle"
  /\ version < MaxVersion
  /\ version' = version + 1
  /\ Exists(Settings) \/ Cardinality(FreeBlocks) >= 2
  /\ Begin("save", Settings, version', 2,
           IF Exists(Settings) THEN "write" ELSE "allocate", FirstBlock(Settings), TRUE)
  /\ UNCHANGED <<fat, dir, data, faults, kept>>

(* do_vmu_menu, for one selected file: ndc_vmu_remove_file.                *)
BeginRemove(n) ==
  /\ op.step = "idle"
  /\ Exists(n)
  /\ Begin("remove", n, 0, 1, "unlink", FirstBlock(n), TRUE)
  /\ UNCHANGED <<fat, dir, data, version, faults, kept>>
-----------------------------------------------------------------------------
(* Failures.  They are the environment's; what the call does next is the   *)
(* code's.                                                                 *)

Fault ==
  /\ faults < MaxFaults
  /\ faults' = faults + 1
Doubt(n) == kept' = [kept EXCEPT ![n] = Unknown]

(* A failed directory or header read is returned as -1, which ndc_vmu_save *)
(* and save_option_to_vmu take for "no such file": they go on to allocate. *)
BeginSaveMisread(n, k) ==
  /\ Misreads
  /\ op.step = "idle"
  /\ version < MaxVersion
  /\ version' = version + 1
  /\ Exists(n) /\ Cardinality(FreeBlocks) >= k
  /\ Begin("save", n, version', k, "allocate", 0, FALSE)
  /\ Fault /\ Doubt(n)
  /\ UNCHANGED <<fat, dir, data>>
-----------------------------------------------------------------------------
(* The block writes, in the order the code issues them.                    *)

Goto(step) == op' = [op EXCEPT !.step = step]
Return     == op' = Idle

UnlinkChainFirst ==
  /\ op.step = "unlink"
  /\ fat' = Unlinked(op.first)
  /\ Goto("freechain")
  /\ UNCHANGED <<dir, data, version, faults, kept>>
(* ndc_vmu_remove_file, first write: clear the directory entry.            *)
Unlink ==
  /\ op.step = "unlink"
  /\ dir' = [dir EXCEPT ![FileSlot(op.name)] = NoEntry]
  /\ Goto("freechain")
  /\ UNCHANGED <<fat, data, version, faults, kept>>

(* Second write: free the chain.  A removal ends here; a save looks for    *)
(* room again and allocates.                                               *)
FreeChain ==
  /\ op.step = "freechain"
  /\ fat' = Unlinked(op.first)
  /\ \/ /\ op.kind = "remove"
        /\ Return
        /\ kept' = [kept EXCEPT ![op.name] = <<>>]
     \/ /\ op.kind = "save"
        /\ Goto("allocate")
        /\ UNCHANGED kept
  /\ UNCHANGED <<dir, data, version, faults>>

(* allocate_blocks_on_fat: link the picked blocks in one FAT write.        *)
Allocate ==
  /\ op.step = "allocate"
  /\ \/ /\ Cardinality(FreeBlocks) >= op.size
        /\ fat' = Linked(op.size)
        /\ op' = [op EXCEPT !.step = "enter", !.first = Highest(Picked(op.size)),
                            !.block = Highest(Picked(op.size))]
     \/ /\ Cardinality(FreeBlocks) < op.size
        /\ Return
        /\ UNCHANGED fat
  /\ UNCHANGED <<dir, data, version, faults, kept>>

(* ndc_vmu_allocate_file: write the entry into the first free slot.        *)
Enter ==
  /\ op.step = "enter"
  /\ \/ /\ FreeSlots # {}
        /\ dir' = [dir EXCEPT ![First(FreeSlots)] =
                     [name |-> op.name, first |-> op.first, size |-> op.size]]
        /\ Goto("write")
     \/ /\ FreeSlots = {}
        /\ Return
        /\ UNCHANGED dir
  /\ UNCHANGED <<fat, data, version, faults, kept>>

(* The loop of ndc_vmu_write_blocks after block op.block: it stops at the  *)
(* end mark, at a free block, or when the buffer is written out.           *)
Advance(clean) ==
  LET next == fat[op.block]
      done == op.done + 1
  IN  IF next \in Blocks /\ done < op.size
      THEN op' = [op EXCEPT !.block = next, !.done = done, !.clean = clean]
      ELSE Return
WritesOut == op.done + 1 = op.size

WriteBlock ==
  /\ op.step = "write"
  /\ data' = [data EXCEPT ![op.block] = <<op.name, op.version, op.done>>]
  /\ Advance(op.clean)
  /\ IF WritesOut /\ op.clean
     THEN kept' = [kept EXCEPT ![op.name] = Image(op.name, op.version, op.size)]
     ELSE UNCHANGED kept
  /\ UNCHANGED <<fat, dir, version, faults>>
-----------------------------------------------------------------------------
(* A failed write of the FAT leaves any of its phases old or new; the call *)
(* returns -1.                                                             *)
Mixed(new) ==
  \E P \in SUBSET {b \div PhaseLen : b \in Blocks} :
     fat' = [b \in Blocks |-> IF b \div PhaseLen \in P THEN new[b] ELSE fat[b]]

FatWriteFails ==
  /\ \/ op.step = "freechain" /\ Mixed(Unlinked(op.first))
     \/ /\ op.step = "allocate" /\ Cardinality(FreeBlocks) >= op.size
        /\ Mixed(Linked(op.size))
  /\ Return
  /\ Fault /\ Doubt(op.name)
  /\ UNCHANGED <<dir, data, version>>

(* An entry lies within one phase: it is cleared, or entered, although the *)
(* call returns -1.                                                        *)
DirWriteFails ==
  /\ \/ /\ op.step = "unlink"
        /\ dir' = [dir EXCEPT ![FileSlot(op.name)] = NoEntry]
     \/ /\ op.step = "enter" /\ FreeSlots # {}
        /\ dir' = [dir EXCEPT ![First(FreeSlots)] =
                     [name |-> op.name, first |-> op.first, size |-> op.size]]
  /\ Return
  /\ Fault /\ Doubt(op.name)
  /\ UNCHANGED <<fat, data, version>>

(* ndc_vmu_write_blocks drops the result of ndc_vmu_write: the loop goes   *)
(* on, and the save returns 0.                                             *)
TornBlock ==
  \/ UNCHANGED data
  \/ data' = [data EXCEPT ![op.block] = <<op.name, Torn, op.done>>]

DataWriteFails ==
  /\ op.step = "write"
  /\ TornBlock
  /\ Advance(FALSE)
  /\ Fault /\ Doubt(op.name)
  /\ UNCHANGED <<fat, dir, version>>

(* The console is switched off, or the card pulled: every later access of  *)
(* the call fails.                                                         *)
PowerCut ==
  /\ op.step # "idle"
  /\ IF op.step = "write" THEN TornBlock ELSE UNCHANGED data
  /\ Return
  /\ Fault /\ Doubt(op.name)
  /\ UNCHANGED <<fat, dir, version>>
-----------------------------------------------------------------------------
Saved == Names \ {Settings}

(* Cards a game is started with: formatted, or holding another program's   *)
(* file, which may have a name gnuboy uses too.                            *)
FreshCard(n, k) ==
  /\ fat = [b \in Blocks |-> IF b >= k THEN FREE
                             ELSE IF b = k - 1 THEN LAST ELSE b + 1]
  /\ dir = [s \in Slots |-> IF s = 1 /\ k > 0
                            THEN [name |-> n, first |-> 0, size |-> k] ELSE NoEntry]

Init ==
  /\ \E n \in {OtherName} \cup Names, k \in 0..1 : FreshCard(n, k)
  /\ data = [b \in Blocks |-> Junk]
  /\ op = Idle
  /\ version = 0
  /\ faults = 0
  /\ kept = [n \in Names |-> <<>>]

Call ==
  \/ \E n \in Saved, k \in 1..MaxSize : BeginSave(n, k)
  \/ BeginSaveSettings
  \/ \E n \in Names : BeginRemove(n)
Write == Unlink \/ FreeChain \/ Allocate \/ Enter \/ WriteBlock
Failure ==
  \/ \E n \in Saved, k \in 1..MaxSize : BeginSaveMisread(n, k)
  \/ BeginSaveMisread(Settings, 2)
  \/ FatWriteFails \/ DirWriteFails \/ DataWriteFails \/ PowerCut

Next == Call \/ Write \/ Failure

Spec == Init /\ [][Next]_vars
-----------------------------------------------------------------------------
(* Properties.                                                             *)

(* Every link stays on the card, every entry names a block of it, and the  *)
(* call's cursor never leaves it (the loops of dc_vmu.c).                  *)
TypeOK ==
  /\ fat \in [Blocks -> Blocks \cup {FREE, LAST}]
  /\ dir \in [Slots -> Entries]
  /\ data \in [Blocks -> Contents]
  /\ op \in Calls
  /\ version \in 0..MaxVersion
  /\ faults \in 0..MaxFaults
  /\ kept \in [Names -> Seq(Contents)]

Owned(s) == IF dir[s] = NoEntry THEN {} ELSE Chain(dir[s].first)

(* No directory entry ever leads to a free block, whatever was cut short:  *)
(* allocation writes the FAT before the entry and removal clears the entry *)
(* before the FAT (ndc_vmu_allocate_file, ndc_vmu_remove_file).            *)
NoDanglingFile == \A s \in Slots : Owned(s) \cap FreeBlocks = {}

(* Two files never share a block, at every block write and after every     *)
(* failure: otherwise saving one game would corrupt another's save.        *)
NoCrossLinks ==
  \A s, t \in Slots : s # t => Owned(s) \cap Owned(t) = {}

(* Every file's chain has the length its entry records and ends in the end *)
(* mark, so the loops of ndc_vmu_read_blocks and ndc_vmu_remove_file stay  *)
(* on the card and stop.                                                   *)
ChainsMatchEntries ==
  \A s \in Slots : dir[s] # NoEntry =>
    LET e  == dir[s]
        at == Visit(e.first)
    IN  /\ \A k \in 0..(e.size - 1) : at[k] \in Blocks
        /\ at[e.size] = LAST

(* Only failures leak blocks: between undisturbed calls every block is     *)
(* free or part of a listed file.                                          *)
NoLeak ==
  faults = 0 /\ op.step = "idle" =>
    FreeBlocks \cup UNION {Owned(s) : s \in Slots} = Blocks

(* A save that starts destroying the old file and meets no failure always  *)
(* completes: the room test before the removal is exact (ndc_vmu_save).    *)
OnlyFailuresLoseSaves ==
  [][ \A n \in Names :
        /\ op.step # "idle" /\ op'.step = "idle"
        /\ op.kind = "save" /\ op.name = n /\ op.clean /\ faults' = faults
        => Load(n)' = Image(n, op.version, op.size) ]_vars

(* A file without gnuboy's application id is never changed, except by the  *)
(* call that has just entered it: another program's file keeps its entry,  *)
(* its chain and its contents even under a name gnuboy uses.               *)
ForeignFilesUntouched ==
  [][ \A s \in Slots :
        dir[s] # NoEntry /\ ~ HasAppId(dir[s].first)
        /\ ~ (op.step = "write" /\ op.first = dir[s].first)
        => /\ dir'[s] = dir[s]
           /\ \A b \in Owned(s) : fat'[b] = fat[b] /\ data'[b] = data[b] ]_vars

Store == INSTANCE SaveStore WITH
  Nobody  <- OtherName,
  store   <- [n \in Names |-> Load(n)],
  promise <- kept,
  busy    <- IF op.step = "idle" THEN OtherName ELSE op.name
(* The block writes of a call implement one change of the named save: a    *)
(* call in progress never changes what a load of another name returns, and *)
(* an undisturbed one leaves what it was asked to leave.                   *)
ImplementsSaveStore == Store!Spec
=============================================================================
