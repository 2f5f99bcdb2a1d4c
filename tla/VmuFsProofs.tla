---------------------------- MODULE VmuFsProofs ----------------------------
(***************************************************************************)
(* Proofs about the memory card, for every card size, save size and number *)
(* of failures: files never share a block and never lead to a free block;  *)
(* every chain is as long as its entry says; a file that is not gnuboy's   *)
(* is left alone; and, on a card with as many entries as blocks, only      *)
(* failures leak blocks, a save that meets none completes, and the block   *)
(* writes implement the store of saves of module SaveStore.                *)
(***************************************************************************)
EXTENDS VmuFs, TLAPS, FiniteSetTheorems, WellFoundedInduction

Links == Blocks \cup {FREE, LAST}

(* The chain of a block is closed under the links and contains the block.  *)
LEMMA ChainClosed ==
  ASSUME NEW f, NEW b \in Blocks
  PROVE  /\ b \in ChainIn(f, b)
         /\ ChainIn(f, b) \subseteq Blocks
         /\ ClosedUnder(f, ChainIn(f, b))
BY DEF ChainIn, ClosedUnder

(* Any closed set of blocks that holds the first block holds the chain.    *)
LEMMA ChainLeast ==
  ASSUME NEW f, NEW b \in Blocks, NEW S \in SUBSET Blocks,
         b \in S, ClosedUnder(f, S)
  PROVE  ChainIn(f, b) \subseteq S
BY DEF ChainIn

(* A FAT write that changes no link of a chain leaves the chain as it was. *)
LEMMA ChainFrame ==
  ASSUME NEW f, NEW g, NEW b \in Blocks,
         \A c \in ChainIn(f, b) : g[c] = f[c]
  PROVE  ChainIn(g, b) = ChainIn(f, b)
<1>1. ClosedUnder(g, ChainIn(f, b))
  BY ChainClosed DEF ClosedUnder
<1>2. ChainIn(g, b) \subseteq ChainIn(f, b)
  BY <1>1, ChainClosed, ChainLeast
<1>3. ClosedUnder(f, ChainIn(g, b))
  BY <1>2, ChainClosed DEF ClosedUnder
<1>4. ChainIn(f, b) \subseteq ChainIn(g, b)
  BY <1>3, ChainClosed, ChainLeast
<1>. QED
  BY <1>2, <1>4

(* Every non-empty set of naturals has a least element.                    *)
LEMMA NatMin ==
  ASSUME NEW S \in SUBSET Nat, S # {}
  PROVE  \E m \in S : \A n \in S : m <= n
<1>. DEFINE R == OpToRel(<, Nat)
<1>1. IsWellFoundedOn(R, Nat)
  BY NatLessThanWellFounded
<1>2. \A x, y \in Nat : x < y => <<x, y>> \in R
  BY DEF OpToRel
<1>. HIDE DEF R
<1>3. PICK m \in S : \A n \in S : ~ (<<n, m>> \in R)
  BY <1>1, WFMin
<1>4. ASSUME NEW n \in S PROVE m <= n
  <2>1. m \in Nat /\ n \in Nat
    OBVIOUS
  <2>2. ~ (n < m)
    BY <1>2, <1>3, <2>1, Zenon
  <2>. QED
    BY <2>1, <2>2
<1>. QED
  BY <1>4

(* First and Highest pick a member of a non-empty set.                     *)
LEMMA FirstIn ==
  ASSUME NEW S \in SUBSET Slots, S # {}
  PROVE  First(S) \in S
<1>1. S \subseteq Nat
  BY SizesAssumption DEF Slots
<1>2. \E s \in S : \A t \in S : s <= t
  BY <1>1, NatMin
<1>. QED
  BY <1>2 DEF First

(* A set of blocks has a highest one.                                      *)
LEMMA HighestIn ==
  ASSUME NEW S \in SUBSET Blocks, S # {}
  PROVE  /\ Highest(S) \in S
         /\ \A c \in S : c <= Highest(S)
<1>. DEFINE T == {NumBlocks - b : b \in S}
<1>0. \A b \in S : b \in Int /\ NumBlocks - b \in Nat
  BY SizesAssumption DEF Blocks
<1>1. T \subseteq Nat /\ T # {}
  <2>1. T \subseteq Nat
    BY <1>0
  <2>2. PICK b \in S : TRUE
    OBVIOUS
  <2>3. NumBlocks - b \in T
    OBVIOUS
  <2>. QED
    BY <2>1, <2>3
<1>2. PICK t \in T : \A u \in T : t <= u
  BY <1>1, NatMin
<1>3. PICK b \in S : t = NumBlocks - b
  BY <1>2
<1>4. \A c \in S : c <= b
  <2>1. TAKE c \in S
  <2>2. NumBlocks - b <= NumBlocks - c
    BY <1>2, <1>3
  <2>. QED
    BY <2>2, SizesAssumption DEF Blocks
<1>. QED
  BY <1>4 DEF Highest

(***************************************************************************)
(* Type correctness.                                                       *)
(***************************************************************************)

(* The file a name stands for is one of its files.                         *)
LEMMA FileSlotIn ==
  ASSUME NEW n, Exists(n)
  PROVE  /\ FileSlot(n) \in Slots
         /\ Recognised(FileSlot(n), n)
BY FirstIn DEF FileSlot, Exists, Matches

(* The first block of a file is a block of the card.                       *)
LEMMA FirstBlockIn ==
  ASSUME TypeOK, NEW n
  PROVE  FirstBlock(n) \in Blocks
<1>1. 0 \in Blocks
  BY SizesAssumption DEF Blocks
<1>2. CASE Exists(n)
  BY <1>2, FileSlotIn DEF FirstBlock, TypeOK, Entries, Recognised, NoEntry
<1>. QED
  BY <1>1, <1>2 DEF FirstBlock

(* A non-empty request that fits picks at least one free block.            *)
LEMMA PickedNonEmpty ==
  ASSUME NEW n \in Nat \ {0}, Cardinality(FreeBlocks) >= n
  PROVE  Picked(n) # {}
<1>1. FreeBlocks # {}
  BY FS_EmptySet
<1>2. FreeBlocks \in SUBSET Blocks
  BY DEF FreeBlocks
<1>3. /\ Highest(FreeBlocks) \in FreeBlocks
      /\ \A c \in FreeBlocks : c <= Highest(FreeBlocks)
  BY <1>1, <1>2, HighestIn
<1>. DEFINE h == Highest(FreeBlocks)
<1>4. {c \in FreeBlocks : c > h} = {}
  <2>1. \A c \in Blocks : c \in Int
    BY SizesAssumption DEF Blocks
  <2>2. h \in Int /\ \A c \in FreeBlocks : c \in Int /\ c <= h
    BY <1>2, <1>3, <2>1
  <2>. HIDE DEF h
  <2>3. \A c \in FreeBlocks : ~ (c > h)
    BY <2>2
  <2>. QED
    BY <2>3
<1>5. Cardinality({c \in FreeBlocks : c > h}) = 0
  BY <1>4, FS_EmptySet
<1>. QED
  BY <1>3, <1>5 DEF Picked

(* Allocation takes free blocks only.                                      *)
LEMMA PickedFree == ASSUME NEW n PROVE Picked(n) \subseteq FreeBlocks
BY DEF Picked

(* The links allocate_blocks_on_fat makes stay within the picked blocks.   *)
LEMMA LinkedType ==
  ASSUME TypeOK, NEW n
  PROVE  /\ Linked(n) \in [Blocks -> Links]
         /\ \A b \in Picked(n) : Linked(n)[b] \in Picked(n) \cup {LAST}
         /\ \A b \in Blocks \ Picked(n) : Linked(n)[b] = fat[b]
<1>1. Picked(n) \subseteq Blocks
  BY PickedFree DEF FreeBlocks
<1>2. ASSUME NEW b \in Picked(n)
      PROVE  Linked(n)[b] \in Picked(n) \cup {LAST}
  <2>. DEFINE below == {c \in Picked(n) : c < b}
  <2>1. Linked(n)[b] = IF below = {} THEN LAST ELSE Highest(below)
    BY <1>1 DEF Linked
  <2>2. below # {} => Highest(below) \in below
    BY <1>1, HighestIn
  <2>. QED
    BY <2>1, <2>2
<1>3. \A b \in Blocks \ Picked(n) : Linked(n)[b] = fat[b]
  BY DEF Linked
<1>4. \A b \in Blocks : Linked(n)[b] \in Links
  BY <1>1, <1>2, <1>3 DEF TypeOK, Links
<1>5. Linked(n) = [b \in Blocks |-> Linked(n)[b]]
  BY DEF Linked
<1>. QED
  BY <1>2, <1>3, <1>4, <1>5

(* A FAT with a chain freed is a FAT.                                      *)
LEMMA UnlinkedType ==
  ASSUME TypeOK, NEW b
  PROVE  Unlinked(b) \in [Blocks -> Links]
BY DEF Unlinked, TypeOK, Links

(* Types of what a call starts with.                                       *)
LEMMA HeadTypes ==
  /\ Blocks \subseteq Int
  /\ Idle \in Calls
  /\ Unknown \in Seq(Contents)
  /\ <<>> \in Seq(Contents)
<1>1. 0 \in Blocks /\ Blocks \subseteq Int
  BY SizesAssumption DEF Blocks
<1>2. Idle \in Calls
  BY <1>1, SizesAssumption, NamesAssumption DEF Idle, Calls, Steps
<1>3. Junk \in Contents
  BY DEF Contents
<1>. QED
  BY <1>1, <1>2, <1>3 DEF Unknown

(* A complete save reads back as a sequence of block contents.             *)
LEMMA ImageType ==
  ASSUME NEW n \in Names, NEW v \in 0..MaxVersion, NEW k \in 1..(MaxSize + 1)
  PROVE  Image(n, v, k) \in Seq(Contents)
<1>1. k \in Nat
  BY SizesAssumption
<1>2. \A i \in 1..k : <<n, v, i - 1>> \in Contents
  BY SizesAssumption DEF Contents
<1>. QED
  BY <1>1, <1>2 DEF Image

(* Types after a failure.                                                  *)
LEMMA FaultTypes ==
  ASSUME TypeOK, NEW n, Fault, Doubt(n)
  PROVE  /\ faults' \in 0..MaxFaults
         /\ kept' \in [Names -> Seq(Contents)]
<1>1. faults' \in 0..MaxFaults
  BY SizesAssumption DEF Fault, TypeOK
<1>2. kept \in [Names -> Seq(Contents)] /\ Unknown \in Seq(Contents)
  BY HeadTypes DEF TypeOK
<1>. HIDE DEF Unknown
<1>3. kept' \in [Names -> Seq(Contents)]
  BY <1>2 DEF Doubt
<1>. QED
  BY <1>1, <1>3

(* A torn write of the FAT leaves a FAT of old and new links.              *)
LEMMA MixedType ==
  ASSUME TypeOK, NEW new \in [Blocks -> Links], Mixed(new)
  PROVE  /\ fat' \in [Blocks -> Links]
         /\ \A b \in Blocks : fat'[b] \in {fat[b], new[b]}
BY DEF Mixed, TypeOK, Links

(* The directory after clearing the file's entry, and after entering it.   *)
LEMMA DirTypes ==
  ASSUME TypeOK
  PROVE  /\ [dir EXCEPT ![FileSlot(op.name)] = NoEntry] \in [Slots -> Entries]
         /\ [dir EXCEPT ![First(FreeSlots)] =
                [name |-> op.name, first |-> op.first, size |-> op.size]]
              \in [Slots -> Entries]
<1>1. [name |-> op.name, first |-> op.first, size |-> op.size] \in Entries
  BY DEF TypeOK, Calls, Entries
<1>. QED
  BY <1>1 DEF TypeOK, Entries

(* Every misread call names a file of gnuboy's, the settings' among them.  *)
LEMMA MisreadCalls ==
  /\ Settings \in Names /\ 2 \in 1..(MaxSize + 1)
  /\ Saved \subseteq Names /\ 1..MaxSize \subseteq 1..(MaxSize + 1)
BY NamesAssumption, SizesAssumption DEF Saved

(* Types after a block write.                                              *)
LEMMA WriteTypes ==
  ASSUME TypeOK, NEW clean \in BOOLEAN, op.step = "write", Advance(clean)
  PROVE  /\ op' \in Calls
         /\ \A v \in 0..MaxVersion :
              [data EXCEPT ![op.block] = <<op.name, v, op.done>>] \in [Blocks -> Contents]
         /\ op' = Idle \/ op'.step = "write"
<1>1. op' \in Calls
  <2>1. op.done + 1 < op.size => op.done + 1 \in 0..MaxSize
    BY SizesAssumption DEF TypeOK, Calls
  <2>. QED
    BY <2>1, HeadTypes, ZenonT(30) DEF Advance, Return, TypeOK, Calls
<1>2. ASSUME NEW v \in 0..MaxVersion
      PROVE  [data EXCEPT ![op.block] = <<op.name, v, op.done>>] \in [Blocks -> Contents]
  <2>1. <<op.name, v, op.done>> \in Contents
    BY DEF TypeOK, Calls, Contents
  <2>. QED
    BY <2>1 DEF TypeOK
<1>3. op' = Idle \/ op'.step = "write"
  BY DEF Advance, Return, TypeOK, Calls
<1>. QED
  BY <1>1, <1>2, <1>3

(* The type invariant is inductive.                                        *)
LEMMA TypeStep == TypeOK /\ [Next]_vars => TypeOK'
<1>. SUFFICES ASSUME TypeOK, [Next]_vars
              PROVE  TypeOK'
  OBVIOUS
<1>. USE HeadTypes
<1>1. ASSUME NEW n \in Saved, NEW k \in 1..MaxSize, BeginSave(n, k)
      PROVE  TypeOK'
  <2>1. op' \in Calls
    <3>1. FirstBlock(n) \in Blocks
      BY FirstBlockIn
    <3>2. SaveStep(n, k) \in Steps
      BY DEF SaveStep, Steps
    <3>3. n \in Names /\ version' \in 0..MaxVersion /\ k \in 1..(MaxSize + 1)
          /\ 0 \in 0..MaxSize
      BY <1>1, SizesAssumption DEF BeginSave, TypeOK, Saved
    <3>. QED
      BY <1>1, <3>1, <3>2, <3>3 DEF BeginSave, Begin, Calls
  <2>. QED
    BY <1>1, <2>1, SizesAssumption DEF BeginSave, TypeOK
<1>2. CASE BeginSaveSettings
  <2>1. op' \in Calls
    <3>1. FirstBlock(Settings) \in Blocks
      BY FirstBlockIn
    <3>2. version' \in 0..MaxVersion /\ 2 \in 1..(MaxSize + 1) /\ 0 \in 0..MaxSize
      BY <1>2, SizesAssumption DEF BeginSaveSettings, TypeOK
    <3>. QED
      BY <1>2, <3>1, <3>2, NamesAssumption DEF BeginSaveSettings, Begin, Calls, Steps
  <2>. QED
    BY <1>2, <2>1, SizesAssumption DEF BeginSaveSettings, TypeOK
<1>3. ASSUME NEW n \in Names, BeginRemove(n)
      PROVE  TypeOK'
  <2>1. FirstBlock(n) \in Blocks
    BY FirstBlockIn
  <2>2. op' \in Calls
    BY <1>3, <2>1, SizesAssumption DEF BeginRemove, Begin, Calls, Steps
  <2>. QED
    BY <1>3, <2>2 DEF BeginRemove, TypeOK
<1>4. ASSUME NEW n \in Names, NEW k \in 1..(MaxSize + 1), BeginSaveMisread(n, k)
      PROVE  TypeOK'
  <2>1. op' \in Calls
    <3>1. n \in Names /\ version' \in 0..MaxVersion /\ k \in 1..(MaxSize + 1)
          /\ 0 \in 0..MaxSize /\ 0 \in Blocks
      BY <1>4, SizesAssumption DEF BeginSaveMisread, TypeOK, Blocks
    <3>. QED
      BY <1>4, <3>1 DEF BeginSaveMisread, Begin, Calls, Steps
  <2>2. Fault /\ Doubt(n) /\ version' \in 0..MaxVersion /\ UNCHANGED <<fat, dir, data>>
    BY <1>4, SizesAssumption DEF BeginSaveMisread, TypeOK
  <2>. QED
    BY <2>1, <2>2, FaultTypes DEF TypeOK
<1>5. CASE Unlink
  BY <1>5, DirTypes DEF Unlink, Goto, TypeOK, Calls, Steps
<1>6. CASE FreeChain
  <2>1. fat' \in [Blocks -> Links]
    BY <1>6, UnlinkedType DEF FreeChain
  <2>2. op' \in Calls
    BY <1>6 DEF FreeChain, Return, Goto, TypeOK, Calls, Steps
  <2>3. kept' \in [Names -> Seq(Contents)]
    BY <1>6 DEF FreeChain, TypeOK
  <2>. QED
    BY <1>6, <2>1, <2>2, <2>3 DEF FreeChain, TypeOK, Links
<1>7. CASE Allocate
  <2>1. op.size \in Nat \ {0}
    BY SizesAssumption DEF TypeOK, Calls
  <2>2. Cardinality(FreeBlocks) >= op.size => Highest(Picked(op.size)) \in Blocks
    BY <2>1, PickedNonEmpty, PickedFree, HighestIn DEF FreeBlocks
  <2>3. op' \in Calls
    BY <1>7, <2>2 DEF Allocate, Return, TypeOK, Calls, Steps
  <2>4. fat' \in [Blocks -> Links]
    BY <1>7, LinkedType DEF Allocate, TypeOK, Links
  <2>. QED
    BY <1>7, <2>3, <2>4 DEF Allocate, TypeOK, Links
<1>8. CASE Enter
  <2>1. dir' \in [Slots -> Entries]
    BY <1>8, DirTypes DEF Enter, TypeOK
  <2>2. op' \in Calls
    BY <1>8 DEF Enter, Goto, Return, TypeOK, Calls, Steps
  <2>. QED
    BY <1>8, <2>1, <2>2 DEF Enter, TypeOK
<1>9. CASE WriteBlock
  <2>1. op' \in Calls
    BY <1>9, WriteTypes DEF WriteBlock, TypeOK, Calls
  <2>2. data' \in [Blocks -> Contents]
    BY <1>9, WriteTypes DEF WriteBlock, TypeOK, Calls
  <2>3. Image(op.name, op.version, op.size) \in Seq(Contents)
    BY ImageType DEF TypeOK, Calls
  <2>4. kept' \in [Names -> Seq(Contents)]
    BY <1>9, <2>3 DEF WriteBlock, TypeOK
  <2>. QED
    BY <1>9, <2>1, <2>2, <2>4 DEF WriteBlock, TypeOK
<1>10. CASE FatWriteFails
  <2>1. fat' \in [Blocks -> Links]
    BY <1>10, MixedType, UnlinkedType, LinkedType DEF FatWriteFails
  <2>. QED
    BY <1>10, <2>1, FaultTypes DEF FatWriteFails, Return, TypeOK, Links
<1>11. CASE DirWriteFails
  <2>1. dir' \in [Slots -> Entries]
    BY <1>11, DirTypes DEF DirWriteFails
  <2>. QED
    BY <1>11, <2>1, FaultTypes DEF DirWriteFails, Return, TypeOK
<1>12. CASE DataWriteFails
  <2>1. Torn \in 0..MaxVersion
    BY SizesAssumption DEF Torn
  <2>2. op' \in Calls
    BY <1>12, WriteTypes DEF DataWriteFails
  <2>3. data' \in [Blocks -> Contents]
    BY <1>12, <2>1, WriteTypes DEF DataWriteFails, TornBlock, TypeOK
  <2>. QED
    BY <1>12, <2>2, <2>3, FaultTypes DEF DataWriteFails, TypeOK
<1>13. CASE PowerCut
  <2>1. Torn \in 0..MaxVersion
    BY SizesAssumption DEF Torn
  <2>2. <<op.name, Torn, op.done>> \in Contents
    BY <2>1 DEF TypeOK, Calls, Contents
  <2>3. data' \in [Blocks -> Contents]
    BY <1>13, <2>2 DEF PowerCut, TornBlock, TypeOK
  <2>. QED
    BY <1>13, <2>3, FaultTypes DEF PowerCut, Return, TypeOK
<1>14. CASE UNCHANGED vars
  BY <1>14 DEF vars, TypeOK
<1>. QED
  BY <1>1, <1>2, <1>3, <1>4, <1>5, <1>6, <1>7, <1>8, <1>9, <1>10, <1>11,
     <1>12, <1>13, <1>14, MisreadCalls DEF Next, Call, Write, Failure

(* The initial card is well typed.                                         *)
LEMMA TypeInit == Init => TypeOK
<1>. SUFFICES ASSUME Init PROVE TypeOK
  OBVIOUS
<1>1. PICK n \in {OtherName} \cup Names, k \in 0..1 : FreshCard(n, k)
  BY DEF Init
<1>2. fat \in [Blocks -> Links]
  <2>1. \A b \in Blocks : b < k /\ b # k - 1 => b + 1 \in Blocks
    BY SizesAssumption DEF Blocks
  <2>2. \A b \in Blocks : ~ (b >= k) => b < k
    BY SizesAssumption DEF Blocks
  <2>. QED
    BY <1>1, <2>1, <2>2 DEF FreshCard, Links
<1>3. dir \in [Slots -> Entries]
  <2>1. 0 \in Blocks /\ (k > 0 => k \in 1..(MaxSize + 1))
    BY SizesAssumption DEF Blocks
  <2>. QED
    BY <1>1, <2>1 DEF FreshCard, Entries
<1>4. data \in [Blocks -> Contents]
  BY DEF Init, Contents
<1>. QED
  BY <1>2, <1>3, <1>4, HeadTypes, SizesAssumption DEF Init, TypeOK, Links

(* Types hold in every reachable state: no link, entry or cursor of a call *)
(* ever leaves the card.                                                   *)
THEOREM TypeCorrect == Spec => []TypeOK
BY TypeInit, TypeStep, PTL DEF Spec

(***************************************************************************)
(* Files never share blocks.  NoCrossLinks alone is not inductive: while a *)
(* removal or an allocation is between its two writes, the call's own      *)
(* chain is in no entry, and must be known to be disjoint from every       *)
(* listed file and fully allocated.                                        *)
(***************************************************************************)

PendingUnlink ==
  op.step = "unlink" => Exists(op.name) /\ dir[FileSlot(op.name)].first = op.first
PendingChain ==
  op.step \in {"freechain", "enter"} =>
    /\ Chain(op.first) \cap FreeBlocks = {}
    /\ \A s \in Slots : Chain(op.first) \cap Owned(s) = {}

FilesInv ==
  TypeOK /\ NoDanglingFile /\ NoCrossLinks /\ PendingUnlink /\ PendingChain

(* A file owns blocks of the card.                                         *)
LEMMA OwnedBlocks ==
  ASSUME TypeOK, NEW s \in Slots
  PROVE  /\ Owned(s) \subseteq Blocks
         /\ dir[s] # NoEntry => dir[s].first \in Blocks
BY ChainClosed DEF Owned, Chain, TypeOK, Entries

(* A FAT write confined to blocks outside every listed file, which frees   *)
(* no block of them, keeps each file's blocks.                             *)
LEMMA OwnedFrame ==
  ASSUME TypeOK, NEW s \in Slots, dir'[s] = dir[s],
         \A b \in Owned(s) : fat'[b] = fat[b]
  PROVE  Owned(s)' = Owned(s)
<1>1. CASE dir[s] = NoEntry
  BY <1>1 DEF Owned
<1>2. CASE dir[s] # NoEntry
  <2>1. Owned(s) = ChainIn(fat, dir[s].first)
    BY <1>2 DEF Owned, Chain
  <2>2. ChainIn(fat', dir[s].first) = ChainIn(fat, dir[s].first)
    BY <1>2, <2>1, OwnedBlocks, ChainFrame
  <2>3. Owned(s)' = ChainIn(fat', dir[s].first)
    BY <1>2 DEF Owned, Chain
  <2>. QED
    BY <2>1, <2>2, <2>3
<1>. QED
  BY <1>1, <1>2

(* The step freechain or an idle end after a FAT write outside the listed  *)
(* files keeps them intact.                                                *)
LEMMA FatWriteOutside ==
  ASSUME FilesInv, dir' = dir, fat' \in [Blocks -> Links],
         NEW C \in SUBSET Blocks,
         \A s \in Slots : C \cap Owned(s) = {},
         \A b \in Blocks \ C : fat'[b] = fat[b]
  PROVE  /\ \A s \in Slots : Owned(s)' = Owned(s)
         /\ NoDanglingFile' /\ NoCrossLinks'
<1>1. \A s \in Slots : Owned(s)' = Owned(s)
  <2>1. TAKE s \in Slots
  <2>2. \A b \in Owned(s) : fat'[b] = fat[b]
    BY OwnedBlocks DEF FilesInv
  <2>. QED
    BY <2>2, OwnedFrame DEF FilesInv
<1>2. NoDanglingFile'
  <2>1. SUFFICES ASSUME NEW s \in Slots, NEW b \in Owned(s)
                 PROVE  b \notin FreeBlocks'
    BY <1>1 DEF NoDanglingFile
  <2>2. b \in Blocks \ C
    BY OwnedBlocks DEF FilesInv
  <2>3. b \notin FreeBlocks
    BY DEF FilesInv, NoDanglingFile
  <2>. QED
    BY <2>2, <2>3 DEF FreeBlocks
<1>3. NoCrossLinks'
  BY <1>1 DEF NoCrossLinks, FilesInv
<1>. QED
  BY <1>1, <1>2, <1>3

(* Steps that touch neither the FAT nor the directory.                     *)
LEMMA CardUntouched ==
  ASSUME FilesInv, fat' = fat, dir' = dir
  PROVE  NoDanglingFile' /\ NoCrossLinks'
BY DEF FilesInv, NoDanglingFile, NoCrossLinks, Owned, Chain, FreeBlocks

(* Clearing the entry of the file being removed: what is left is intact,   *)
(* and its chain belongs to nobody else.                                   *)
LEMMA EntryCleared ==
  ASSUME FilesInv, op.step = "unlink", fat' = fat,
         dir' = [dir EXCEPT ![FileSlot(op.name)] = NoEntry]
  PROVE  /\ NoDanglingFile' /\ NoCrossLinks'
         /\ Chain(op.first) \cap FreeBlocks' = {}
         /\ \A s \in Slots : Chain(op.first) \cap Owned(s)' = {}
<1>1. PICK file \in Slots :
        /\ dir[file] # NoEntry /\ dir[file].first = op.first
        /\ dir' = [dir EXCEPT ![file] = NoEntry]
  BY FileSlotIn DEF FilesInv, PendingUnlink, Recognised
<1>2. Owned(file) = Chain(op.first)
  BY <1>1 DEF Owned
<1>3. Owned(file)' = {}
  BY <1>1 DEF Owned, FilesInv, TypeOK
<1>4. \A s \in Slots \ {file} : Owned(s)' = Owned(s)
  BY <1>1 DEF Owned, Chain, FilesInv, TypeOK
<1>5. FreeBlocks' = FreeBlocks
  BY DEF FreeBlocks
<1>6. NoDanglingFile' /\ NoCrossLinks'
  BY <1>3, <1>4, <1>5 DEF FilesInv, NoDanglingFile, NoCrossLinks
<1>7. Chain(op.first) \cap FreeBlocks' = {}
  BY <1>1, <1>2, <1>5 DEF FilesInv, NoDanglingFile
<1>8. \A s \in Slots : Chain(op.first) \cap Owned(s)' = {}
  BY <1>1, <1>2, <1>3, <1>4 DEF FilesInv, NoCrossLinks
<1>. QED
  BY <1>6, <1>7, <1>8

(* Entering the allocated chain: a file of its own blocks.                 *)
LEMMA EntryMade ==
  ASSUME FilesInv, op.step = "enter", FreeSlots # {}, fat' = fat,
         dir' = [dir EXCEPT ![First(FreeSlots)] =
                   [name |-> op.name, first |-> op.first, size |-> op.size]]
  PROVE  NoDanglingFile' /\ NoCrossLinks'
<1>1. PICK new \in Slots :
        dir' = [dir EXCEPT ![new] =
                  [name |-> op.name, first |-> op.first, size |-> op.size]]
  BY FirstIn DEF FreeSlots
<1>2. dir'[new] = [name |-> op.name, first |-> op.first, size |-> op.size]
  BY <1>1 DEF FilesInv, TypeOK
<1>3. Owned(new)' = Chain(op.first)
  <2>1. op.name # OtherName
    BY NamesAssumption DEF FilesInv, TypeOK, Calls
  <2>2. dir'[new] # NoEntry /\ dir'[new].first = op.first
    BY <1>2, <2>1 DEF NoEntry
  <2>3. Owned(new)' = ChainIn(fat', dir'[new].first)
    BY <2>2 DEF Owned, Chain
  <2>. QED
    BY <2>2, <2>3 DEF Chain
<1>4. \A s \in Slots \ {new} : Owned(s)' = Owned(s)
  BY <1>1 DEF Owned, Chain, FilesInv, TypeOK
<1>5. FreeBlocks' = FreeBlocks
  BY DEF FreeBlocks
<1>6. /\ Chain(op.first) \cap FreeBlocks = {}
      /\ \A s \in Slots : Chain(op.first) \cap Owned(s) = {}
  BY DEF FilesInv, PendingChain
<1>7. NoDanglingFile'
  BY <1>3, <1>4, <1>5, <1>6 DEF FilesInv, NoDanglingFile
<1>8. NoCrossLinks'
  BY <1>3, <1>4, <1>6 DEF FilesInv, NoCrossLinks
<1>. QED
  BY <1>7, <1>8

(* Allocation: the new chain lies within blocks that were free.            *)
LEMMA ChainAllocated ==
  ASSUME FilesInv, op.step = "allocate", Cardinality(FreeBlocks) >= op.size,
         dir' = dir, fat' = Linked(op.size)
  PROVE  /\ NoDanglingFile' /\ NoCrossLinks'
         /\ Highest(Picked(op.size)) \in Blocks
         /\ ChainIn(fat', Highest(Picked(op.size))) \cap FreeBlocks' = {}
         /\ \A s \in Slots :
              ChainIn(fat', Highest(Picked(op.size))) \cap Owned(s)' = {}
<1>. DEFINE P == Picked(op.size)
            h == Highest(P)
<1>1. P \subseteq FreeBlocks /\ P \subseteq Blocks /\ P # {}
  <2>1. op.size \in Nat \ {0}
    BY SizesAssumption DEF FilesInv, TypeOK, Calls
  <2>. QED
    BY <2>1, PickedFree, PickedNonEmpty DEF FreeBlocks
<1>2. h \in P
  BY <1>1, HighestIn
<1>3. /\ fat' \in [Blocks -> Links]
      /\ \A b \in P : fat'[b] \in P \cup {LAST}
      /\ \A b \in Blocks \ P : fat'[b] = fat[b]
  BY LinkedType DEF FilesInv
<1>4. \A s \in Slots : P \cap Owned(s) = {}
  BY <1>1 DEF FilesInv, NoDanglingFile
<1>. HIDE DEF P, h
<1>5. (\A s \in Slots : Owned(s)' = Owned(s)) /\ NoDanglingFile' /\ NoCrossLinks'
  BY <1>1, <1>3, <1>4, FatWriteOutside
<1>6. ChainIn(fat', h) \subseteq P
  <2>1. ClosedUnder(fat', P)
    BY <1>1, <1>3 DEF ClosedUnder, LAST, Blocks
  <2>. QED
    BY <1>1, <1>2, <2>1, ChainLeast
<1>7. P \cap FreeBlocks' = {}
  BY <1>1, <1>3, SizesAssumption DEF FreeBlocks, FREE, LAST, Blocks
<1>. QED
  BY <1>1, <1>2, <1>4, <1>5, <1>6, <1>7 DEF P, h

(* Freeing the removed file's chain touches no listed file.                *)
LEMMA ChainFreed ==
  ASSUME FilesInv, op.step = "freechain", dir' = dir,
         fat' \in [Blocks -> Links],
         \A b \in Blocks : fat'[b] \in {fat[b], Unlinked(op.first)[b]}
  PROVE  NoDanglingFile' /\ NoCrossLinks'
<1>1. op.first \in Blocks
  BY DEF FilesInv, TypeOK, Calls
<1>2. Chain(op.first) \subseteq Blocks
  BY <1>1, ChainClosed DEF Chain
<1>3. \A b \in Blocks \ Chain(op.first) : fat'[b] = fat[b]
  BY DEF Unlinked
<1>4. \A s \in Slots : Chain(op.first) \cap Owned(s) = {}
  BY DEF FilesInv, PendingChain
<1>. QED
  BY <1>2, <1>3, <1>4, FatWriteOutside

(* The strengthened invariant of the file layer is inductive.              *)
LEMMA FilesStep == FilesInv /\ [Next]_vars => FilesInv'
<1>. SUFFICES ASSUME FilesInv, [Next]_vars
              PROVE  FilesInv'
  OBVIOUS
<1>0. TypeOK /\ TypeOK'
  BY TypeStep DEF FilesInv
<1>1. ASSUME NEW n \in Saved, NEW k \in 1..MaxSize, BeginSave(n, k)
      PROVE  FilesInv'
  <2>1. NoDanglingFile' /\ NoCrossLinks'
    BY <1>1, CardUntouched DEF BeginSave
  <2>2. op'.name = n /\ op'.step = SaveStep(n, k) /\ op'.first = FirstBlock(n)
    BY <1>1 DEF BeginSave, Begin
  <2>3. SaveStep(n, k) \in {"write", "unlink", "allocate", "idle"}
        /\ (SaveStep(n, k) = "unlink" => Exists(n))
    BY DEF SaveStep
  <2>4. PendingUnlink'
    BY <1>1, <2>2, <2>3
    DEF PendingUnlink, BeginSave, FirstBlock, Exists, Matches, FileSlot, Recognised, HasAppId
  <2>5. PendingChain'
    BY <2>2, <2>3 DEF PendingChain
  <2>. QED
    BY <1>0, <2>1, <2>4, <2>5 DEF FilesInv
<1>2. CASE BeginSaveSettings
  <2>1. NoDanglingFile' /\ NoCrossLinks'
    BY <1>2, CardUntouched DEF BeginSaveSettings
  <2>2. op'.step \in {"write", "allocate"}
    BY <1>2 DEF BeginSaveSettings, Begin
  <2>. QED
    BY <1>0, <2>1, <2>2 DEF FilesInv, PendingUnlink, PendingChain
<1>3. ASSUME NEW n \in Names, BeginRemove(n)
      PROVE  FilesInv'
  <2>1. NoDanglingFile' /\ NoCrossLinks'
    BY <1>3, CardUntouched DEF BeginRemove
  <2>2. op'.name = n /\ op'.step = "unlink" /\ op'.first = FirstBlock(n)
    BY <1>3 DEF BeginRemove, Begin
  <2>3. PendingUnlink'
    BY <1>3, <2>2
    DEF PendingUnlink, BeginRemove, FirstBlock, Exists, Matches, FileSlot, Recognised, HasAppId
  <2>. QED
    BY <1>0, <2>1, <2>2, <2>3 DEF FilesInv, PendingChain
<1>4. ASSUME NEW n \in Names, NEW k \in 1..(MaxSize + 1), BeginSaveMisread(n, k)
      PROVE  FilesInv'
  <2>1. NoDanglingFile' /\ NoCrossLinks'
    BY <1>4, CardUntouched DEF BeginSaveMisread
  <2>2. op'.step = "allocate"
    BY <1>4 DEF BeginSaveMisread, Begin
  <2>. QED
    BY <1>0, <2>1, <2>2 DEF FilesInv, PendingUnlink, PendingChain
<1>5. CASE Unlink
  <2>1. op.step = "unlink" /\ fat' = fat
        /\ dir' = [dir EXCEPT ![FileSlot(op.name)] = NoEntry]
    BY <1>5 DEF Unlink
  <2>2. op'.step = "freechain" /\ op'.first = op.first
    BY <1>0, <1>5 DEF Unlink, Goto, TypeOK, Calls
  <2>3. PendingChain'
    BY <2>1, <2>2, EntryCleared DEF PendingChain, Chain
  <2>. QED
    BY <1>0, <2>1, <2>2, <2>3, EntryCleared DEF FilesInv, PendingUnlink
<1>6. CASE FreeChain
  <2>1. op'.step \in {"idle", "allocate"}
    BY <1>0, <1>6 DEF FreeChain, Return, Goto, Idle, TypeOK, Calls
  <2>2. NoDanglingFile' /\ NoCrossLinks'
    BY <1>0, <1>6, ChainFreed, UnlinkedType DEF FreeChain
  <2>. QED
    BY <1>0, <2>1, <2>2 DEF FilesInv, PendingUnlink, PendingChain
<1>7. CASE Allocate
  <2>1. CASE Cardinality(FreeBlocks) >= op.size
    <3>1. op.step = "allocate" /\ dir' = dir /\ fat' = Linked(op.size)
          /\ op' = [op EXCEPT !.step = "enter", !.first = Highest(Picked(op.size)),
                              !.block = Highest(Picked(op.size))]
      <4>1. op.size \in Int /\ ~ (Cardinality(FreeBlocks) < op.size)
        <5>1. op.size \in Int
          BY <1>0, SizesAssumption DEF TypeOK, Calls
        <5>2. Cardinality(FreeBlocks) \in Nat
          <6>1. IsFiniteSet(Blocks)
            BY FS_Interval, SizesAssumption DEF Blocks
          <6>. QED
            BY <6>1, FS_Subset, FS_CardinalityType DEF FreeBlocks
        <5>. QED
          BY <2>1, <5>1, <5>2
      <4>. QED
        BY <1>7, <4>1 DEF Allocate
    <3>2. op'.step = "enter" /\ op'.first = Highest(Picked(op.size))
      BY <1>0, <3>1 DEF TypeOK, Calls
    <3>3. PendingChain'
      BY <2>1, <3>1, <3>2, ChainAllocated DEF PendingChain, Chain
    <3>. QED
      BY <1>0, <2>1, <3>1, <3>2, <3>3, ChainAllocated DEF FilesInv, PendingUnlink
  <2>2. CASE ~ (Cardinality(FreeBlocks) >= op.size)
    <3>1. fat' = fat /\ dir' = dir /\ op'.step = "idle"
      BY <1>7, <2>2 DEF Allocate, Return, Idle
    <3>. QED
      BY <1>0, <3>1, CardUntouched DEF FilesInv, PendingUnlink, PendingChain
  <2>. QED
    BY <2>1, <2>2
<1>8. CASE Enter
  <2>1. op'.step \in {"idle", "write"} /\ fat' = fat /\ op.step = "enter"
    BY <1>0, <1>8 DEF Enter, Return, Goto, Idle, TypeOK, Calls
  <2>2. NoDanglingFile' /\ NoCrossLinks'
    BY <1>8, <2>1, EntryMade, CardUntouched DEF Enter
  <2>. QED
    BY <1>0, <2>1, <2>2 DEF FilesInv, PendingUnlink, PendingChain
<1>9. ASSUME WriteBlock \/ DataWriteFails
      PROVE  FilesInv'
  <2>1. fat' = fat /\ dir' = dir
    BY <1>9 DEF WriteBlock, DataWriteFails
  <2>2. PICK clean \in BOOLEAN : op.step = "write" /\ Advance(clean)
    BY <1>0, <1>9 DEF WriteBlock, DataWriteFails, TypeOK, Calls
  <2>3. op'.step \in {"idle", "write"}
    BY <1>0, <2>2, WriteTypes DEF Idle
  <2>. QED
    BY <1>0, <2>1, <2>3, CardUntouched DEF FilesInv, PendingUnlink, PendingChain
<1>10. CASE FatWriteFails
  <2>1. op'.step = "idle" /\ dir' = dir
    BY <1>10 DEF FatWriteFails, Return, Idle
  <2>2. CASE op.step = "freechain"
    <3>1. Mixed(Unlinked(op.first))
      BY <1>10, <2>2 DEF FatWriteFails
    <3>. QED
      BY <1>0, <2>1, <2>2, <3>1, MixedType, UnlinkedType, ChainFreed
      DEF FilesInv, PendingUnlink, PendingChain
  <2>3. CASE op.step # "freechain"
    <3>1. Mixed(Linked(op.size))
      BY <1>10, <2>3 DEF FatWriteFails
    <3>2. /\ fat' \in [Blocks -> Links]
          /\ \A b \in Blocks \ Picked(op.size) : fat'[b] = fat[b]
      BY <1>0, <3>1, MixedType, LinkedType
    <3>3. /\ Picked(op.size) \subseteq Blocks
          /\ \A s \in Slots : Picked(op.size) \cap Owned(s) = {}
      BY PickedFree DEF FreeBlocks, FilesInv, NoDanglingFile
    <3>. QED
      BY <1>0, <2>1, <3>2, <3>3, FatWriteOutside DEF FilesInv, PendingUnlink, PendingChain
  <2>. QED
    BY <2>2, <2>3
<1>11. CASE DirWriteFails
  <2>1. op'.step = "idle" /\ fat' = fat
    BY <1>11 DEF DirWriteFails, Return, Idle
  <2>2. NoDanglingFile' /\ NoCrossLinks'
    BY <1>11, <2>1, EntryCleared, EntryMade DEF DirWriteFails
  <2>. QED
    BY <1>0, <2>1, <2>2 DEF FilesInv, PendingUnlink, PendingChain
<1>12. CASE PowerCut
  <2>1. op'.step = "idle" /\ fat' = fat /\ dir' = dir
    BY <1>12 DEF PowerCut, Return, Idle
  <2>. QED
    BY <1>0, <2>1, CardUntouched DEF FilesInv, PendingUnlink, PendingChain
<1>13. CASE UNCHANGED vars
  BY <1>0, <1>13, CardUntouched
  DEF vars, FilesInv, PendingUnlink, PendingChain, Exists, Matches, FileSlot,
      Recognised, HasAppId, Chain, Owned, FreeBlocks
<1>. QED
  BY <1>1, <1>2, <1>3, <1>4, <1>5, <1>6, <1>7, <1>8, <1>9, <1>10, <1>11,
     <1>12, <1>13, MisreadCalls DEF Next, Call, Write, Failure

(* A formatted card, or one with another program's file, has sound files.  *)
LEMMA FilesInit == Init => FilesInv
<1>. SUFFICES ASSUME Init PROVE FilesInv
  OBVIOUS
<1>1. TypeOK
  BY TypeInit
<1>2. PICK n \in {OtherName} \cup Names, k \in 0..1 : FreshCard(n, k)
  BY DEF Init
<1>3. \A s \in Slots : dir[s] # NoEntry => s = 1 /\ k = 1 /\ dir[s].first = 0
  BY <1>2 DEF FreshCard
<1>4. NoCrossLinks
  BY <1>3 DEF NoCrossLinks, Owned
<1>5. NoDanglingFile
  <2>1. SUFFICES ASSUME NEW s \in Slots, dir[s] # NoEntry
                 PROVE  Chain(0) \cap FreeBlocks = {}
    BY <1>3 DEF NoDanglingFile, Owned
  <2>2. 0 \in Blocks /\ fat[0] = LAST
    <3>1. 0 \in Blocks
      BY SizesAssumption DEF Blocks
    <3>2. k = 1
      BY <1>3, <2>1
    <3>. QED
      BY <1>2, <3>1, <3>2 DEF FreshCard
  <2>3. Chain(0) \subseteq {0}
    <3>1. ClosedUnder(fat, {0})
      BY <2>2 DEF ClosedUnder, LAST, Blocks
    <3>. QED
      BY <2>2, <3>1, ChainLeast DEF Chain
  <2>. QED
    BY <2>2, <2>3 DEF FreeBlocks, LAST, FREE
<1>. QED
  BY <1>1, <1>4, <1>5 DEF FilesInv, PendingUnlink, PendingChain, Init, Idle

(* At every block write and after every failure, on every card: two files  *)
(* never share a block, and no file leads to a free one.                   *)
THEOREM FilesNeverShareBlocks == Spec => []NoCrossLinks
<1>1. FilesInv => NoCrossLinks
  BY DEF FilesInv
<1>. QED
  BY <1>1, FilesInit, FilesStep, PTL DEF Spec

(* No directory entry ever leads to a free block, whatever was cut short.  *)
THEOREM FilesNeverDangle == Spec => []NoDanglingFile
<1>1. FilesInv => NoDanglingFile
  BY DEF FilesInv
<1>. QED
  BY <1>1, FilesInit, FilesStep, PTL DEF Spec

(* Induction, stated for a set of naturals.                                *)
LEMMA NatInd ==
  ASSUME NEW S, 0 \in S, \A n \in Nat : n \in S => n + 1 \in S
  PROVE  Nat \subseteq S
<1>1. SUFFICES ASSUME Nat \ S # {} PROVE FALSE
  OBVIOUS
<1>2. PICK m \in Nat \ S : \A n \in Nat \ S : m <= n
  BY <1>1, NatMin
<1>3. m # 0 /\ m - 1 \in Nat
  OBVIOUS
<1>4. m - 1 \in S
  BY <1>2, <1>3
<1>5. (m - 1) + 1 = m
  OBVIOUS
<1>. QED
  BY <1>2, <1>3, <1>4, <1>5

(* One step of the walk along the chain.                                   *)
NextOn(f, x) == IF x \in Blocks THEN f[x] ELSE x

IsWalk(f, b, n, g) ==
  g = [k \in 0..n |-> IF k = 0 THEN b ELSE NextOn(f, g[k - 1])]

(* The walk along a chain that the recursive function Visit computes exists.*)
LEMMA WalkExists ==
  ASSUME NEW f, NEW b, NEW n \in Nat
  PROVE  \E g : IsWalk(f, b, n, g)
<1>. DEFINE S == {m \in Nat : \E g : IsWalk(f, b, m, g)}
<1>1. 0 \in S
  <2>1. IsWalk(f, b, 0, [k \in 0..0 |-> b])
    BY DEF IsWalk
  <2>. QED
    BY <2>1
<1>2. ASSUME NEW m \in Nat, m \in S PROVE m + 1 \in S
  <2>1. PICK g : IsWalk(f, b, m, g)
    BY <1>2
  <2>. DEFINE h == [k \in 0..(m + 1) |-> IF k = m + 1 THEN NextOn(f, g[m]) ELSE g[k]]
  <2>2. ASSUME NEW k \in 0..(m + 1)
        PROVE  h[k] = IF k = 0 THEN b ELSE NextOn(f, h[k - 1])
    <3>1. CASE k = m + 1
      BY <3>1
    <3>2. CASE k # m + 1
      <4>1. k \in 0..m /\ (k # 0 => k - 1 \in 0..m /\ k - 1 # m + 1)
        BY <3>2
      <4>2. h[k] = g[k] /\ (k # 0 => h[k - 1] = g[k - 1])
        BY <4>1
      <4>3. g[k] = IF k = 0 THEN b ELSE NextOn(f, g[k - 1])
        BY <2>1, <4>1 DEF IsWalk
      <4>. QED
        BY <4>2, <4>3
    <3>. QED
      BY <3>1, <3>2
  <2>3. IsWalk(f, b, m + 1, h)
    BY <2>2 DEF IsWalk
  <2>. QED
    BY <2>3
<1>. HIDE DEF S
<1>3. n \in S
  BY <1>1, <1>2, NatInd
<1>. QED
  BY <1>3 DEF S

(* Hence Visit satisfies its defining equations.                           *)
LEMMA VisitDef ==
  ASSUME NEW f, NEW b
  PROVE  /\ VisitIn(f, b)[0] = b
         /\ \A k \in 0..(NumBlocks - 1) :
              VisitIn(f, b)[k + 1] = NextOn(f, VisitIn(f, b)[k])
<1>1. VisitIn(f, b) = CHOOSE g : IsWalk(f, b, NumBlocks, g)
  BY DEF VisitIn, IsWalk, NextOn
<1>2. NumBlocks \in Nat
  BY SizesAssumption
<1>3. IsWalk(f, b, NumBlocks, VisitIn(f, b))
  BY <1>1, <1>2, WalkExists
<1>. QED
  BY <1>2, <1>3 DEF IsWalk

(* The n blocks of a sound chain: all on the card, then the end mark.      *)
SoundChain(f, b, n) ==
  /\ n \in 1..NumBlocks
  /\ \A k \in 0..(n - 1) : VisitIn(f, b)[k] \in Blocks
  /\ VisitIn(f, b)[n] = LAST

(* The end mark and the free mark are no blocks; the card is finite.       *)
LEMMA EndMarks ==
  /\ LAST \notin Blocks /\ FREE \notin Blocks /\ LAST # FREE
  /\ NumBlocks \in Nat /\ 0 \in Blocks
  /\ IsFiniteSet(Blocks) /\ Cardinality(Blocks) = NumBlocks
<1>1. NumBlocks \in Nat /\ 0 \in Blocks
  BY SizesAssumption DEF Blocks
<1>2. IsFiniteSet(Blocks) /\ Cardinality(Blocks) = NumBlocks
  BY FS_Interval, SizesAssumption DEF Blocks
<1>. QED
  BY <1>1, <1>2 DEF LAST, FREE, Blocks

(* On a sound chain the next block is the FAT link of this one.            *)
LEMMA SoundNext ==
  ASSUME NEW f, NEW b, NEW n, SoundChain(f, b, n), NEW k \in 0..(n - 1)
  PROVE  VisitIn(f, b)[k + 1] = f[VisitIn(f, b)[k]]
<1>1. k \in 0..(NumBlocks - 1)
  BY EndMarks DEF SoundChain
<1>. QED
  BY <1>1, VisitDef DEF NextOn, SoundChain

(* The walk along a sound chain never meets a block twice.                 *)
LEMMA SoundDistinct ==
  ASSUME NEW f, NEW b, NEW n, SoundChain(f, b, n),
         NEW i \in 0..(n - 1), NEW j \in 0..(n - 1), i < j
  PROVE  VisitIn(f, b)[i] # VisitIn(f, b)[j]
<1>. DEFINE V == VisitIn(f, b)
            S == {d \in Nat : j + d <= n => V[i + d] = V[j + d]}
<1>0. n \in Nat /\ i \in Nat /\ j \in Nat
  BY EndMarks DEF SoundChain
<1>1. SUFFICES ASSUME V[i] = V[j] PROVE FALSE
  OBVIOUS
<1>2. 0 \in S
  BY <1>0, <1>1
<1>3. ASSUME NEW d \in Nat, d \in S PROVE d + 1 \in S
  <2>1. SUFFICES ASSUME j + (d + 1) <= n PROVE V[i + (d + 1)] = V[j + (d + 1)]
    OBVIOUS
  <2>2. i + d \in 0..(n - 1) /\ j + d \in 0..(n - 1) /\ j + d <= n
    BY <1>0, <2>1
  <2>3. V[i + d] = V[j + d]
    BY <1>3, <2>2
  <2>4. V[(i + d) + 1] = f[V[i + d]] /\ V[(j + d) + 1] = f[V[j + d]]
    BY <2>2, SoundNext
  <2>5. (i + d) + 1 = i + (d + 1) /\ (j + d) + 1 = j + (d + 1)
    BY <1>0
  <2>. QED
    BY <2>3, <2>4, <2>5
<1>. HIDE DEF S
<1>4. n - j \in S
  BY <1>0, <1>2, <1>3, NatInd
<1>5. V[i + (n - j)] = V[n]
  <2>1. j + (n - j) = n
    BY <1>0
  <2>. QED
    BY <1>0, <1>4, <2>1 DEF S
<1>6. i + (n - j) \in 0..(n - 1)
  BY <1>0
<1>. QED
  BY <1>5, <1>6, EndMarks DEF SoundChain

(* The blocks of a sound chain are those its walk visits.                  *)
LEMMA SoundBlocks ==
  ASSUME NEW f, NEW b, NEW n, SoundChain(f, b, n)
  PROVE  /\ b \in Blocks
         /\ ChainIn(f, b) = {VisitIn(f, b)[k] : k \in 0..(n - 1)}
<1>. DEFINE V == VisitIn(f, b)
            W == {V[k] : k \in 0..(n - 1)}
            S == {d \in Nat : d <= n - 1 => V[d] \in ChainIn(f, b)}
<1>0. n \in Nat /\ n >= 1
  BY EndMarks DEF SoundChain
<1>1. V[0] = b /\ b \in W /\ b \in Blocks
  BY <1>0, VisitDef DEF SoundChain
<1>2. W \in SUBSET Blocks
  BY DEF SoundChain
<1>3. ClosedUnder(f, W)
  <2>1. SUFFICES ASSUME NEW k \in 0..(n - 1), f[V[k]] \in Blocks
                 PROVE  f[V[k]] \in W
    BY DEF ClosedUnder
  <2>2. V[k + 1] = f[V[k]]
    BY SoundNext
  <2>3. k + 1 # n
    BY <2>1, <2>2, EndMarks DEF SoundChain
  <2>4. k + 1 \in 0..(n - 1)
    BY <1>0, <2>3
  <2>. QED
    BY <2>2, <2>4
<1>4. ChainIn(f, b) \subseteq W
  BY <1>1, <1>2, <1>3, ChainLeast
<1>5. 0 \in S
  BY <1>1, ChainClosed
<1>6. ASSUME NEW d \in Nat, d \in S PROVE d + 1 \in S
  <2>1. SUFFICES ASSUME d + 1 <= n - 1 PROVE V[d + 1] \in ChainIn(f, b)
    OBVIOUS
  <2>2. d \in 0..(n - 1) /\ d + 1 \in 0..(n - 1)
    BY <1>0, <2>1
  <2>3. V[d + 1] = f[V[d]] /\ V[d] \in ChainIn(f, b) /\ V[d + 1] \in Blocks
    BY <1>0, <1>6, <2>2, SoundNext DEF SoundChain
  <2>. QED
    BY <1>1, <2>3, ChainClosed DEF ClosedUnder
<1>. HIDE DEF S
<1>7. \A k \in 0..(n - 1) : k \in S
  BY <1>0, <1>5, <1>6, NatInd
<1>8. W \subseteq ChainIn(f, b)
  BY <1>0, <1>7 DEF S
<1>. QED
  BY <1>1, <1>4, <1>8

(* It has as many blocks as its length says.                               *)
LEMMA SoundCount ==
  ASSUME NEW f, NEW b, NEW n, SoundChain(f, b, n)
  PROVE  /\ IsFiniteSet(ChainIn(f, b))
         /\ Cardinality(ChainIn(f, b)) = n
<1>. DEFINE g == [k \in 0..(n - 1) |-> VisitIn(f, b)[k]]
<1>0. n \in Nat /\ n >= 1
  BY EndMarks DEF SoundChain
<1>1. ASSUME NEW i \in 0..(n - 1), NEW j \in 0..(n - 1), i # j
      PROVE  VisitIn(f, b)[i] # VisitIn(f, b)[j]
  <2>1. i < j \/ j < i
    BY <1>0, <1>1
  <2>. QED
    BY <2>1, SoundDistinct
<1>2. g \in Bijection(0..(n - 1), ChainIn(f, b))
  BY <1>1, SoundBlocks DEF Bijection, Injection, Surjection, IsInjective
<1>3. ExistsBijection(0..(n - 1), ChainIn(f, b))
  BY <1>2 DEF ExistsBijection
<1>4. IsFiniteSet(0..(n - 1)) /\ Cardinality(0..(n - 1)) = n
  BY <1>0, FS_Interval
<1>. QED
  BY <1>3, <1>4, FS_Bijection

(* A FAT write that changes no link of a sound chain keeps its walk.       *)
LEMMA WalkFrame ==
  ASSUME NEW f, NEW g, NEW b, NEW n, SoundChain(f, b, n),
         \A c \in ChainIn(f, b) : g[c] = f[c]
  PROVE  /\ \A k \in 0..n : VisitIn(g, b)[k] = VisitIn(f, b)[k]
         /\ SoundChain(g, b, n)
<1>. DEFINE S == {d \in Nat : d <= n => VisitIn(g, b)[d] = VisitIn(f, b)[d]}
<1>0. n \in Nat /\ n >= 1 /\ n <= NumBlocks /\ NumBlocks \in Nat
  BY EndMarks DEF SoundChain
<1>1. 0 \in S
  BY VisitDef
<1>2. ASSUME NEW d \in Nat, d \in S PROVE d + 1 \in S
  <2>1. SUFFICES ASSUME d + 1 <= n PROVE VisitIn(g, b)[d + 1] = VisitIn(f, b)[d + 1]
    OBVIOUS
  <2>2. d \in 0..(n - 1) /\ d \in 0..(NumBlocks - 1) /\ d <= n
    BY <1>0, <2>1
  <2>3. VisitIn(g, b)[d] = VisitIn(f, b)[d] /\ VisitIn(f, b)[d] \in Blocks
    BY <1>2, <2>2 DEF SoundChain
  <2>4. VisitIn(f, b)[d] \in ChainIn(f, b)
    BY <2>2, SoundBlocks
  <2>5. VisitIn(g, b)[d + 1] = g[VisitIn(g, b)[d]]
    BY <2>2, <2>3, VisitDef DEF NextOn
  <2>6. VisitIn(f, b)[d + 1] = f[VisitIn(f, b)[d]]
    BY <2>2, SoundNext
  <2>. QED
    BY <2>3, <2>4, <2>5, <2>6
<1>. HIDE DEF S
<1>3. \A k \in 0..n : k \in S
  BY <1>0, <1>1, <1>2, NatInd
<1>4. \A k \in 0..n : VisitIn(g, b)[k] = VisitIn(f, b)[k]
  BY <1>0, <1>3 DEF S
<1>5. n \in 0..n /\ \A k \in 0..(n - 1) : k \in 0..n
  BY <1>0
<1>. QED
  BY <1>4, <1>5 DEF SoundChain

Above(b) == {c \in FreeBlocks : c > b}

(* The free blocks can be counted.                                         *)
LEMMA FreeFinite ==
  /\ FreeBlocks \subseteq Blocks /\ Blocks \subseteq Int
  /\ IsFiniteSet(FreeBlocks) /\ Cardinality(FreeBlocks) \in Nat
  /\ Cardinality(FreeBlocks) <= NumBlocks
  /\ \A b : IsFiniteSet(Above(b)) /\ Cardinality(Above(b)) \in Nat
<1>1. FreeBlocks \subseteq Blocks /\ Blocks \subseteq Int
  BY SizesAssumption DEF FreeBlocks, Blocks
<1>2. /\ IsFiniteSet(FreeBlocks) /\ Cardinality(FreeBlocks) \in Nat
      /\ Cardinality(FreeBlocks) <= NumBlocks
  BY <1>1, EndMarks, FS_Subset, FS_CardinalityType
<1>3. \A b : Above(b) \subseteq FreeBlocks
  BY DEF Above
<1>. QED
  BY <1>1, <1>2, <1>3, FS_Subset, FS_CardinalityType

(* A free block with room above it is outranked by one block more than the *)
(* free block next above it: ranks are what allocate_blocks_on_fat counts. *)
LEMMA NextRank ==
  ASSUME NEW b \in FreeBlocks, NEW x \in FreeBlocks, x < b,
         \A c \in FreeBlocks : c < b => c <= x
  PROVE  Cardinality(Above(x)) = Cardinality(Above(b)) + 1
<1>0. \A c \in FreeBlocks : c \in Int
  BY FreeFinite
<1>1. \A c \in FreeBlocks : c > x <=> (c > b \/ c = b)
  BY <1>0
<1>2. Above(x) = Above(b) \cup {b}
  BY <1>1 DEF Above
<1>3. b \notin Above(b)
  BY <1>0 DEF Above
<1>. QED
  BY <1>2, <1>3, FreeFinite, FS_AddElement

(* Of two free blocks the lower has more free blocks above it.             *)
LEMMA RankOrder ==
  ASSUME NEW x \in FreeBlocks, NEW y \in FreeBlocks, x < y
  PROVE  Cardinality(Above(y)) < Cardinality(Above(x))
<1>0. \A c \in FreeBlocks : c \in Int
  BY FreeFinite
<1>a. y > x /\ ~ (y > y) /\ \A c \in FreeBlocks : c > y => c > x
  BY <1>0
<1>1. Above(y) \in SUBSET Above(x) /\ y \in Above(x) /\ y \notin Above(y)
  BY <1>a DEF Above
<1>2. Cardinality(Above(y)) <= Cardinality(Above(x))
      /\ Cardinality(Above(y)) # Cardinality(Above(x))
  BY <1>1, FreeFinite, FS_Subset
<1>. QED
  BY <1>2, FreeFinite

(* While fewer blocks outrank b than are free, but for b, one lies below.  *)
LEMMA MoreBelow ==
  ASSUME NEW b \in FreeBlocks,
         Cardinality(Above(b)) + 1 < Cardinality(FreeBlocks)
  PROVE  {c \in FreeBlocks : c < b} # {}
<1>1. SUFFICES ASSUME {c \in FreeBlocks : c < b} = {} PROVE FALSE
  OBVIOUS
<1>0. \A c \in FreeBlocks : c \in Int
  BY FreeFinite
<1>a. ~ (b > b) /\ \A c \in FreeBlocks : c > b \/ c = b
  BY <1>0, <1>1
<1>2. FreeBlocks = Above(b) \cup {b} /\ b \notin Above(b)
  BY <1>a DEF Above
<1>3. Cardinality(FreeBlocks) = Cardinality(Above(b)) + 1
  BY <1>2, FreeFinite, FS_AddElement
<1>. QED
  BY <1>3, FreeFinite

(* The picked blocks are those with fewer than n free blocks above.        *)
LEMMA PickedRank ==
  ASSUME NEW n
  PROVE  Picked(n) = {b \in FreeBlocks : Cardinality(Above(b)) < n}
BY DEF Picked, Above

(* The highest picked block is the highest free one.                       *)
LEMMA TopRank ==
  ASSUME NEW n \in Nat \ {0}, Cardinality(FreeBlocks) >= n
  PROVE  /\ Highest(Picked(n)) \in FreeBlocks
         /\ Cardinality(Above(Highest(Picked(n)))) = 0
<1>. DEFINE h == Highest(Picked(n))
<1>1. Picked(n) # {} /\ Picked(n) \in SUBSET Blocks
  BY PickedNonEmpty, PickedFree, FreeFinite
<1>2. h \in Picked(n) /\ \A c \in Picked(n) : c <= h
  BY <1>1, HighestIn
<1>3. h \in FreeBlocks
  BY <1>2, PickedFree
<1>. HIDE DEF h
<1>4. ASSUME NEW c \in FreeBlocks, c > h PROVE FALSE
  <2>1. Cardinality(Above(c)) < Cardinality(Above(h)) /\ Cardinality(Above(h)) < n
    BY <1>2, <1>3, <1>4, RankOrder, PickedRank, FreeFinite
  <2>2. c \in Picked(n)
    BY <2>1, PickedRank, FreeFinite
  <2>. QED
    BY <1>2, <1>3, <1>4, <2>2, FreeFinite
<1>5. Above(h) = {}
  BY <1>4 DEF Above
<1>6. Cardinality(Above(h)) = 0
  BY <1>5, FS_EmptySet
<1>. QED
  BY <1>3, <1>6 DEF h

(* One link of allocate_blocks_on_fat.                                     *)
LEMMA LinkRank ==
  ASSUME NEW n \in Nat \ {0}, Cardinality(FreeBlocks) >= n,
         NEW b \in FreeBlocks, NEW k \in 0..(n - 1), Cardinality(Above(b)) = k
  PROVE  /\ k = n - 1 => Linked(n)[b] = LAST
         /\ k < n - 1 => /\ Linked(n)[b] \in FreeBlocks
                         /\ Cardinality(Above(Linked(n)[b])) = k + 1
<1>. DEFINE below == {c \in Picked(n) : c < b}
<1>1. b \in Picked(n) /\ b \in Blocks
  BY PickedRank, FreeFinite
<1>2. Linked(n)[b] = IF below = {} THEN LAST ELSE Highest(below)
  BY <1>1 DEF Linked
<1>3. ASSUME k = n - 1 PROVE below = {}
  <2>1. SUFFICES ASSUME NEW c \in Picked(n), c < b PROVE FALSE
    OBVIOUS
  <2>2. c \in FreeBlocks /\ Cardinality(Above(c)) < n
    BY PickedRank
  <2>3. Cardinality(Above(b)) < Cardinality(Above(c))
    BY <2>1, <2>2, RankOrder
  <2>. QED
    BY <1>3, <2>2, <2>3, FreeFinite
<1>4. ASSUME k < n - 1
      PROVE  /\ below # {}
             /\ Highest(below) \in FreeBlocks
             /\ Cardinality(Above(Highest(below))) = k + 1
  <2>. DEFINE T == {c \in FreeBlocks : c < b}
              x == Highest(T)
  <2>1. T # {}
    BY <1>4, MoreBelow, FreeFinite
  <2>2. T \in SUBSET Blocks
    BY FreeFinite
  <2>3. x \in T /\ \A c \in T : c <= x
    BY <2>1, <2>2, HighestIn
  <2>4. x \in FreeBlocks /\ x < b /\ Cardinality(Above(x)) = k + 1
    BY <2>3, NextRank
  <2>5. x \in below
    BY <1>4, <2>4, PickedRank
  <2>6. below \in SUBSET Blocks
    BY <2>2, PickedFree, FreeFinite
  <2>7. Highest(below) \in below /\ \A c \in below : c <= Highest(below)
    BY <2>5, <2>6, HighestIn
  <2>8. Highest(below) \in T
    BY <2>7, PickedFree
  <2>9. Highest(below) = x
    <3>1. Highest(below) <= x /\ x <= Highest(below)
      BY <2>3, <2>5, <2>7, <2>8
    <3>2. Highest(below) \in Int /\ x \in Int
      BY <2>2, <2>3, <2>8, FreeFinite
    <3>. QED
      BY <3>1, <3>2
  <2>. QED
    BY <2>4, <2>5, <2>9
<1>. QED
  BY <1>2, <1>3, <1>4

(* The allocated chain is sound: exactly as many blocks as were asked for, *)
(* all of them free before, and the end mark after the last.               *)
LEMMA AllocatedChain ==
  ASSUME NEW n \in Nat \ {0}, Cardinality(FreeBlocks) >= n
  PROVE  /\ SoundChain(Linked(n), Highest(Picked(n)), n)
         /\ ChainIn(Linked(n), Highest(Picked(n))) = Picked(n)
<1>. DEFINE h == Highest(Picked(n))
            V == VisitIn(Linked(n), h)
            S == {d \in Nat : d <= n - 1 =>
                    V[d] \in FreeBlocks /\ Cardinality(Above(V[d])) = d}
<1>0. n \in 1..NumBlocks /\ NumBlocks \in Nat
  BY FreeFinite, EndMarks
<1>1. 0 \in S
  BY TopRank, VisitDef
<1>2. ASSUME NEW d \in Nat, d \in S PROVE d + 1 \in S
  <2>1. SUFFICES ASSUME d + 1 <= n - 1
                 PROVE  V[d + 1] \in FreeBlocks /\ Cardinality(Above(V[d + 1])) = d + 1
    OBVIOUS
  <2>2. d \in 0..(n - 1) /\ d < n - 1 /\ d \in 0..(NumBlocks - 1)
    BY <1>0, <2>1
  <2>3. V[d] \in FreeBlocks /\ Cardinality(Above(V[d])) = d
    BY <1>2, <2>2
  <2>4. V[d + 1] = Linked(n)[V[d]]
    BY <2>2, <2>3, VisitDef, FreeFinite DEF NextOn
  <2>. QED
    BY <2>2, <2>3, <2>4, LinkRank
<1>. HIDE DEF S
<1>3. \A k \in 0..(n - 1) : k \in S
  BY <1>1, <1>2, NatInd
<1>4. \A k \in 0..(n - 1) : V[k] \in FreeBlocks /\ Cardinality(Above(V[k])) = k
  BY <1>3 DEF S
<1>5. V[n] = LAST
  <2>1. n - 1 \in 0..(n - 1) /\ n - 1 \in 0..(NumBlocks - 1) /\ (n - 1) + 1 = n
    BY <1>0
  <2>2. V[n - 1] \in FreeBlocks /\ Cardinality(Above(V[n - 1])) = n - 1
    BY <1>4, <2>1
  <2>3. V[(n - 1) + 1] = Linked(n)[V[n - 1]]
    BY <2>1, <2>2, VisitDef, FreeFinite DEF NextOn
  <2>4. n - 1 \in 0..(n - 1)
    BY <2>1
  <2>. QED
    BY <2>1, <2>2, <2>3, <2>4, LinkRank
<1>6. SoundChain(Linked(n), h, n)
  BY <1>0, <1>4, <1>5, FreeFinite DEF SoundChain
<1>7. ChainIn(Linked(n), h) = {V[k] : k \in 0..(n - 1)}
  BY <1>6, SoundBlocks
<1>8. \A k \in 0..(n - 1) : V[k] \in Picked(n)
  BY <1>4, PickedRank
<1>9. ASSUME NEW x \in Picked(n) PROVE \E k \in 0..(n - 1) : x = V[k]
  <2>. DEFINE k == Cardinality(Above(x))
  <2>1. x \in FreeBlocks /\ k \in 0..(n - 1)
    BY PickedRank, FreeFinite
  <2>2. V[k] \in FreeBlocks /\ Cardinality(Above(V[k])) = k
    BY <1>4, <2>1
  <2>3. ~ (x < V[k]) /\ ~ (V[k] < x)
    <3>1. ~ (k < k)
      BY <2>1
    <3>. QED
      BY <2>1, <2>2, <3>1, RankOrder
  <2>4. x \in Int /\ V[k] \in Int
    BY <2>1, <2>2, FreeFinite
  <2>5. x = V[k]
    BY <2>3, <2>4
  <2>. QED
    BY <2>1, <2>5
<1>. QED
  BY <1>6, <1>7, <1>8, <1>9

(***************************************************************************)
(* What a step may change.                                                 *)
(***************************************************************************)

(* A FAT write of a call only touches blocks outside every listed file.    *)
LEMMA OwnedLinksKept ==
  ASSUME FilesInv, [Next]_vars, NEW s \in Slots, NEW b \in Owned(s)
  PROVE  fat'[b] = fat[b]
<1>0. b \in Blocks /\ b \notin FreeBlocks
  BY OwnedBlocks DEF FilesInv, NoDanglingFile
<1>1. Linked(op.size)[b] = fat[b]
  BY <1>0, PickedFree, LinkedType DEF FilesInv
<1>2. op.step = "freechain" => Unlinked(op.first)[b] = fat[b]
  BY <1>0 DEF FilesInv, PendingChain, Unlinked
<1>3. CASE FreeChain
  BY <1>2, <1>3 DEF FreeChain
<1>4. CASE Allocate
  BY <1>1, <1>4 DEF Allocate
<1>5. CASE FatWriteFails
  <2>1. CASE op.step = "freechain" /\ Mixed(Unlinked(op.first))
    BY <1>0, <1>2, <2>1 DEF Mixed
  <2>2. CASE Mixed(Linked(op.size))
    BY <1>0, <1>1, <2>2 DEF Mixed
  <2>. QED
    BY <1>5, <2>1, <2>2 DEF FatWriteFails
<1>6. CASE ~ (FreeChain \/ Allocate \/ FatWriteFails)
  BY <1>6 DEF Next, Call, Write, Failure, BeginSave, BeginSaveSettings, BeginRemove,
              BeginSaveMisread, Unlink, Enter, WriteBlock, DirWriteFails,
              DataWriteFails, PowerCut, vars
<1>. QED
  BY <1>3, <1>4, <1>5, <1>6

Entry == [name |-> op.name, first |-> op.first, size |-> op.size]
Cleared(s) == /\ op.step = "unlink"
              /\ s = FileSlot(op.name) /\ Recognised(s, op.name)
              /\ dir'[s] = NoEntry
Entered(s) == /\ op.step = "enter" /\ fat' = fat /\ data' = data
              /\ s = First(FreeSlots) /\ s \in FreeSlots
              /\ dir'[s] = Entry

(* A directory write clears the entry of the call's file, or fills a free  *)
(* one.                                                                    *)
LEMMA EntriesKept ==
  ASSUME FilesInv, [Next]_vars, NEW s \in Slots
  PROVE  dir'[s] = dir[s] \/ Cleared(s) \/ Entered(s)
<1>0. dir \in [Slots -> Entries]
  BY DEF FilesInv, TypeOK
<1>1. ASSUME op.step = "unlink", dir' = [dir EXCEPT ![FileSlot(op.name)] = NoEntry]
      PROVE  dir'[s] = dir[s] \/ Cleared(s)
  BY <1>0, <1>1, FileSlotIn DEF Cleared, FilesInv, PendingUnlink
<1>2. ASSUME op.step = "enter", FreeSlots # {}, fat' = fat, data' = data,
             dir' = [dir EXCEPT ![First(FreeSlots)] =
                       [name |-> op.name, first |-> op.first, size |-> op.size]]
      PROVE  dir'[s] = dir[s] \/ Entered(s)
  <2>1. First(FreeSlots) \in FreeSlots
    BY <1>2, FirstIn DEF FreeSlots
  <2>. QED
    BY <1>0, <1>2, <2>1 DEF Entered, Entry
<1>3. CASE Unlink
  BY <1>1, <1>3 DEF Unlink
<1>4. CASE Enter
  BY <1>2, <1>4 DEF Enter
<1>5. CASE DirWriteFails
  BY <1>1, <1>2, <1>5 DEF DirWriteFails
<1>6. CASE ~ (Unlink \/ Enter \/ DirWriteFails)
  BY <1>6 DEF Next, Call, Write, Failure, BeginSave, BeginSaveSettings, BeginRemove,
              BeginSaveMisread, FreeChain, Allocate, WriteBlock, FatWriteFails,
              DataWriteFails, PowerCut, vars
<1>. QED
  BY <1>3, <1>4, <1>5, <1>6

(* A data write changes the block the call's cursor is on, and no other.   *)
LEMMA BlocksKept ==
  ASSUME FilesInv, [Next]_vars, NEW b \in Blocks
  PROVE  \/ data'[b] = data[b]
         \/ /\ op.step = "write" /\ b = op.block /\ dir' = dir /\ fat' = fat
            /\ data'[b] \in {<<op.name, op.version, op.done>>, <<op.name, Torn, op.done>>}
<1>0. data \in [Blocks -> Contents]
  BY DEF FilesInv, TypeOK
<1>1. CASE WriteBlock
  BY <1>0, <1>1 DEF WriteBlock
<1>2. CASE DataWriteFails
  BY <1>0, <1>2 DEF DataWriteFails, TornBlock
<1>3. CASE PowerCut
  BY <1>0, <1>3 DEF PowerCut, TornBlock
<1>4. CASE ~ (WriteBlock \/ DataWriteFails \/ PowerCut)
  BY <1>4 DEF Next, Call, Write, Failure, BeginSave, BeginSaveSettings, BeginRemove,
              BeginSaveMisread, Unlink, FreeChain, Allocate, Enter, FatWriteFails,
              DirWriteFails, vars
<1>. QED
  BY <1>1, <1>2, <1>3, <1>4

(***************************************************************************)
(* Every file's chain is as long as its entry says.  On the way: the chain *)
(* about to be entered is, there is room for every allocation the code     *)
(* starts, and a call writes along the chain of a listed file.             *)
(***************************************************************************)

SoundFiles ==
  \A s \in Slots : dir[s] # NoEntry => SoundChain(fat, dir[s].first, dir[s].size)

SoundEnter ==
  /\ op.step = "enter" => SoundChain(fat, op.first, op.size) /\ op.block = op.first
  /\ op.step \in {"unlink", "freechain", "allocate", "enter"} => op.done = 0

RoomLeft ==
  /\ op.step = "allocate" => Cardinality(FreeBlocks) >= op.size
  /\ op.step \in {"unlink", "freechain"} /\ op.kind = "save" =>
       Cardinality(Chain(op.first) \cup FreeBlocks) >= op.size

SettingsSize ==
  /\ \A s \in Slots : Recognised(s, Settings) => dir[s].size = 2
  /\ op.step # "idle" /\ op.kind = "save" /\ op.name = Settings => op.size = 2
  /\ op.step \in {"allocate", "enter", "write"} => op.kind = "save"

WriteTarget ==
  op.step = "write" =>
    \E w \in Slots :
      /\ dir[w] = Entry
      /\ op.done \in 0..(op.size - 1)
      /\ op.block = VisitIn(fat, op.first)[op.done]

ChainsInv ==
  FilesInv /\ SoundFiles /\ SoundEnter /\ RoomLeft /\ SettingsSize /\ WriteTarget

(* A listed file has a name, blocks and a size.                            *)
LEMMA EntryTypes ==
  ASSUME TypeOK, NEW s \in Slots, dir[s] # NoEntry
  PROVE  /\ dir[s] = [name |-> dir[s].name, first |-> dir[s].first, size |-> dir[s].size]
         /\ dir[s].first \in Blocks /\ dir[s].size \in 1..(MaxSize + 1)
         /\ dir[s].first \in Owned(s)
         /\ Owned(s) = ChainIn(fat, dir[s].first)
<1>1. dir[s] \in [name: Names \cup {OtherName}, first: Blocks, size: 1..(MaxSize + 1)]
  BY DEF TypeOK, Entries
<1>2. Owned(s) = ChainIn(fat, dir[s].first)
  BY DEF Owned, Chain
<1>. QED
  BY <1>1, <1>2, ChainClosed

(* Types of the call's local variables.                                    *)
LEMMA OpTypes ==
  ASSUME TypeOK
  PROVE  /\ op.name \in Names /\ op.name # OtherName
         /\ op.first \in Blocks /\ op.block \in Blocks
         /\ op.size \in Nat \ {0} /\ op.done \in Nat
         /\ op.version \in 0..MaxVersion /\ op.clean \in BOOLEAN
         /\ op.kind \in {"save", "remove"} /\ op.step \in Steps
         /\ Entry # NoEntry
<1>1. op \in Calls
  BY DEF TypeOK
<1>2. op.name \in Names /\ op.name # OtherName
  BY <1>1, NamesAssumption DEF Calls
<1>3. Entry.name # NoEntry.name
  BY <1>2 DEF Entry, NoEntry
<1>. QED
  BY <1>1, <1>2, <1>3, SizesAssumption DEF Calls

(* The block being written belongs to the file being written.              *)
LEMMA CursorOwned ==
  ASSUME ChainsInv, op.step = "write"
  PROVE  \E w \in Slots :
           /\ dir[w] = Entry /\ dir[w] # NoEntry
           /\ op.block \in Owned(w)
           /\ SoundChain(fat, op.first, op.size)
           /\ op.done \in 0..(op.size - 1)
           /\ op.block = VisitIn(fat, op.first)[op.done]
<1>1. PICK w \in Slots :
        /\ dir[w] = Entry
        /\ op.done \in 0..(op.size - 1)
        /\ op.block = VisitIn(fat, op.first)[op.done]
  BY DEF ChainsInv, WriteTarget
<1>2. dir[w] # NoEntry /\ dir[w].first = op.first /\ dir[w].size = op.size
  BY <1>1, OpTypes DEF ChainsInv, FilesInv, Entry
<1>3. SoundChain(fat, op.first, op.size)
  BY <1>2 DEF ChainsInv, SoundFiles
<1>4. Owned(w) = ChainIn(fat, op.first)
  BY <1>2 DEF Owned, Chain
<1>. QED
  BY <1>1, <1>2, <1>3, <1>4, SoundBlocks

(* A step keeps the chain of every listed file sound.                      *)
LEMMA SoundFilesStep ==
  ASSUME ChainsInv, [Next]_vars
  PROVE  SoundFiles'
<1>1. SUFFICES ASSUME NEW s \in Slots, dir'[s] # NoEntry
               PROVE  SoundChain(fat', dir'[s].first, dir'[s].size)
  BY DEF SoundFiles
<1>2. CASE dir'[s] = dir[s]
  <2>1. /\ SoundChain(fat, dir[s].first, dir[s].size)
        /\ Owned(s) = ChainIn(fat, dir[s].first)
    BY <1>1, <1>2 DEF ChainsInv, SoundFiles, Owned, Chain
  <2>2. \A c \in ChainIn(fat, dir[s].first) : fat'[c] = fat[c]
    BY <2>1, OwnedLinksKept DEF ChainsInv
  <2>. QED
    BY <1>2, <2>1, <2>2, WalkFrame
<1>3. CASE Entered(s)
  BY <1>3 DEF Entered, Entry, ChainsInv, SoundEnter
<1>. QED
  BY <1>1, <1>2, <1>3, EntriesKept DEF ChainsInv, Cleared

(* Where each step of a call comes from.                                   *)
LEMMA StepsOfCall ==
  ASSUME TypeOK, [Next]_vars
  PROVE  /\ op'.step = "freechain" => Unlink \/ UNCHANGED vars
         /\ op'.step = "enter" => \/ Allocate /\ Cardinality(FreeBlocks) >= op.size
                                  \/ UNCHANGED vars
         /\ op'.step = "unlink" => \/ \E n \in Saved, k \in 1..MaxSize : BeginSave(n, k)
                                   \/ \E n \in Names : BeginRemove(n)
                                   \/ UNCHANGED vars
         /\ op'.step = "allocate" => \/ \E n \in Saved, k \in 1..MaxSize : BeginSave(n, k)
                                     \/ \E n \in Names, k \in 1..(MaxSize + 1) :
                                          BeginSaveMisread(n, k)
                                     \/ BeginSaveSettings \/ UNCHANGED vars
                                     \/ FreeChain /\ op.kind = "save"
         /\ op'.step = "write" => \/ \E n \in Saved, k \in 1..MaxSize : BeginSave(n, k)
                                  \/ BeginSaveSettings \/ UNCHANGED vars
                                  \/ Enter \/ WriteBlock \/ DataWriteFails
<1>0. op \in Calls /\ Idle.step = "idle"
  BY DEF TypeOK, Idle
<1>1. ASSUME NEW n \in Saved, NEW k \in 1..MaxSize, BeginSave(n, k)
      PROVE  op'.step \in {"write", "unlink", "allocate"}
  BY <1>1 DEF BeginSave, SaveStep, Begin
<1>2. ASSUME NEW n \in Names, NEW k \in 1..(MaxSize + 1), BeginSaveMisread(n, k)
      PROVE  op'.step = "allocate"
  BY <1>2 DEF BeginSaveMisread, Begin
<1>3. CASE BeginSaveSettings
  BY <1>3 DEF BeginSaveSettings, Begin
<1>4. ASSUME NEW n \in Names, BeginRemove(n)
      PROVE  op'.step = "unlink"
  BY <1>4 DEF BeginRemove, Begin
<1>5. CASE Unlink
  BY <1>0, <1>5 DEF Unlink, Goto, Calls
<1>6. CASE FreeChain
  BY <1>0, <1>6 DEF FreeChain, Goto, Return, Calls
<1>7. CASE Allocate
  BY <1>0, <1>7 DEF Allocate, Return, Calls
<1>8. CASE Enter
  BY <1>0, <1>8 DEF Enter, Goto, Return, Calls
<1>9. CASE WriteBlock \/ DataWriteFails
  <2>1. PICK clean \in BOOLEAN : op.step = "write" /\ Advance(clean)
    BY <1>0, <1>9 DEF WriteBlock, DataWriteFails, Calls
  <2>. QED
    BY <1>0, <1>9, <2>1, WriteTypes
<1>10. CASE FatWriteFails \/ DirWriteFails \/ PowerCut
  BY <1>0, <1>10 DEF FatWriteFails, DirWriteFails, PowerCut, Return
<1>11. CASE UNCHANGED vars
  BY <1>11
<1>. QED
  BY <1>1, <1>2, <1>3, <1>4, <1>5, <1>6, <1>7, <1>8, <1>9, <1>10, <1>11, MisreadCalls
  DEF Next, Call, Write, Failure

(* A step keeps the chain about to be entered sound.                       *)
LEMMA SoundEnterStep ==
  ASSUME ChainsInv, [Next]_vars
  PROVE  SoundEnter'
<1>0. TypeOK
  BY DEF ChainsInv, FilesInv
<1>1. ASSUME UNCHANGED vars PROVE SoundEnter'
  BY <1>1 DEF vars, ChainsInv, SoundEnter
<1>2. ASSUME op'.step = "enter", ~ UNCHANGED vars
      PROVE  SoundChain(fat', op'.first, op'.size) /\ op'.block = op'.first
             /\ op'.done = 0
  <2>1. Allocate /\ Cardinality(FreeBlocks) >= op.size /\ op.size \in Nat \ {0}
    BY <1>0, <1>2, StepsOfCall, OpTypes
  <2>2. ~ (Cardinality(FreeBlocks) < op.size)
    BY <2>1, FreeFinite
  <2>3. /\ fat' = Linked(op.size) /\ op.step = "allocate"
        /\ op' = [op EXCEPT !.step = "enter", !.first = Highest(Picked(op.size)),
                            !.block = Highest(Picked(op.size))]
    BY <2>1, <2>2 DEF Allocate
  <2>4. /\ op'.first = Highest(Picked(op.size)) /\ op'.block = Highest(Picked(op.size))
        /\ op'.size = op.size /\ op'.done = op.done
    BY <1>0, <2>3 DEF TypeOK, Calls
  <2>5. op.done = 0
    BY <2>3 DEF ChainsInv, SoundEnter
  <2>. QED
    BY <2>1, <2>3, <2>4, <2>5, AllocatedChain
<1>3. ASSUME op'.step = "unlink", ~ UNCHANGED vars PROVE op'.done = 0
  BY <1>0, <1>3, StepsOfCall DEF BeginSave, BeginRemove, Begin
<1>4. ASSUME op'.step = "freechain", ~ UNCHANGED vars PROVE op'.done = 0
  <2>1. Unlink
    BY <1>0, <1>4, StepsOfCall
  <2>. QED
    BY <1>0, <2>1 DEF Unlink, Goto, ChainsInv, SoundEnter, TypeOK, Calls
<1>5. ASSUME op'.step = "allocate", ~ UNCHANGED vars PROVE op'.done = 0
  <2>1. CASE FreeChain /\ op.kind = "save"
    BY <1>0, <2>1 DEF FreeChain, Goto, ChainsInv, SoundEnter, TypeOK, Calls
  <2>2. CASE ~ (FreeChain /\ op.kind = "save")
    BY <1>0, <1>5, <2>2, StepsOfCall
    DEF BeginSave, BeginSaveMisread, BeginSaveSettings, Begin
  <2>. QED
    BY <2>1, <2>2
<1>. QED
  BY <1>1, <1>2, <1>3, <1>4, <1>5 DEF SoundEnter

(* A file that is removed to make room leaves exactly its size behind.     *)
LEMMA RoomAfter ==
  ASSUME ChainsInv, NEW s \in Slots, dir[s] # NoEntry
  PROVE  Cardinality(Chain(dir[s].first) \cup FreeBlocks)
           = dir[s].size + Cardinality(FreeBlocks)
<1>1. SoundChain(fat, dir[s].first, dir[s].size) /\ Owned(s) = Chain(dir[s].first)
  BY DEF ChainsInv, SoundFiles, Owned
<1>2. Chain(dir[s].first) \cap FreeBlocks = {}
  BY <1>1 DEF ChainsInv, FilesInv, NoDanglingFile
<1>3. /\ IsFiniteSet(Chain(dir[s].first))
      /\ Cardinality(Chain(dir[s].first)) = dir[s].size
  BY <1>1, SoundCount DEF Chain
<1>4. /\ Cardinality(Chain(dir[s].first) \cup FreeBlocks)
           = dir[s].size + Cardinality(FreeBlocks)
             - Cardinality(Chain(dir[s].first) \cap FreeBlocks)
  BY <1>3, FreeFinite, FS_Union
<1>5. Cardinality(Chain(dir[s].first) \cap FreeBlocks) = 0
  BY <1>2, FS_EmptySet
<1>6. dir[s].size \in Nat
  BY <1>1, EndMarks DEF SoundChain
<1>. QED
  BY <1>4, <1>5, <1>6, FreeFinite

(* A step keeps room for the allocation the call is heading for.           *)
LEMMA RoomLeftStep ==
  ASSUME ChainsInv, [Next]_vars
  PROVE  RoomLeft'
<1>0. TypeOK
  BY DEF ChainsInv, FilesInv
<1>1. ASSUME UNCHANGED vars PROVE RoomLeft'
  BY <1>1 DEF vars, ChainsInv, RoomLeft, Chain, FreeBlocks
<1>2. ASSUME op'.step = "allocate", ~ UNCHANGED vars
      PROVE  Cardinality(FreeBlocks') >= op'.size
  <2>1. ASSUME NEW n \in Names, NEW k \in 1..(MaxSize + 1),
               BeginSave(n, k) \/ BeginSaveMisread(n, k)
        PROVE  Cardinality(FreeBlocks') >= op'.size
    <3>1. fat' = fat /\ op'.size = k
      BY <2>1 DEF BeginSave, BeginSaveMisread, Begin
    <3>2. FreeBlocks' = FreeBlocks
      BY <3>1 DEF FreeBlocks
    <3>3. BeginSave(n, k) => SaveStep(n, k) = "allocate"
      BY <1>2 DEF BeginSave, Begin
    <3>4. Cardinality(FreeBlocks) >= k
      BY <2>1, <3>3 DEF SaveStep, BeginSaveMisread
    <3>. QED
      BY <3>1, <3>2, <3>4
  <2>2. CASE BeginSaveSettings
    <3>1. FreeBlocks' = FreeBlocks /\ op'.size = 2 /\ Cardinality(FreeBlocks) >= 2
      BY <1>2, <2>2 DEF BeginSaveSettings, Begin, FreeBlocks
    <3>. QED
      BY <3>1
  <2>3. CASE FreeChain /\ op.kind = "save"
    <3>1. op'.size = op.size /\ fat' = Unlinked(op.first) /\ op.step = "freechain"
      BY <1>0, <2>3 DEF FreeChain, Goto, TypeOK, Calls
    <3>2. Chain(op.first) \subseteq Blocks
      BY OpTypes, <1>0, ChainClosed DEF Chain
    <3>3. FreeBlocks' = Chain(op.first) \cup FreeBlocks
      BY <3>1, <3>2 DEF FreeBlocks, Unlinked
    <3>. QED
      BY <2>3, <3>1, <3>3 DEF ChainsInv, RoomLeft
  <2>. QED
    BY <1>0, <1>2, <2>1, <2>2, <2>3, StepsOfCall, MisreadCalls
<1>3. ASSUME op'.step = "unlink", op'.kind = "save", ~ UNCHANGED vars
      PROVE  Cardinality(Chain(op.first)' \cup FreeBlocks') >= op'.size
  <2>1. PICK n \in Saved, k \in 1..MaxSize : BeginSave(n, k)
    BY <1>0, <1>3, StepsOfCall DEF BeginRemove, Begin
  <2>2. /\ fat' = fat /\ op'.size = k /\ op'.first = FirstBlock(n)
        /\ SaveStep(n, k) = "unlink"
    BY <1>3, <2>1 DEF BeginSave, Begin
  <2>3. /\ Exists(n) /\ dir[FileSlot(n)].size + Cardinality(FreeBlocks) >= k
    BY <2>2 DEF SaveStep
  <2>4. /\ FileSlot(n) \in Slots /\ dir[FileSlot(n)] # NoEntry
        /\ op'.first = dir[FileSlot(n)].first
    BY <2>2, <2>3, FileSlotIn DEF Recognised, FirstBlock
  <2>5. Chain(op.first)' = Chain(dir[FileSlot(n)].first) /\ FreeBlocks' = FreeBlocks
    BY <2>2, <2>4 DEF Chain, FreeBlocks
  <2>. QED
    BY <2>2, <2>3, <2>4, <2>5, RoomAfter
<1>4. ASSUME op'.step = "freechain", op'.kind = "save", ~ UNCHANGED vars
      PROVE  Cardinality(Chain(op.first)' \cup FreeBlocks') >= op'.size
  <2>1. Unlink
    BY <1>0, <1>4, StepsOfCall
  <2>2. /\ fat' = fat /\ op'.size = op.size /\ op'.first = op.first
        /\ op.step = "unlink" /\ op.kind = "save"
    BY <1>0, <1>4, <2>1 DEF Unlink, Goto, TypeOK, Calls
  <2>3. Chain(op.first)' = Chain(op.first) /\ FreeBlocks' = FreeBlocks
    BY <2>2 DEF Chain, FreeBlocks
  <2>. QED
    BY <2>2, <2>3 DEF ChainsInv, RoomLeft
<1>. QED
  BY <1>1, <1>2, <1>3, <1>4 DEF RoomLeft

(* A step keeps every settings file two blocks long.                       *)
LEMMA SettingsSizeStep ==
  ASSUME ChainsInv, [Next]_vars
  PROVE  SettingsSize'
<1>0. TypeOK
  BY DEF ChainsInv, FilesInv
<1>1. ASSUME NEW s \in Slots, Recognised(s, Settings)'
      PROVE  dir'[s].size = 2
  <2>1. CASE Entered(s)
    <3>1. op.name = Settings /\ dir'[s].size = op.size /\ op.step = "enter"
      BY <1>1, <2>1 DEF Entered, Entry, Recognised
    <3>. QED
      BY <3>1 DEF ChainsInv, SettingsSize
  <2>2. CASE dir'[s] = dir[s]
    <3>. DEFINE b == dir[s].first
    <3>1. dir[s] # NoEntry /\ dir[s].name = Settings /\ HasAppId(b)'
      BY <1>1, <2>2 DEF Recognised, HasAppId
    <3>2. b \in Blocks /\ b \in Owned(s)
      BY <1>0, <3>1, EntryTypes
    <3>3. CASE data'[b] = data[b]
      BY <2>2, <3>1, <3>3 DEF HasAppId, Recognised, ChainsInv, SettingsSize
    <3>4. CASE op.step = "write" /\ b = op.block
      <4>1. PICK w \in Slots : dir[w] = Entry /\ dir[w] # NoEntry /\ op.block \in Owned(w)
        BY <3>4, CursorOwned
      <4>2. w = s
        BY <3>2, <3>4, <4>1 DEF ChainsInv, FilesInv, NoCrossLinks
      <4>3. op.name = Settings /\ dir[s].size = op.size
        BY <3>1, <4>1, <4>2 DEF Entry
      <4>. QED
        BY <2>2, <3>4, <4>3 DEF ChainsInv, SettingsSize
    <3>. QED
      BY <3>2, <3>3, <3>4, BlocksKept DEF ChainsInv
  <2>. QED
    BY <1>1, <2>1, <2>2, EntriesKept DEF ChainsInv, Cleared, Recognised
<1>2. /\ op'.step # "idle" /\ op'.kind = "save" /\ op'.name = Settings => op'.size = 2
      /\ op'.step \in {"allocate", "enter", "write"} => op'.kind = "save"
  <2>1. CASE \/ \E n \in Saved, k \in 1..MaxSize : BeginSave(n, k) \/ BeginSaveMisread(n, k)
             \/ BeginSaveMisread(Settings, 2)
    BY <2>1 DEF BeginSave, BeginSaveMisread, Begin, Saved
  <2>2. CASE BeginSaveSettings
    BY <2>2 DEF BeginSaveSettings, Begin
  <2>3. CASE \E n \in Names : BeginRemove(n)
    BY <2>3 DEF BeginRemove, Begin
  <2>4. CASE op' = op
    BY <2>4 DEF ChainsInv, SettingsSize
  <2>5. CASE op' = Idle
    BY <2>5 DEF Idle
  <2>6. CASE /\ op'.name = op.name /\ op'.kind = op.kind /\ op'.size = op.size
             /\ op.step # "idle"
             /\ op'.step \in {"allocate", "enter", "write"} => op.kind = "save"
    BY <2>6 DEF ChainsInv, SettingsSize
  <2>7. CASE Unlink \/ FreeChain \/ Allocate \/ Enter
    <3>1. \/ op' = Idle
          \/ /\ op'.name = op.name /\ op'.kind = op.kind /\ op'.size = op.size
             /\ op.step # "idle"
             /\ op'.step \in {"allocate", "enter", "write"} => op.kind = "save"
      BY <1>0, <2>7 DEF Unlink, FreeChain, Allocate, Enter, Goto, Return, TypeOK, Calls,
                        ChainsInv, SettingsSize
    <3>. QED
      BY <2>5, <2>6, <3>1
  <2>8. CASE WriteBlock \/ DataWriteFails
    <3>1. \/ op' = Idle
          \/ /\ op'.name = op.name /\ op'.kind = op.kind /\ op'.size = op.size
             /\ op.step = "write"
      BY <1>0, <2>8 DEF WriteBlock, DataWriteFails, Advance, Return, TypeOK, Calls
    <3>. QED
      BY <2>5, <2>6, <3>1 DEF ChainsInv, SettingsSize
  <2>9. CASE FatWriteFails \/ DirWriteFails \/ PowerCut
    BY <2>5, <2>9 DEF FatWriteFails, DirWriteFails, PowerCut, Return
  <2>. QED
    BY <2>1, <2>2, <2>3, <2>4, <2>7, <2>8, <2>9
    DEF Next, Call, Write, Failure, vars
<1>. QED
  BY <1>1, <1>2 DEF SettingsSize

(* A step keeps the cursor on the chain of the file being written.         *)
LEMMA WriteTargetStep ==
  ASSUME ChainsInv, [Next]_vars
  PROVE  WriteTarget'
<1>0. TypeOK
  BY DEF ChainsInv, FilesInv
<1>1. CASE UNCHANGED vars
  BY <1>1 DEF vars, ChainsInv, WriteTarget, Entry
<1>2. ASSUME NEW n \in Names, NEW k \in Nat \ {0}, Exists(n), dir[FileSlot(n)].size = k,
             op'.step = "write", op'.name = n, op'.size = k, op'.done = 0,
             op'.first = FirstBlock(n), op'.block = FirstBlock(n), dir' = dir, fat' = fat
      PROVE  WriteTarget'
  <2>. DEFINE w == FileSlot(n)
  <2>1. w \in Slots /\ dir[w] # NoEntry /\ dir[w].name = n /\ FirstBlock(n) = dir[w].first
    BY <1>2, FileSlotIn DEF Recognised, FirstBlock
  <2>. HIDE DEF w
  <2>2. dir[w] = [name |-> dir[w].name, first |-> dir[w].first, size |-> dir[w].size]
    BY <1>0, <2>1, EntryTypes
  <2>3. dir'[w] = [name |-> op'.name, first |-> op'.first, size |-> op'.size]
    BY <1>2, <2>1, <2>2 DEF w
  <2>4. op'.done \in 0..(op'.size - 1)
    BY <1>2
  <2>5. op'.block = VisitIn(fat', op'.first)[op'.done]
    BY <1>2, VisitDef
  <2>. QED
    BY <2>1, <2>3, <2>4, <2>5 DEF WriteTarget, Entry
<1>3. ASSUME NEW n \in Saved, NEW k \in 1..MaxSize, BeginSave(n, k), op'.step = "write"
      PROVE  WriteTarget'
  <2>1. SaveStep(n, k) = "write"
    BY <1>3 DEF BeginSave, Begin
  <2>2. Exists(n) /\ dir[FileSlot(n)].size = k
    BY <2>1 DEF SaveStep
  <2>3. k \in Nat \ {0} /\ n \in Names
    BY SizesAssumption DEF Saved
  <2>. QED
    BY <1>2, <1>3, <2>2, <2>3 DEF BeginSave, Begin
<1>4. CASE BeginSaveSettings /\ op'.step = "write"
  <2>1. Exists(Settings)
    BY <1>4 DEF BeginSaveSettings, Begin
  <2>2. dir[FileSlot(Settings)].size = 2
    BY <2>1, FileSlotIn DEF ChainsInv, SettingsSize
  <2>3. /\ op'.step = "write" /\ op'.name = Settings /\ op'.size = 2 /\ op'.done = 0
        /\ op'.first = FirstBlock(Settings) /\ op'.block = FirstBlock(Settings)
        /\ dir' = dir /\ fat' = fat
    BY <1>4 DEF BeginSaveSettings, Begin
  <2>4. 2 \in Nat \ {0} /\ Settings \in Names
    BY NamesAssumption
  <2>. QED
    BY <1>2, <2>1, <2>2, <2>3, <2>4
<1>5. CASE Enter /\ op'.step = "write"
  <2>1. FreeSlots # {} /\ fat' = fat /\ op.step = "enter"
        /\ op' = [op EXCEPT !.step = "write"]
        /\ dir' = [dir EXCEPT ![First(FreeSlots)] =
                     [name |-> op.name, first |-> op.first, size |-> op.size]]
    BY <1>5 DEF Enter, Goto, Return, Idle
  <2>2. First(FreeSlots) \in Slots
    BY <2>1, FirstIn DEF FreeSlots
  <2>3. op'.name = op.name /\ op'.first = op.first /\ op'.size = op.size
        /\ op'.block = op.first /\ op'.done = 0
    BY <1>0, <2>1 DEF TypeOK, Calls, ChainsInv, SoundEnter
  <2>4. dir'[First(FreeSlots)] = Entry'
    BY <1>0, <2>1, <2>2, <2>3 DEF TypeOK, Entry
  <2>5. op'.done \in 0..(op'.size - 1)
    BY <1>0, <2>3, OpTypes
  <2>6. op'.block = VisitIn(fat', op'.first)[op'.done]
    BY <2>3, VisitDef
  <2>. QED
    BY <2>2, <2>4, <2>5, <2>6 DEF WriteTarget
<1>6. ASSUME WriteBlock \/ DataWriteFails, op'.step = "write"
      PROVE  WriteTarget'
  <2>1. op.step = "write" /\ fat' = fat /\ dir' = dir
    BY <1>6 DEF WriteBlock, DataWriteFails
  <2>2. PICK clean \in BOOLEAN : Advance(clean)
    BY <1>0, <1>6, OpTypes DEF WriteBlock, DataWriteFails
  <2>3. /\ fat[op.block] \in Blocks /\ op.done + 1 < op.size
        /\ op' = [op EXCEPT !.block = fat[op.block], !.done = op.done + 1, !.clean = clean]
    BY <1>6, <2>2 DEF Advance, Return, Idle
  <2>4. PICK w \in Slots :
          /\ dir[w] = Entry /\ SoundChain(fat, op.first, op.size)
          /\ op.done \in 0..(op.size - 1)
          /\ op.block = VisitIn(fat, op.first)[op.done]
    BY <2>1, CursorOwned
  <2>5. op'.name = op.name /\ op'.first = op.first /\ op'.size = op.size
        /\ op'.block = fat[op.block] /\ op'.done = op.done + 1
    BY <1>0, <2>3 DEF TypeOK, Calls
  <2>6. VisitIn(fat, op.first)[op.done + 1] = fat[op.block]
    BY <2>4, SoundNext
  <2>7. op.done + 1 \in 0..(op.size - 1)
    BY <1>0, <2>3, OpTypes
  <2>8. dir'[w] = Entry' /\ op'.done \in 0..(op'.size - 1)
        /\ op'.block = VisitIn(fat', op'.first)[op'.done]
    BY <2>1, <2>4, <2>5, <2>6, <2>7 DEF Entry
  <2>. QED
    BY <2>8 DEF WriteTarget
<1>. QED
  BY <1>0, <1>1, <1>3, <1>4, <1>5, <1>6, StepsOfCall DEF WriteTarget

(* The chain invariant is inductive.                                       *)
LEMMA ChainsStep == ChainsInv /\ [Next]_vars => ChainsInv'
<1>. SUFFICES ASSUME ChainsInv, [Next]_vars PROVE ChainsInv'
  OBVIOUS
<1>1. FilesInv'
  BY FilesStep DEF ChainsInv
<1>. QED
  BY <1>1, SoundFilesStep, SoundEnterStep, RoomLeftStep, SettingsSizeStep, WriteTargetStep
  DEF ChainsInv

(* The chain invariant holds of every fresh card.                          *)
LEMMA ChainsInit == Init => ChainsInv
<1>. SUFFICES ASSUME Init PROVE ChainsInv
  OBVIOUS
<1>0. FilesInv /\ TypeOK
  BY FilesInit DEF FilesInv
<1>1. PICK n \in {OtherName} \cup Names, k \in 0..1 : FreshCard(n, k)
  BY DEF Init
<1>2. ASSUME NEW s \in Slots, dir[s] # NoEntry
      PROVE  /\ SoundChain(fat, dir[s].first, dir[s].size)
             /\ ~ HasAppId(dir[s].first)
  <2>1. k = 1 /\ dir[s].first = 0 /\ dir[s].size = 1
    BY <1>1, <1>2 DEF FreshCard
  <2>2. fat[0] = LAST
    BY <1>1, <2>1, EndMarks DEF FreshCard
  <2>3. VisitIn(fat, 0)[0] = 0
    BY VisitDef
  <2>4. 0 \in 0..(NumBlocks - 1) /\ 1 \in 1..NumBlocks
    BY SizesAssumption
  <2>5. VisitIn(fat, 0)[0 + 1] = fat[0]
    BY <2>3, <2>4, VisitDef, EndMarks DEF NextOn
  <2>6. VisitIn(fat, 0)[1] = LAST /\ \A j \in 0..(1 - 1) : VisitIn(fat, 0)[j] \in Blocks
    BY <2>2, <2>3, <2>5, EndMarks
  <2>7. data[0] = Junk
    BY EndMarks DEF Init
  <2>. QED
    BY <2>1, <2>4, <2>6, <2>7 DEF SoundChain, HasAppId
<1>. QED
  BY <1>0, <1>2
  DEF ChainsInv, SoundFiles, SoundEnter, RoomLeft, SettingsSize, WriteTarget,
      Recognised, Init, Idle

(* Every file's chain has the length its entry records and ends in the end *)
(* mark, on every card and after every failure.                            *)
THEOREM ChainsAreAsLongAsEntered == Spec => []ChainsMatchEntries
<1>1. ChainsInv => ChainsMatchEntries
  <2>1. SUFFICES ASSUME ChainsInv, NEW s \in Slots, dir[s] # NoEntry
                 PROVE  /\ \A k \in 0..(dir[s].size - 1) : Visit(dir[s].first)[k] \in Blocks
                        /\ Visit(dir[s].first)[dir[s].size] = LAST
    BY DEF ChainsMatchEntries
  <2>. QED
    BY <2>1 DEF ChainsInv, SoundFiles, SoundChain, Visit
<1>. QED
  BY <1>1, ChainsInit, ChainsStep, PTL DEF Spec

(* A file without gnuboy's application id is never changed, except by the  *)
(* call that has just entered it, whatever fails.                          *)
THEOREM OthersFilesAreSafe == Spec => ForeignFilesUntouched
<1>1. ASSUME ChainsInv, [Next]_vars, NEW s \in Slots, dir[s] # NoEntry,
             ~ HasAppId(dir[s].first), ~ (op.step = "write" /\ op.first = dir[s].first)
      PROVE  /\ dir'[s] = dir[s]
             /\ \A b \in Owned(s) : fat'[b] = fat[b] /\ data'[b] = data[b]
  <2>1. dir'[s] = dir[s]
    BY <1>1, EntriesKept DEF ChainsInv, Cleared, Recognised, Entered, FreeSlots
  <2>2. ASSUME NEW b \in Owned(s) PROVE fat'[b] = fat[b] /\ data'[b] = data[b]
    <3>1. fat'[b] = fat[b] /\ b \in Blocks
      BY <1>1, OwnedLinksKept, OwnedBlocks DEF ChainsInv, FilesInv
    <3>2. ASSUME op.step = "write", b = op.block PROVE FALSE
      <4>1. PICK w \in Slots : dir[w] = Entry /\ op.block \in Owned(w)
        BY <1>1, <3>2, CursorOwned
      <4>2. w = s
        BY <1>1, <2>2, <3>2, <4>1 DEF ChainsInv, FilesInv, NoCrossLinks
      <4>. QED
        BY <1>1, <3>2, <4>1, <4>2 DEF Entry
    <3>. QED
      BY <1>1, <3>1, <3>2, BlocksKept DEF ChainsInv
  <2>. QED
    BY <2>1, <2>2
<1>2. ChainsInv /\ [Next]_vars =>
        [ \A s \in Slots :
            dir[s] # NoEntry /\ ~ HasAppId(dir[s].first)
            /\ ~ (op.step = "write" /\ op.first = dir[s].first)
            => /\ dir'[s] = dir[s]
               /\ \A b \in Owned(s) : fat'[b] = fat[b] /\ data'[b] = data[b] ]_vars
  BY <1>1
<1>. QED
  BY <1>2, ChainsInit, ChainsStep, PTL DEF Spec, ForeignFilesUntouched

(* There is always a directory entry for a chain that has been allocated,  *)
(* since every listed file owns a block of its own and so does the chain.  *)
LEMMA EntryLeft ==
  ASSUME NumSlots >= NumBlocks, ChainsInv, op.step = "enter"
  PROVE  FreeSlots # {}
<1>0. TypeOK
  BY DEF ChainsInv, FilesInv
<1>1. SUFFICES ASSUME FreeSlots = {} PROVE FALSE
  OBVIOUS
<1>. DEFINE T == Blocks \ {op.first}
            g == [s \in Slots |-> dir[s].first]
<1>2. \A s \in Slots : dir[s] # NoEntry
  BY <1>1 DEF FreeSlots
<1>3. op.first \in Blocks /\ op.first \in Chain(op.first)
  BY <1>0, OpTypes, ChainClosed DEF Chain
<1>4. \A s \in Slots : dir[s].first \in Blocks /\ dir[s].first \in Owned(s)
  BY <1>0, <1>2, EntryTypes
<1>5. g \in [Slots -> T]
  <2>1. \A s \in Slots : Chain(op.first) \cap Owned(s) = {}
    BY DEF ChainsInv, FilesInv, PendingChain
  <2>. QED
    BY <1>3, <1>4, <2>1
<1>6. IsFiniteSet(T) /\ Cardinality(T) = NumBlocks - 1
  BY <1>3, EndMarks, FS_RemoveElement
<1>7. IsFiniteSet(Slots) /\ Cardinality(Slots) = NumSlots
  BY SizesAssumption, FS_Interval DEF Slots
<1>8. Cardinality(T) < Cardinality(Slots)
  BY <1>6, <1>7, SizesAssumption
<1>. HIDE DEF T, g
<1>9. PICK s \in Slots, t \in Slots : s # t /\ g[s] = g[t]
  BY <1>5, <1>6, <1>7, <1>8, FS_PigeonHole
<1>10. dir[s].first = dir[t].first
  BY <1>9 DEF g
<1>11. Owned(s) \cap Owned(t) = {}
  BY <1>9 DEF ChainsInv, FilesInv, NoCrossLinks
<1>. QED
  BY <1>4, <1>10, <1>11

(***************************************************************************)
(* Only failures leak blocks.  Between its two writes a call holds a chain *)
(* that is in no entry.                                                    *)
(***************************************************************************)

Held == IF op.step \in {"freechain", "enter"} THEN Chain(op.first) ELSE {}
Accounted ==
  faults = 0 => \A b \in Blocks : b \in FreeBlocks \/ b \in Held
                                  \/ \E s \in Slots : b \in Owned(s)

(* After a failure the count of failures is not 0.                         *)
LEMMA FaultsGrow ==
  ASSUME TypeOK, Fault PROVE faults' # 0
BY SizesAssumption DEF TypeOK, Fault

(* A file that is not removed keeps its blocks.                            *)
LEMMA OwnedKept ==
  ASSUME FilesInv, [Next]_vars, NEW s \in Slots, dir'[s] = dir[s]
  PROVE  Owned(s)' = Owned(s)
<1>1. \A b \in Owned(s) : fat'[b] = fat[b]
  BY OwnedLinksKept
<1>. QED
  BY <1>1, OwnedFrame DEF FilesInv

(* Without failures every block stays free, held or listed.                *)
LEMMA AccountedStep ==
  ASSUME NumSlots >= NumBlocks, ChainsInv, Accounted, [Next]_vars
  PROVE  Accounted'
<1>0. TypeOK /\ TypeOK' /\ FilesInv
  BY TypeStep DEF ChainsInv, FilesInv
<1>1. SUFFICES ASSUME faults' = 0, NEW b \in Blocks
               PROVE  b \in FreeBlocks' \/ b \in Held' \/ \E s \in Slots : b \in Owned(s)'
  BY DEF Accounted
<1>2. faults = 0 /\ ~ Failure
  <2>1. ASSUME Failure PROVE FALSE
    <3>1. Fault
      BY <2>1 DEF Failure, BeginSaveMisread, FatWriteFails, DirWriteFails,
                  DataWriteFails, PowerCut
    <3>. QED
      BY <1>0, <1>1, <3>1, FaultsGrow
  <2>. QED
    BY <1>1, <2>1
    DEF Next, Call, Write, BeginSave, BeginSaveSettings, BeginRemove, Unlink, FreeChain,
        Allocate, Enter, WriteBlock, vars
<1>3. b \in FreeBlocks \/ b \in Held \/ \E s \in Slots : b \in Owned(s)
  BY <1>2 DEF Accounted
<1>4. ASSUME fat' = fat, dir' = dir, Held = {}
      PROVE  b \in FreeBlocks' \/ b \in Held' \/ \E s \in Slots : b \in Owned(s)'
  BY <1>3, <1>4 DEF FreeBlocks, Owned, Chain
<1>5. CASE Call
  <2>1. fat' = fat /\ dir' = dir /\ op.step = "idle"
    BY <1>5 DEF Call, BeginSave, BeginSaveSettings, BeginRemove
  <2>. QED
    BY <1>4, <2>1 DEF Held
<1>6. CASE Unlink
  <2>1. /\ op.step = "unlink" /\ fat' = fat
        /\ op'.step = "freechain" /\ op'.first = op.first
        /\ dir' = [dir EXCEPT ![FileSlot(op.name)] = NoEntry]
    BY <1>0, <1>6 DEF Unlink, Goto, TypeOK, Calls
  <2>2. FreeBlocks' = FreeBlocks /\ Held = {} /\ Held' = Chain(op.first)
    BY <2>1 DEF FreeBlocks, Held, Chain
  <2>3. PICK file \in Slots : file = FileSlot(op.name) /\ Owned(file) = Chain(op.first)
    BY <1>0, <2>1, FileSlotIn DEF FilesInv, PendingUnlink, Recognised, Owned
  <2>4. \A s \in Slots \ {file} : Owned(s)' = Owned(s)
    BY <1>0, <2>1, <2>3, OwnedKept DEF TypeOK
  <2>. QED
    BY <1>3, <2>2, <2>3, <2>4
<1>7. CASE FreeChain
  <2>1. op.step = "freechain" /\ fat' = Unlinked(op.first) /\ dir' = dir
    BY <1>7 DEF FreeChain
  <2>2. \A s \in Slots : Owned(s)' = Owned(s)
    BY <1>0, <2>1, OwnedKept
  <2>3. b \in Held \/ b \in FreeBlocks => b \in FreeBlocks'
    BY <2>1 DEF Held, FreeBlocks, Unlinked
  <2>. QED
    BY <1>3, <2>2, <2>3
<1>8. CASE Allocate
  <2>1. /\ op.step = "allocate" /\ dir' = dir
        /\ Cardinality(FreeBlocks) >= op.size /\ op.size \in Nat \ {0}
    BY <1>0, <1>8, OpTypes DEF Allocate, ChainsInv, RoomLeft
  <2>2. ~ (Cardinality(FreeBlocks) < op.size)
    BY <2>1, FreeFinite
  <2>3. /\ fat' = Linked(op.size) /\ op'.step = "enter"
        /\ op'.first = Highest(Picked(op.size))
    BY <1>0, <1>8, <2>2 DEF Allocate, TypeOK, Calls
  <2>4. Held' = Picked(op.size)
    BY <2>1, <2>3, AllocatedChain DEF Held, Chain
  <2>5. b \in FreeBlocks /\ b \notin Picked(op.size) => b \in FreeBlocks'
    BY <2>3 DEF FreeBlocks, Linked
  <2>6. \A s \in Slots : Owned(s)' = Owned(s)
    BY <1>0, <2>1, OwnedKept
  <2>7. Held = {}
    BY <2>1 DEF Held
  <2>. QED
    BY <1>3, <2>4, <2>5, <2>6, <2>7
<1>9. CASE Enter
  <2>1. op.step = "enter" /\ FreeSlots # {}
    BY <1>9, EntryLeft DEF Enter
  <2>2. /\ fat' = fat /\ dir' = [dir EXCEPT ![First(FreeSlots)] =
                     [name |-> op.name, first |-> op.first, size |-> op.size]]
    BY <1>9, <2>1 DEF Enter
  <2>3. First(FreeSlots) \in FreeSlots
    BY <2>1, FirstIn DEF FreeSlots
  <2>4. PICK new \in Slots : /\ dir[new] = NoEntry /\ dir'[new] = Entry
                           /\ \A s \in Slots \ {new} : dir'[s] = dir[s]
    BY <1>0, <2>2, <2>3 DEF TypeOK, Entry, FreeSlots
  <2>5. Owned(new)' = Chain(op.first) /\ Owned(new) = {}
    <3>1. dir'[new] # NoEntry /\ dir'[new].first = op.first
      BY <1>0, <2>4, OpTypes DEF Entry
    <3>2. Owned(new)' = ChainIn(fat', dir'[new].first)
      BY <3>1 DEF Owned, Chain
    <3>. QED
      BY <2>2, <2>4, <3>1, <3>2 DEF Owned, Chain
  <2>6. \A s \in Slots \ {new} : Owned(s)' = Owned(s)
    BY <1>0, <2>4, OwnedKept
  <2>7. Held = Chain(op.first) /\ FreeBlocks' = FreeBlocks
    BY <2>1, <2>2 DEF Held, FreeBlocks
  <2>. QED
    BY <1>3, <2>4, <2>5, <2>6, <2>7
<1>10. CASE WriteBlock
  <2>1. fat' = fat /\ dir' = dir /\ op.step = "write"
    BY <1>10 DEF WriteBlock
  <2>. QED
    BY <1>4, <2>1 DEF Held
<1>11. CASE UNCHANGED vars
  BY <1>3, <1>11 DEF vars, FreeBlocks, Owned, Chain, Held
<1>. QED
  BY <1>2, <1>5, <1>6, <1>7, <1>8, <1>9, <1>10, <1>11 DEF Next, Write

(* On a fresh card every block is free or listed.                          *)
LEMMA AccountedInit == Init => Accounted
<1>. SUFFICES ASSUME Init, NEW b \in Blocks
              PROVE  b \in FreeBlocks \/ \E s \in Slots : b \in Owned(s)
  BY DEF Accounted
<1>1. PICK n \in {OtherName} \cup Names, k \in 0..1 : FreshCard(n, k)
  BY DEF Init
<1>2. CASE b >= k
  BY <1>1, <1>2 DEF FreshCard, FreeBlocks
<1>3. CASE ~ (b >= k)
  <2>1. k = 1 /\ b = 0 /\ 1 \in Slots
    BY <1>3, SizesAssumption DEF Blocks, Slots
  <2>2. dir[1].first = 0 /\ dir[1] # NoEntry
    BY <1>1, <2>1 DEF FreshCard, NoEntry, LAST
  <2>3. b \in Owned(1)
    BY <2>1, <2>2, ChainClosed DEF Owned, Chain
  <2>. QED
    BY <2>1, <2>3
<1>. QED
  BY <1>2, <1>3

(* On a card with at least as many directory entries as blocks (208 and    *)
(* 200 on the device), only failures leak blocks.                          *)
THEOREM OnlyFailuresLeak ==
  ASSUME NumSlots >= NumBlocks
  PROVE  Spec => []NoLeak
<1>1. ChainsInv /\ Accounted => NoLeak
  <2>1. SUFFICES ASSUME ChainsInv, Accounted, faults = 0, op.step = "idle"
                 PROVE  FreeBlocks \cup UNION {Owned(s) : s \in Slots} = Blocks
    BY DEF NoLeak
  <2>2. FreeBlocks \subseteq Blocks /\ \A s \in Slots : Owned(s) \subseteq Blocks
    BY <2>1, OwnedBlocks DEF FreeBlocks, ChainsInv, FilesInv
  <2>3. \A b \in Blocks : b \in FreeBlocks \/ \E s \in Slots : b \in Owned(s)
    BY <2>1 DEF Accounted, Held
  <2>. QED
    BY <2>2, <2>3
<1>2. ChainsInv /\ Accounted /\ [Next]_vars => Accounted'
  BY AccountedStep
<1>. QED
  BY <1>1, <1>2, ChainsInit, ChainsStep, AccountedInit, PTL DEF Spec

(***************************************************************************)
(* A save that no failure meets completes.  The file it writes is the one  *)
(* a load finds: it is the first of the files the name could stand for,    *)
(* and what was written so far is in place.                                *)
(***************************************************************************)

RoomBelow ==
  op.step \in {"freechain", "allocate", "enter"} /\ op.clean =>
    \A t \in Matches(op.name) : \E s \in FreeSlots : s < t

Progress ==
  op.step = "write" /\ op.clean =>
    /\ \A w \in Slots : dir[w] = Entry => \A t \in Matches(op.name) : w <= t
    /\ \A k \in 0..(op.done - 1) :
         data[VisitIn(fat, op.first)[k]] = <<op.name, op.version, k>>

SaveInv == ChainsInv /\ RoomBelow /\ Progress

(* The first of some slots is the least of them.                           *)
LEMMA FirstLeast ==
  ASSUME NEW S \in SUBSET Slots, S # {}
  PROVE  First(S) \in S /\ \A t \in S : First(S) <= t
<1>1. S \subseteq Nat
  BY SizesAssumption DEF Slots
<1>2. \E s \in S : \A t \in S : s <= t
  BY <1>1, NatMin
<1>. QED
  BY <1>2 DEF First

(* Two entries never start at the same block.                              *)
LEMMA OneEntry ==
  ASSUME FilesInv, NEW s \in Slots, NEW t \in Slots,
         dir[s] # NoEntry, dir[t] # NoEntry, dir[s].first = dir[t].first
  PROVE  s = t
BY EntryTypes DEF FilesInv, NoCrossLinks

(* Which files a name can stand for changes only with the call's own file. *)
LEMMA MatchesKept ==
  ASSUME ChainsInv, [Next]_vars, NEW n, NEW t \in Slots,
         dir'[t] = dir[t],
         op.step = "write" => dir[t].first # op.first
  PROVE  Recognised(t, n)' <=> Recognised(t, n)
<1>1. CASE dir[t] = NoEntry
  BY <1>1 DEF Recognised
<1>2. CASE dir[t] # NoEntry
  <2>. DEFINE b == dir[t].first
  <2>1. b \in Blocks /\ b \in Owned(t)
    BY <1>2, EntryTypes DEF ChainsInv, FilesInv
  <2>2. ASSUME op.step = "write", b = op.block PROVE FALSE
    <3>1. PICK w \in Slots : dir[w] = Entry /\ op.block \in Owned(w)
      BY <2>2, CursorOwned
    <3>2. w = t
      BY <2>1, <2>2, <3>1 DEF ChainsInv, FilesInv, NoCrossLinks
    <3>. QED
      BY <2>2, <3>1, <3>2 DEF Entry
  <2>3. data'[b] = data[b]
    BY <2>1, <2>2, BlocksKept DEF ChainsInv
  <2>. HIDE DEF b
  <2>4. HasAppId(b)' <=> HasAppId(b)
    BY <2>3 DEF HasAppId, b
  <2>. QED
    BY <2>4 DEF Recognised, b
<1>. QED
  BY <1>1, <1>2

(* A step keeps a free slot below every other file of the name.            *)
LEMMA RoomBelowStep ==
  ASSUME SaveInv, [Next]_vars
  PROVE  RoomBelow'
<1>0. TypeOK /\ ChainsInv /\ FilesInv
  BY DEF SaveInv, ChainsInv, FilesInv
<1>1. SUFFICES ASSUME op'.step \in {"freechain", "allocate", "enter"}, op'.clean,
                      NEW t \in Slots, Recognised(t, op.name)'
               PROVE  \E s \in Slots : dir'[s] = NoEntry /\ s < t
  BY DEF RoomBelow, Matches, FreeSlots
<1>2. CASE UNCHANGED vars
  <2>1. Recognised(t, op.name) /\ op.step \in {"freechain", "allocate", "enter"} /\ op.clean
    BY <1>1, <1>2 DEF vars, Recognised, HasAppId
  <2>. QED
    BY <1>2, <2>1 DEF vars, SaveInv, RoomBelow, Matches, FreeSlots
<1>3. ASSUME op.step \in {"freechain", "allocate", "enter"}, op.clean,
             op'.name = op.name, dir' = dir, data' = data
      PROVE  \E s \in Slots : dir'[s] = NoEntry /\ s < t
  <2>1. Recognised(t, op.name)
    BY <1>1, <1>3 DEF Recognised, HasAppId
  <2>. QED
    BY <1>3, <2>1 DEF SaveInv, RoomBelow, Matches, FreeSlots
<1>4. CASE Unlink
  <2>1. /\ op.step = "unlink" /\ op'.name = op.name /\ data' = data
        /\ dir' = [dir EXCEPT ![FileSlot(op.name)] = NoEntry]
    BY <1>0, <1>4 DEF Unlink, Goto, TypeOK, Calls
  <2>2. Exists(op.name)
    BY <1>0, <2>1 DEF FilesInv, PendingUnlink
  <2>3. /\ FileSlot(op.name) \in Slots
        /\ \A s \in Matches(op.name) : FileSlot(op.name) <= s
    BY <2>2, FirstLeast DEF Exists, Matches, FileSlot
  <2>4. dir'[FileSlot(op.name)] = NoEntry
    BY <1>0, <2>1, <2>3 DEF TypeOK
  <2>5. t # FileSlot(op.name)
    BY <1>1, <2>4 DEF Recognised
  <2>6. dir'[t] = dir[t]
    BY <1>0, <2>1, <2>5 DEF TypeOK
  <2>7. Recognised(t, op.name)
    BY <1>1, <2>1, <2>6 DEF Recognised, HasAppId
  <2>8. FileSlot(op.name) <= t /\ t \in Nat /\ FileSlot(op.name) \in Nat
    BY <2>3, <2>7, SizesAssumption DEF Matches, Slots
  <2>9. FileSlot(op.name) < t
    BY <2>5, <2>8
  <2>. QED
    BY <2>3, <2>4, <2>9
<1>5. CASE FreeChain
  <2>1. op.step = "freechain" /\ op' = [op EXCEPT !.step = "allocate"]
        /\ dir' = dir /\ data' = data
    BY <1>1, <1>5 DEF FreeChain, Goto, Return, Idle
  <2>2. op'.name = op.name /\ op.clean
    BY <1>0, <1>1, <2>1 DEF TypeOK, Calls
  <2>. QED
    BY <1>3, <2>1, <2>2
<1>6. CASE Allocate
  <2>1. /\ op.step = "allocate" /\ dir' = dir /\ data' = data
        /\ op' = [op EXCEPT !.step = "enter", !.first = Highest(Picked(op.size)),
                            !.block = Highest(Picked(op.size))]
    BY <1>1, <1>6 DEF Allocate, Return, Idle
  <2>2. op'.name = op.name /\ op.clean
    BY <1>0, <1>1, <2>1 DEF TypeOK, Calls
  <2>. QED
    BY <1>3, <2>1, <2>2
<1>7. ASSUME NEW n \in Names, ~ Exists(n), op'.name = n, dir' = dir, data' = data
      PROVE  FALSE
  <2>1. Recognised(t, n)
    BY <1>1, <1>7 DEF Recognised, HasAppId
  <2>. QED
    BY <1>7, <2>1 DEF Exists, Matches
<1>8. ASSUME NEW n \in Saved, NEW k \in 1..MaxSize, BeginSave(n, k)
      PROVE  FALSE
  <2>1. SaveStep(n, k) \in {"freechain", "allocate", "enter"}
    BY <1>1, <1>8 DEF BeginSave, Begin
  <2>2. ~ Exists(n)
    BY <2>1 DEF SaveStep
  <2>. QED
    BY <1>7, <1>8, <2>2 DEF BeginSave, Begin, Saved
<1>9. ASSUME BeginSaveSettings PROVE FALSE
  BY <1>1, <1>7, <1>9, NamesAssumption DEF BeginSaveSettings, Begin
<1>10. ASSUME NEW n \in Names, NEW k \in 1..(MaxSize + 1), BeginSaveMisread(n, k)
       PROVE  FALSE
  BY <1>1, <1>10 DEF BeginSaveMisread, Begin
<1>. QED
  BY <1>0, <1>1, <1>2, <1>4, <1>5, <1>6, <1>8, <1>9, <1>10, StepsOfCall

(* A step keeps what was written so far in place.                          *)
LEMMA ProgressStep ==
  ASSUME SaveInv, [Next]_vars
  PROVE  Progress'
<1>0. TypeOK /\ ChainsInv /\ FilesInv /\ FilesInv'
  BY FilesStep DEF SaveInv, ChainsInv, FilesInv
<1>1. SUFFICES ASSUME op'.step = "write", op'.clean
               PROVE  /\ \A w \in Slots : dir'[w] = Entry' =>
                           \A t \in Matches(op.name)' : w <= t
                      /\ \A k \in 0..(op'.done - 1) :
                           data'[VisitIn(fat', op'.first)[k]] = <<op'.name, op'.version, k>>
  BY DEF Progress
<1>2. CASE UNCHANGED vars
  BY <1>1, <1>2 DEF vars, SaveInv, Progress, Entry, Matches, Recognised, HasAppId
<1>3. ASSUME NEW n \in Names, Exists(n), op'.name = n, op'.done = 0,
             op'.first = FirstBlock(n), dir' = dir, data' = data
      PROVE  Progress'
  <2>1. /\ FileSlot(n) \in Slots /\ dir[FileSlot(n)] # NoEntry
        /\ FirstBlock(n) = dir[FileSlot(n)].first
        /\ \A s \in Matches(n) : FileSlot(n) <= s
    BY <1>3, FirstLeast DEF Exists, Matches, FileSlot, Recognised, FirstBlock
  <2>2. Matches(op.name)' = Matches(n)
    BY <1>3 DEF Matches, Recognised, HasAppId
  <2>3. ASSUME NEW w \in Slots, dir'[w] = Entry' PROVE w = FileSlot(n)
    <3>1. Entry' # NoEntry /\ Entry'.first = FirstBlock(n)
      <4>1. Entry'.name = n /\ NoEntry.name = OtherName /\ n # OtherName
        BY <1>3, NamesAssumption DEF Entry, NoEntry
      <4>. QED
        BY <1>3, <4>1 DEF Entry
    <3>. QED
      BY <1>0, <1>3, <2>1, <2>3, <3>1, OneEntry
  <2>. QED
    BY <1>3, <2>1, <2>2, <2>3 DEF Progress
<1>4. ASSUME NEW n \in Saved, NEW k \in 1..MaxSize, BeginSave(n, k)
      PROVE  Progress'
  <2>1. Exists(n)
    BY <1>1, <1>4 DEF BeginSave, Begin, SaveStep
  <2>2. /\ op'.name = n /\ op'.done = 0 /\ op'.first = FirstBlock(n)
        /\ dir' = dir /\ data' = data
    BY <1>4 DEF BeginSave, Begin
  <2>. QED
    BY <1>3, <2>1, <2>2 DEF Saved
<1>5. CASE BeginSaveSettings
  <2>1. Exists(Settings) /\ Settings \in Names
    BY <1>1, <1>5, NamesAssumption DEF BeginSaveSettings, Begin
  <2>2. /\ op'.name = Settings /\ op'.done = 0 /\ op'.first = FirstBlock(Settings)
        /\ dir' = dir /\ data' = data
    BY <1>5 DEF BeginSaveSettings, Begin
  <2>3. Progress'
    BY <1>3, <2>1, <2>2
  <2>. QED
    BY <1>1, <2>3 DEF Progress
<1>6. CASE Enter
  <2>1. /\ FreeSlots # {} /\ op.step = "enter" /\ data' = data /\ fat' = fat
        /\ dir' = [dir EXCEPT ![First(FreeSlots)] =
                     [name |-> op.name, first |-> op.first, size |-> op.size]]
        /\ op' = [op EXCEPT !.step = "write"]
    BY <1>1, <1>6 DEF Enter, Goto, Return, Idle
  <2>2. /\ op'.name = op.name /\ op'.first = op.first /\ op'.size = op.size
        /\ op'.done = 0 /\ op.clean
    BY <1>0, <1>1, <2>1 DEF TypeOK, Calls, ChainsInv, SoundEnter
  <2>3. PICK new \in Slots : /\ new \in FreeSlots /\ \A s \in FreeSlots : new <= s
                             /\ dir'[new] = Entry
                             /\ \A s \in Slots \ {new} : dir'[s] = dir[s]
    BY <1>0, <2>1, FirstLeast DEF TypeOK, Entry, FreeSlots
  <2>4. Entry' = Entry /\ Entry # NoEntry /\ Entry.first = op.first
    BY <1>0, <2>2, OpTypes DEF Entry
  <2>5. ASSUME NEW t \in Matches(op.name)' PROVE new <= t
    <3>1. t \in Slots /\ Recognised(t, op.name)'
      BY <2>2, <2>5 DEF Matches
    <3>2. CASE t = new
      BY <2>3, <3>2, SizesAssumption DEF Slots
    <3>3. CASE t # new
      <4>1. Recognised(t, op.name)
        BY <2>1, <2>2, <2>3, <3>1, <3>3 DEF Recognised, HasAppId
      <4>2. PICK s \in FreeSlots : s < t
        BY <2>1, <2>2, <3>1, <4>1 DEF SaveInv, RoomBelow, Matches
      <4>3. new <= s /\ new \in Int /\ s \in Int /\ t \in Int
        BY <2>3, <3>1, <4>2, SizesAssumption DEF Slots, FreeSlots
      <4>. QED
        BY <4>2, <4>3
    <3>. QED
      BY <3>2, <3>3
  <2>6. ASSUME NEW w \in Slots, dir'[w] = Entry' PROVE w = new
    <3>1. dir'[w] # NoEntry /\ dir'[new] # NoEntry /\ dir'[w].first = dir'[new].first
      BY <2>3, <2>4, <2>6
    <3>2. \A s, u \in Slots : s # u => Owned(s)' \cap Owned(u)' = {}
      BY <1>0 DEF FilesInv, NoCrossLinks
    <3>3. Owned(w)' = ChainIn(fat', dir'[w].first) /\ Owned(new)' = ChainIn(fat', dir'[new].first)
      BY <3>1 DEF Owned, Chain
    <3>4. op.first \in ChainIn(fat', op.first) /\ dir'[w].first = op.first
      BY <1>0, <2>3, <2>4, <3>1, OpTypes, ChainClosed
    <3>. QED
      BY <3>1, <3>2, <3>3, <3>4
  <2>. QED
    BY <2>2, <2>5, <2>6
<1>7. CASE DataWriteFails
  <2>1. op'.clean = FALSE
    <3>1. op' = [op EXCEPT !.block = fat[op.block], !.done = op.done + 1, !.clean = FALSE]
      BY <1>1, <1>7 DEF DataWriteFails, Advance, Return, Idle
    <3>. QED
      BY <1>0, <3>1 DEF TypeOK, Calls
  <2>. QED
    BY <1>1, <2>1
<1>8. CASE WriteBlock
  <2>1. /\ op.step = "write" /\ fat' = fat /\ dir' = dir
        /\ data' = [data EXCEPT ![op.block] = <<op.name, op.version, op.done>>]
        /\ op' = [op EXCEPT !.block = fat[op.block], !.done = op.done + 1,
                            !.clean = op.clean]
    BY <1>1, <1>8 DEF WriteBlock, Advance, Return, Idle
  <2>2. /\ op'.name = op.name /\ op'.first = op.first /\ op'.size = op.size
        /\ op'.done = op.done + 1 /\ op'.clean = op.clean /\ op'.version = op.version
        /\ op.clean
    BY <1>0, <1>1, <2>1 DEF TypeOK, Calls
  <2>. DEFINE V == VisitIn(fat, op.first)
  <2>3. /\ SoundChain(fat, op.first, op.size)
        /\ op.done \in 0..(op.size - 1) /\ op.block = V[op.done]
    BY <1>0, <2>1, CursorOwned
  <2>4. Entry' = Entry
    BY <2>2 DEF Entry
  <2>5. ASSUME NEW w \in Slots, dir'[w] = Entry', NEW t \in Matches(op.name)'
        PROVE  w <= t
    <3>1. t \in Slots /\ Recognised(t, op.name)' /\ dir[w] = Entry
      BY <2>1, <2>2, <2>4, <2>5 DEF Matches
    <3>2. CASE t = w
      BY <3>2, SizesAssumption DEF Slots
    <3>3. CASE t # w
      <4>1. dir[t].first # op.first
        BY <1>0, <2>1, <3>1, <3>3, OneEntry, OpTypes DEF Recognised, Entry
      <4>2. Recognised(t, op.name)
        BY <1>0, <2>1, <3>1, <4>1, MatchesKept
      <4>. QED
        BY <2>1, <2>2, <3>1, <4>2 DEF SaveInv, Progress, Matches
    <3>. QED
      BY <3>2, <3>3
  <2>6. ASSUME NEW k \in 0..op.done
        PROVE  data'[V[k]] = <<op.name, op.version, k>>
    <3>0. op.size \in Nat /\ op.done \in Nat /\ data \in [Blocks -> Contents]
      BY <1>0, OpTypes DEF TypeOK
    <3>1. k \in 0..(op.size - 1) /\ V[k] \in Blocks
      BY <2>3, <3>0 DEF SoundChain
    <3>2. CASE k = op.done
      BY <2>1, <2>3, <3>0, <3>1, <3>2
    <3>3. CASE k # op.done
      <4>1. k < op.done /\ k \in 0..(op.done - 1)
        BY <3>0, <3>3
      <4>2. V[k] # op.block
        BY <2>3, <3>1, <4>1, SoundDistinct
      <4>3. data[V[k]] = <<op.name, op.version, k>>
        BY <2>1, <2>2, <4>1 DEF SaveInv, Progress
      <4>. QED
        BY <2>1, <3>0, <3>1, <4>2, <4>3
    <3>. QED
      BY <3>2, <3>3
  <2>7. op'.done - 1 = op.done
    BY <1>0, <2>2, OpTypes
  <2>. QED
    BY <2>1, <2>2, <2>5, <2>6, <2>7
<1>. QED
  BY <1>0, <1>1, <1>2, <1>4, <1>5, <1>6, <1>7, <1>8, StepsOfCall DEF Progress

(* The save invariant holds of every fresh card.                           *)
LEMMA SaveInit == Init => SaveInv
BY ChainsInit DEF SaveInv, RoomBelow, Progress, Init, Idle

(* The save invariant is inductive.                                        *)
LEMMA SaveStepInv == SaveInv /\ [Next]_vars => SaveInv'
BY ChainsStep, RoomBelowStep, ProgressStep DEF SaveInv

(* The last block of a save: the cursor has reached the end mark.          *)
LEMMA LastBlock ==
  ASSUME ChainsInv, op.step = "write", NEW clean \in BOOLEAN, Advance(clean),
         op'.step = "idle"
  PROVE  op.done = op.size - 1 /\ op' = Idle
<1>0. TypeOK
  BY DEF ChainsInv, FilesInv
<1>1. /\ SoundChain(fat, op.first, op.size)
      /\ op.done \in 0..(op.size - 1)
      /\ op.block = VisitIn(fat, op.first)[op.done]
  BY CursorOwned
<1>2. ~ (fat[op.block] \in Blocks /\ op.done + 1 < op.size) /\ op' = Idle
  <2>1. [op EXCEPT !.block = fat[op.block], !.done = op.done + 1, !.clean = clean].step
          = "write"
    BY <1>0 DEF TypeOK, Calls
  <2>. QED
    BY <2>1 DEF Advance, Return
<1>3. VisitIn(fat, op.first)[op.done + 1] = fat[op.block]
  BY <1>1, SoundNext
<1>4. op.size \in Nat /\ op.done \in Nat
  BY <1>0, OpTypes
<1>5. ASSUME op.done + 1 < op.size PROVE FALSE
  <2>1. op.done + 1 \in 0..(op.size - 1)
    BY <1>4, <1>5
  <2>. QED
    BY <1>1, <1>2, <1>3, <1>5, <2>1 DEF SoundChain
<1>. QED
  BY <1>1, <1>2, <1>4, <1>5

(* When the last block of an undisturbed save is written, a load returns   *)
(* the save.                                                               *)
LEMMA SaveReadsBack ==
  ASSUME SaveInv, WriteBlock, op'.step = "idle", op.clean, NEW n \in Names, op.name = n
  PROVE  /\ Load(n)' = Image(n, op.version, op.size)
         /\ kept' = [kept EXCEPT ![n] = Image(n, op.version, op.size)]
<1>. DEFINE V == VisitIn(fat, op.first)
<1>0. TypeOK /\ ChainsInv /\ FilesInv
  BY DEF SaveInv, ChainsInv, FilesInv
<1>1. /\ op.step = "write" /\ fat' = fat /\ dir' = dir
      /\ data' = [data EXCEPT ![op.block] = <<op.name, op.version, op.done>>]
      /\ Advance(op.clean) /\ op.clean \in BOOLEAN
  BY <1>0, OpTypes DEF WriteBlock
<1>2. op.done = op.size - 1 /\ op' = Idle
  BY <1>0, <1>1, LastBlock
<1>3. PICK w \in Slots :
        /\ dir[w] = Entry /\ dir[w] # NoEntry /\ op.block \in Owned(w)
        /\ SoundChain(fat, op.first, op.size)
        /\ op.done \in 0..(op.size - 1) /\ op.block = V[op.done]
  BY <1>0, <1>1, CursorOwned
<1>4. ASSUME NEW k \in 0..(op.size - 1)
      PROVE  V[k] \in Blocks /\ data'[V[k]] = <<op.name, op.version, k>>
  <2>0. op.size \in Nat /\ op.done \in Nat /\ data \in [Blocks -> Contents]
    BY <1>0, OpTypes DEF TypeOK
  <2>1. V[k] \in Blocks
    BY <1>3 DEF SoundChain
  <2>2. CASE k = op.done
    BY <1>1, <1>3, <2>0, <2>1, <2>2
  <2>3. CASE k # op.done
    <3>1. k < op.done /\ k \in 0..(op.done - 1)
      BY <1>2, <2>0, <2>3
    <3>2. V[k] # op.block
      BY <1>3, <3>1, SoundDistinct
    <3>3. data[V[k]] = <<op.name, op.version, k>>
      BY <1>1, <3>1 DEF SaveInv, Progress
    <3>. QED
      BY <1>1, <2>0, <2>1, <3>2, <3>3
  <2>. QED
    BY <2>1, <2>2, <2>3
<1>5. op.size \in Nat \ {0} /\ op.first \in Blocks /\ V[0] = op.first /\ 0 \in 0..(op.size - 1)
  BY <1>0, OpTypes, VisitDef
<1>6. Recognised(w, n)'
  <2>1. dir'[w] # NoEntry /\ dir'[w].name = n /\ dir'[w].first = op.first
    BY <1>1, <1>3 DEF Entry
  <2>2. data'[op.first] = <<op.name, op.version, 0>>
    BY <1>4, <1>5
  <2>3. <<op.name, op.version, 0>> # Junk /\ <<op.name, op.version, 0>>[3] = 0
    BY DEF Junk
  <2>. QED
    BY <2>1, <2>2, <2>3 DEF Recognised, HasAppId
<1>7. ASSUME NEW t \in Slots, Recognised(t, n)' PROVE w <= t
  <2>1. CASE t = w
    BY <2>1, SizesAssumption DEF Slots
  <2>2. CASE t # w
    <3>1. dir[t].first # op.first
      BY <1>0, <1>1, <1>3, <1>7, <2>2, OneEntry DEF Recognised, Entry
    <3>2. [Next]_vars
      BY DEF Next, Write
    <3>3. Recognised(t, n)
      BY <1>0, <1>1, <1>7, <3>1, <3>2, MatchesKept
    <3>. QED
      BY <1>1, <1>3, <3>3 DEF SaveInv, Progress, Matches
  <2>. QED
    BY <2>1, <2>2
<1>8. w \in Matches(n)' /\ \A t \in Matches(n)' : w <= t /\ t \in Nat
  BY <1>6, <1>7, SizesAssumption DEF Matches, Slots
<1>9. FileSlot(n)' = w
  <2>1. ASSUME NEW s \in Matches(n)', \A t \in Matches(n)' : s <= t PROVE s = w
    BY <1>8, <2>1
  <2>. QED
    BY <1>8, <2>1 DEF FileSlot, First
<1>10. Exists(n)' /\ dir'[w].first = op.first /\ dir'[w].size = op.size
  BY <1>1, <1>3, <1>8 DEF Exists, Entry
<1>11. Load(n)' = [k \in 1..op.size |-> data'[V[k - 1]]]
  <2>1. \A k \in 0..(op.size - 1) : VisitIn(fat', dir'[w].first)[k] \in Blocks
    BY <1>1, <1>4, <1>10
  <2>. QED
    BY <1>1, <1>9, <1>10, <2>1 DEF Load, Visit
<1>12. \A k \in 1..op.size : data'[V[k - 1]] = <<n, op.version, k - 1>>
  BY <1>4, <1>5
<1>13. Load(n)' = Image(n, op.version, op.size)
  BY <1>11, <1>12 DEF Image
<1>14. kept' = [kept EXCEPT ![n] = Image(n, op.version, op.size)]
  BY <1>2, <1>5 DEF WriteBlock, WritesOut
<1>. QED
  BY <1>13, <1>14

(* A save that starts and meets no failure leaves what it was asked to     *)
(* leave: the room test before the old file is removed is exact.           *)
THEOREM SavesComplete ==
  ASSUME NumSlots >= NumBlocks
  PROVE  Spec => OnlyFailuresLoseSaves
<1>1. ASSUME SaveInv, [Next]_vars, NEW n \in Names,
             op.step # "idle", op'.step = "idle", op.kind = "save", op.name = n,
             op.clean, faults' = faults
      PROVE  Load(n)' = Image(n, op.version, op.size)
  <2>0. TypeOK /\ ChainsInv
    BY <1>1 DEF SaveInv, ChainsInv, FilesInv
  <2>1. ~ Fault
    BY <1>1, <2>0, SizesAssumption DEF Fault, TypeOK
  <2>2. ~ Failure
    BY <2>1 DEF Failure, BeginSaveMisread, FatWriteFails, DirWriteFails,
                DataWriteFails, PowerCut
  <2>3. ~ Call /\ ~ UNCHANGED vars
    BY <1>1 DEF Call, BeginSave, BeginSaveSettings, BeginRemove, vars
  <2>4. ~ Unlink /\ ~ FreeChain
    BY <1>1, <2>0 DEF Unlink, FreeChain, Goto, TypeOK, Calls
  <2>5. ~ Allocate
    <3>1. SUFFICES ASSUME Allocate PROVE FALSE
      OBVIOUS
    <3>2. Cardinality(FreeBlocks) >= op.size /\ op.size \in Int
      BY <2>0, <3>1, OpTypes DEF Allocate, ChainsInv, RoomLeft
    <3>3. ~ (Cardinality(FreeBlocks) < op.size)
      BY <3>2, FreeFinite
    <3>4. op'.step = "enter"
      BY <2>0, <3>1, <3>3 DEF Allocate, TypeOK, Calls
    <3>. QED
      BY <1>1, <3>4
  <2>6. ~ Enter
    <3>1. SUFFICES ASSUME Enter PROVE FALSE
      OBVIOUS
    <3>2. FreeSlots # {}
      BY <2>0, <3>1, EntryLeft DEF Enter
    <3>3. op'.step = "write"
      BY <2>0, <3>1, <3>2 DEF Enter, Goto, TypeOK, Calls
    <3>. QED
      BY <1>1, <3>3
  <2>7. WriteBlock
    BY <1>1, <2>2, <2>3, <2>4, <2>5, <2>6 DEF Next, Write
  <2>. QED
    BY <1>1, <2>7, SaveReadsBack
<1>2. SaveInv /\ [Next]_vars =>
        [ \A n \in Names :
            /\ op.step # "idle" /\ op'.step = "idle"
            /\ op.kind = "save" /\ op.name = n /\ op.clean /\ faults' = faults
            => Load(n)' = Image(n, op.version, op.size) ]_vars
  BY <1>1
<1>. QED
  BY <1>2, SaveInit, SaveStepInv, PTL DEF Spec, OnlyFailuresLoseSaves

(***************************************************************************)
(* The block writes implement the store of saves, when no directory read   *)
(* fails: then a name never stands for two files, so that a removal leaves *)
(* nothing behind.                                                         *)
(***************************************************************************)

OneFileEach ==
  /\ \A n \in Names : \A s, t \in Matches(n) : s = t
  /\ op.step \in {"freechain", "allocate", "enter"} => ~ Exists(op.name)
  /\ op.step = "write" => \A t \in Matches(op.name) : dir[t].first = op.first

DoubtKept == op.step # "idle" /\ ~ op.clean => kept[op.name] = Unknown

StoreInv == SaveInv /\ OneFileEach /\ DoubtKept

(* The call works on the one name to its end.                              *)
LEMMA SameCall ==
  ASSUME TypeOK, [Next]_vars, op.step # "idle", op'.step # "idle"
  PROVE  op'.name = op.name
<1>0. op \in Calls
  BY DEF TypeOK
<1>1. CASE Unlink \/ FreeChain
  <2>1. \E step : op' = [op EXCEPT !.step = step]
    BY <1>1 DEF Unlink, FreeChain, Goto, Return, Idle
  <2>. QED
    BY <1>0, <2>1 DEF Calls
<1>2. CASE Allocate
  <2>1. op' = [op EXCEPT !.step = "enter", !.first = Highest(Picked(op.size)),
                         !.block = Highest(Picked(op.size))]
    BY <1>2 DEF Allocate, Return, Idle
  <2>. QED
    BY <1>0, <2>1 DEF Calls
<1>3. CASE Enter
  <2>1. op' = [op EXCEPT !.step = "write"]
    BY <1>3 DEF Enter, Goto, Return, Idle
  <2>. QED
    BY <1>0, <2>1 DEF Calls
<1>4. CASE WriteBlock \/ DataWriteFails
  <2>1. PICK c \in {FALSE, op.clean} : Advance(c)
    BY <1>4 DEF WriteBlock, DataWriteFails
  <2>2. op' = [op EXCEPT !.block = fat[op.block], !.done = op.done + 1, !.clean = c]
    BY <2>1 DEF Advance, Return, Idle
  <2>. QED
    BY <1>0, <2>2 DEF Calls
<1>5. ~ Call /\ \A n, k : ~ BeginSaveMisread(n, k)
  BY DEF Call, BeginSave, BeginSaveSettings, BeginRemove, BeginSaveMisread
<1>6. ~ (FatWriteFails \/ DirWriteFails \/ PowerCut)
  BY DEF FatWriteFails, DirWriteFails, PowerCut, Return, Idle
<1>. QED
  BY <1>1, <1>2, <1>3, <1>4, <1>5, <1>6 DEF Next, Write, Failure, vars

(* A file that a name newly stands for is the one the call works on.       *)
LEMMA NewMatch ==
  ASSUME ChainsInv, [Next]_vars, NEW n, NEW t \in Slots,
         Recognised(t, n)', ~ Recognised(t, n)
  PROVE  /\ op.name = n
         /\ \/ Entered(t)
            \/ op.step = "write" /\ dir[t] # NoEntry /\ dir[t].first = op.first
               /\ dir' = dir
<1>0. FilesInv /\ TypeOK
  BY DEF ChainsInv, FilesInv
<1>1. CASE Entered(t)
  BY <1>1 DEF Entered, Entry, Recognised
<1>2. CASE ~ Entered(t)
  <2>1. dir'[t] = dir[t]
    BY <1>0, <1>2, EntriesKept DEF Cleared, Recognised
  <2>2. op.step = "write" /\ dir[t].first = op.first
    BY <2>1, MatchesKept
  <2>3. dir' = dir
    BY <2>2 DEF Next, Call, Write, Failure, BeginSave, BeginSaveSettings, BeginRemove,
       BeginSaveMisread, Unlink, FreeChain, Allocate, Enter, WriteBlock,
       FatWriteFails, DirWriteFails, DataWriteFails, PowerCut, vars
  <2>4. dir[t] # NoEntry /\ dir[t].name = n
    BY <2>1 DEF Recognised
  <2>5. PICK w \in Slots : dir[w] = Entry /\ dir[w] # NoEntry
    BY <2>2, CursorOwned
  <2>6. w = t
    BY <1>0, <2>2, <2>4, <2>5, OneEntry DEF Entry
  <2>. QED
    BY <2>2, <2>3, <2>4, <2>5, <2>6 DEF Entry
<1>. QED
  BY <1>1, <1>2

(* Without misreads a step keeps at most one file per name.                *)
LEMMA OneFileStep ==
  ASSUME Misreads = FALSE, SaveInv, OneFileEach, [Next]_vars
  PROVE  OneFileEach'
<1>0. TypeOK /\ ChainsInv /\ FilesInv
  BY DEF SaveInv, ChainsInv, FilesInv
<1>1. ASSUME NEW n \in Names, NEW s \in Slots, NEW t \in Slots,
             Recognised(s, n)', Recognised(t, n)', ~ Recognised(s, n)
      PROVE  s = t
  <2>1. op.name = n
    BY <1>0, <1>1, NewMatch
  <2>2. CASE Entered(s)
    <3>1. ~ Recognised(t, n)
      BY <2>1, <2>2 DEF Entered, OneFileEach, Exists, Matches
    <3>2. Entered(t)
      BY <1>0, <1>1, <2>2, <3>1, NewMatch DEF Entered
    <3>. QED
      BY <2>2, <3>2 DEF Entered
  <2>3. CASE op.step = "write" /\ dir[s] # NoEntry /\ dir[s].first = op.first /\ dir' = dir
    <3>1. dir[t] # NoEntry /\ dir[t].first = op.first
      <4>1. CASE Recognised(t, n)
        BY <2>1, <2>3, <4>1 DEF OneFileEach, Matches, Recognised
      <4>2. CASE ~ Recognised(t, n)
        BY <1>0, <1>1, <2>3, <4>2, NewMatch DEF Entered
      <4>. QED
        BY <4>1, <4>2
    <3>. QED
      BY <1>0, <2>3, <3>1, OneEntry
  <2>. QED
    BY <1>0, <1>1, <2>2, <2>3, NewMatch
<1>2. ASSUME NEW n \in Names, NEW s \in Slots, NEW t \in Slots,
             Recognised(s, n)', Recognised(t, n)'
      PROVE  s = t
  <2>1. CASE Recognised(s, n) /\ Recognised(t, n)
    BY <2>1 DEF OneFileEach, Matches
  <2>. QED
    BY <1>1, <1>2, <2>1
<1>3. ASSUME op'.step \in {"freechain", "allocate", "enter"},
             NEW t \in Slots, Recognised(t, op.name)'
      PROVE  FALSE
  <2>1. ASSUME NEW n \in Names, ~ Exists(n), op'.name = n, dir' = dir, data' = data
        PROVE  FALSE
    <3>1. Recognised(t, n)
      BY <1>3, <2>1 DEF Recognised, HasAppId
    <3>. QED
      BY <2>1, <3>1 DEF Exists, Matches
  <2>2. CASE UNCHANGED vars
    BY <1>0, <1>3, <2>1, <2>2, OpTypes DEF vars, OneFileEach
  <2>3. CASE Unlink
    <3>1. /\ op.step = "unlink" /\ op'.name = op.name /\ data' = data
          /\ dir' = [dir EXCEPT ![FileSlot(op.name)] = NoEntry]
      BY <1>0, <2>3 DEF Unlink, Goto, TypeOK, Calls
    <3>2. FileSlot(op.name) \in Matches(op.name)
      BY <1>0, <3>1, FileSlotIn DEF FilesInv, PendingUnlink, Matches
    <3>3. dir'[FileSlot(op.name)] = NoEntry
      BY <1>0, <3>1, <3>2 DEF TypeOK, Matches
    <3>4. t # FileSlot(op.name)
      BY <1>3, <3>3 DEF Recognised
    <3>5. dir'[t] = dir[t]
      BY <1>0, <3>1, <3>4 DEF TypeOK
    <3>6. t \in Matches(op.name)
      BY <1>3, <3>1, <3>5 DEF Recognised, HasAppId, Matches
    <3>. QED
      BY <1>0, <3>2, <3>4, <3>6, OpTypes DEF OneFileEach
  <2>4. CASE FreeChain \/ Allocate
    <3>1. /\ op.step \in {"freechain", "allocate"} /\ dir' = dir /\ data' = data
          /\ op'.name = op.name
      <4>1. op.step # "idle" /\ op'.step # "idle"
        BY <1>3, <2>4 DEF FreeChain, Allocate
      <4>2. op'.name = op.name
        BY <1>0, <4>1, SameCall
      <4>. QED
        BY <2>4, <4>2 DEF FreeChain, Allocate
    <3>2. ~ Exists(op.name)
      BY <3>1 DEF OneFileEach
    <3>. QED
      BY <1>0, <2>1, <3>1, <3>2, OpTypes
  <2>5. ASSUME NEW n \in Saved, NEW k \in 1..MaxSize, BeginSave(n, k)
        PROVE  FALSE
    <3>1. SaveStep(n, k) \in {"freechain", "allocate", "enter"}
      BY <1>3, <2>5 DEF BeginSave, Begin
    <3>2. ~ Exists(n)
      BY <3>1 DEF SaveStep
    <3>. QED
      BY <2>1, <2>5, <3>2 DEF BeginSave, Begin, Saved
  <2>6. ASSUME BeginSaveSettings PROVE FALSE
    <3>1. ~ Exists(Settings) /\ op'.name = Settings /\ dir' = dir /\ data' = data
      BY <1>3, <2>6 DEF BeginSaveSettings, Begin
    <3>. QED
      BY <2>1, <3>1, NamesAssumption
  <2>7. ASSUME NEW n \in Names, NEW k \in 1..(MaxSize + 1), BeginSaveMisread(n, k)
        PROVE  FALSE
    BY <2>7 DEF BeginSaveMisread
  <2>. QED
    BY <1>0, <1>3, <2>2, <2>3, <2>4, <2>5, <2>6, <2>7, StepsOfCall
<1>4. ASSUME op'.step = "write", NEW t \in Slots, Recognised(t, op.name)'
      PROVE  dir'[t].first = op'.first
  <2>1. ASSUME NEW n \in Names, Exists(n), op'.name = n, op'.first = FirstBlock(n),
               dir' = dir, data' = data
        PROVE  dir'[t].first = op'.first
    <3>1. t \in Matches(n)
      BY <1>4, <2>1 DEF Recognised, HasAppId, Matches
    <3>2. FileSlot(n) \in Matches(n)
      BY <2>1, FileSlotIn DEF Matches
    <3>3. t = FileSlot(n)
      BY <3>1, <3>2 DEF OneFileEach
    <3>. QED
      BY <2>1, <3>3 DEF FirstBlock
  <2>2. CASE UNCHANGED vars
    <3>1. Recognised(t, op.name)
      BY <1>4, <2>2 DEF vars, Recognised, HasAppId
    <3>. QED
      BY <1>4, <2>2, <3>1 DEF vars, OneFileEach, Matches
  <2>3. ASSUME NEW n \in Saved, NEW k \in 1..MaxSize, BeginSave(n, k)
        PROVE  dir'[t].first = op'.first
    <3>1. Exists(n)
      BY <1>4, <2>3 DEF BeginSave, Begin, SaveStep
    <3>2. op'.name = n /\ op'.first = FirstBlock(n) /\ dir' = dir /\ data' = data /\ n \in Names
      BY <2>3 DEF BeginSave, Begin, Saved
    <3>. QED
      BY <2>1, <3>1, <3>2
  <2>4. CASE BeginSaveSettings
    <3>1. /\ Exists(Settings) /\ op'.name = Settings /\ op'.first = FirstBlock(Settings)
          /\ dir' = dir /\ data' = data
      BY <1>4, <2>4 DEF BeginSaveSettings, Begin
    <3>. QED
      BY <2>1, <3>1, NamesAssumption
  <2>5. CASE Enter \/ WriteBlock \/ DataWriteFails
    <3>1. op.step \in {"enter", "write"} /\ op'.name = op.name
      <4>1. op.step # "idle" /\ op'.step # "idle"
        BY <1>4, <2>5 DEF Enter, WriteBlock, DataWriteFails
      <4>2. op'.name = op.name
        BY <1>0, <4>1, SameCall
      <4>. QED
        BY <2>5, <4>2 DEF Enter, WriteBlock, DataWriteFails
    <3>2. op'.first = op.first
      <4>1. CASE Enter
        BY <1>0, <1>4, <4>1 DEF Enter, Goto, Return, Idle, TypeOK, Calls
      <4>2. CASE WriteBlock \/ DataWriteFails
        <5>1. PICK c \in {FALSE, op.clean} : Advance(c)
          BY <4>2 DEF WriteBlock, DataWriteFails
        <5>2. op' = [op EXCEPT !.block = fat[op.block], !.done = op.done + 1, !.clean = c]
          BY <1>4, <5>1 DEF Advance, Return, Idle
        <5>. QED
          BY <1>0, <5>2 DEF TypeOK, Calls
      <4>. QED
        BY <2>5, <4>1, <4>2
    <3>3. ASSUME NEW n \in Names, op.name = n, Recognised(t, n)'
          PROVE  dir'[t].first = op.first
      <4>1. CASE Recognised(t, n)
        <5>1. op.step = "write" /\ dir[t].first = op.first
          BY <3>1, <3>3, <4>1 DEF OneFileEach, Exists, Matches
        <5>2. dir'[t] = dir[t]
          BY <1>0, <5>1, EntriesKept DEF Cleared, Entered
        <5>. QED
          BY <5>1, <5>2
      <4>2. CASE ~ Recognised(t, n)
        BY <1>0, <3>3, <4>2, NewMatch DEF Entered, Entry
      <4>. QED
        BY <4>1, <4>2
    <3>4. op.name \in Names
      BY <1>0, OpTypes
    <3>5. \A n : op'.name = n => (Recognised(t, op.name)' => Recognised(t, n)')
      BY DEF Recognised, HasAppId
    <3>. QED
      BY <1>4, <3>1, <3>2, <3>3, <3>4, <3>5
  <2>. QED
    BY <1>0, <1>4, <2>2, <2>3, <2>4, <2>5, StepsOfCall
<1>. QED
  BY <1>2, <1>3, <1>4 DEF OneFileEach, Exists, Matches

(* Between two writes of a call the history changes only into doubt.       *)
LEMMA WorkKept ==
  ASSUME TypeOK, [Next]_vars, op.step # "idle", op'.step # "idle"
  PROVE  (op'.clean = op.clean /\ kept' = kept) \/ Doubt(op.name)
<1>0. op \in Calls /\ op.size \in Nat /\ op.done \in Nat
  BY OpTypes DEF TypeOK
<1>1. CASE Unlink \/ FreeChain
  <2>1. kept' = kept /\ \E step : op' = [op EXCEPT !.step = step]
    BY <1>1 DEF Unlink, FreeChain, Goto, Return, Idle
  <2>. QED
    BY <1>0, <2>1 DEF Calls
<1>2. CASE Allocate
  <2>1. /\ kept' = kept
        /\ op' = [op EXCEPT !.step = "enter", !.first = Highest(Picked(op.size)),
                            !.block = Highest(Picked(op.size))]
    BY <1>2 DEF Allocate, Return, Idle
  <2>. QED
    BY <1>0, <2>1 DEF Calls
<1>3. CASE Enter
  <2>1. kept' = kept /\ op' = [op EXCEPT !.step = "write"]
    BY <1>3 DEF Enter, Goto, Return, Idle
  <2>. QED
    BY <1>0, <2>1 DEF Calls
<1>4. CASE WriteBlock
  <2>1. Advance(op.clean)
    BY <1>4 DEF WriteBlock
  <2>2. /\ op' = [op EXCEPT !.block = fat[op.block], !.done = op.done + 1,
                            !.clean = op.clean]
        /\ op.done + 1 < op.size
    BY <2>1 DEF Advance, Return, Idle
  <2>3. kept' = kept
    BY <1>0, <1>4, <2>2 DEF WriteBlock, WritesOut
  <2>. QED
    BY <1>0, <2>2, <2>3 DEF Calls
<1>5. CASE Failure
  BY <1>5 DEF Failure, BeginSaveMisread, FatWriteFails, DirWriteFails, DataWriteFails,
              PowerCut
<1>6. ~ Call
  BY DEF Call, BeginSave, BeginSaveSettings, BeginRemove
<1>. QED
  BY <1>1, <1>2, <1>3, <1>4, <1>5, <1>6 DEF Next, Write, vars

(* A walk that its links' changes leave alone.                             *)
LEMMA WalkKept ==
  ASSUME NEW f, NEW g, NEW b, NEW n, SoundChain(f, b, n),
         \A c \in ChainIn(f, b) : g[c] = f[c], NEW k \in 0..n
  PROVE  VisitIn(g, b)[k] = VisitIn(f, b)[k]
BY WalkFrame

(* The store invariant holds of every fresh card.                          *)
LEMMA StoreInit == Init => StoreInv
<1>. SUFFICES ASSUME Init PROVE StoreInv
  OBVIOUS
<1>1. SaveInv
  BY SaveInit
<1>2. op = Idle /\ data = [b \in Blocks |-> Junk]
  BY DEF Init
<1>4. ASSUME NEW n \in Names, NEW s \in Slots, Recognised(s, n) PROVE FALSE
  <2>1. dir[s].first \in Blocks
    BY <1>1, <1>4, EntryTypes DEF SaveInv, ChainsInv, FilesInv, Recognised
  <2>. QED
    BY <1>2, <1>4, <2>1 DEF Recognised, HasAppId
<1>. QED
  BY <1>1, <1>2, <1>4 DEF StoreInv, OneFileEach, DoubtKept, Idle, Matches

(* The store invariant is inductive.                                       *)
LEMMA StoreStep ==
  ASSUME Misreads = FALSE, StoreInv, [Next]_vars
  PROVE  StoreInv'
<1>0. TypeOK /\ TypeOK' /\ SaveInv
  BY TypeStep DEF StoreInv, SaveInv, ChainsInv, FilesInv
<1>1. SaveInv' /\ OneFileEach'
  BY SaveStepInv, OneFileStep DEF StoreInv
<1>2. DoubtKept'
  <2>1. SUFFICES ASSUME op'.step # "idle", ~ op'.clean
                 PROVE  kept'[op'.name] = Unknown
    BY DEF DoubtKept
  <2>2. CASE op.step = "idle"
    <3>1. ~ Write /\ ~ Failure
      BY <2>2 DEF Write, Unlink, FreeChain, Allocate, Enter, WriteBlock, Failure,
         BeginSaveMisread, FatWriteFails, DirWriteFails, DataWriteFails, PowerCut
    <3>2. ~ Call
      BY <2>1 DEF Call, BeginSave, BeginSaveSettings, BeginRemove, Begin
    <3>. QED
      BY <2>1, <2>2, <3>1, <3>2 DEF Next, vars
  <2>3. CASE op.step # "idle"
    <3>1. op'.name = op.name /\ op.name \in Names
      BY <1>0, <2>1, <2>3, SameCall, OpTypes
    <3>2. (op'.clean = op.clean /\ kept' = kept) \/ Doubt(op.name)
      BY <1>0, <2>1, <2>3, WorkKept
    <3>. QED
      BY <1>0, <2>1, <2>3, <3>1, <3>2 DEF StoreInv, DoubtKept, Doubt, TypeOK
  <2>. QED
    BY <2>2, <2>3
<1>. QED
  BY <1>1, <1>2 DEF StoreInv

(* A call never changes what a load of another name returns.               *)
LEMMA OtherLoads ==
  ASSUME ChainsInv, [Next]_vars, NEW n \in Names, op.step = "idle" \/ n # op.name
  PROVE  Load(n)' = Load(n)
<1>0. FilesInv /\ TypeOK
  BY DEF ChainsInv, FilesInv
<1>1. CASE op.step = "idle"
  <2>1. fat' = fat /\ dir' = dir /\ data' = data
    BY <1>1 DEF Next, Call, Write, Failure, BeginSave, BeginSaveSettings, BeginRemove,
       BeginSaveMisread, Unlink, FreeChain, Allocate, Enter, WriteBlock,
       FatWriteFails, DirWriteFails, DataWriteFails, PowerCut, vars
  <2>. QED
    BY <2>1 DEF Load, Exists, FileSlot, Matches, Recognised, HasAppId, Visit
<1>2. CASE n # op.name
  <2>1. ASSUME NEW t \in Slots
        PROVE  /\ Recognised(t, n)' <=> Recognised(t, n)
               /\ Recognised(t, n) => dir'[t] = dir[t]
    <3>1. CASE Cleared(t)
      BY <1>2, <3>1 DEF Cleared, Recognised
    <3>2. CASE Entered(t)
      BY <1>2, <3>2 DEF Entered, FreeSlots, Entry, Recognised
    <3>3. CASE dir'[t] = dir[t]
      <4>1. CASE op.step = "write" /\ dir[t] # NoEntry /\ dir[t].first = op.first
        <5>1. PICK w \in Slots : dir[w] = Entry /\ dir[w] # NoEntry
          BY <4>1, CursorOwned
        <5>2. w = t
          BY <1>0, <4>1, <5>1, OneEntry DEF Entry
        <5>. QED
          BY <1>2, <3>3, <5>1, <5>2 DEF Entry, Recognised
      <4>2. CASE dir[t] = NoEntry
        BY <3>3, <4>2 DEF Recognised
      <4>. QED
        BY <3>3, <4>1, <4>2, MatchesKept
    <3>. QED
      BY <1>0, <3>1, <3>2, <3>3, EntriesKept
  <2>2. Matches(n)' = Matches(n)
    BY <2>1 DEF Matches
  <2>3. CASE ~ Exists(n)
    BY <2>2, <2>3 DEF Exists, Load
  <2>4. CASE Exists(n)
    <3>1. PICK s \in Slots : s = FileSlot(n) /\ s = FileSlot(n)' /\ Recognised(s, n)
      BY <2>2, <2>4, FileSlotIn DEF FileSlot
    <3>. DEFINE e == dir[s]
                V == VisitIn(fat, e.first)
                W == VisitIn(fat', e.first)
    <3>2. e # NoEntry /\ e.name = n /\ dir'[s] = e
      BY <2>1, <3>1 DEF Recognised
    <3>3. SoundChain(fat, e.first, e.size) /\ Owned(s) = ChainIn(fat, e.first)
          /\ e.size \in Nat
      <4>1. e.size \in 1..(MaxSize + 1) /\ Owned(s) = ChainIn(fat, e.first)
        BY <1>0, <3>2, EntryTypes
      <4>2. SoundChain(fat, e.first, e.size)
        BY <3>2 DEF ChainsInv, SoundFiles
      <4>. QED
        BY <4>1, <4>2
    <3>4. \A k \in 0..e.size : W[k] = V[k]
      <4>1. \A c \in ChainIn(fat, e.first) : fat'[c] = fat[c]
        BY <1>0, <3>3, OwnedLinksKept
      <4>2. SoundChain(fat, e.first, e.size)
        BY <3>3
      <4>. HIDE DEF e
      <4>. QED
        BY <4>1, <4>2, WalkKept
    <3>5. ASSUME NEW k \in 0..(e.size - 1)
          PROVE  V[k] \in Blocks /\ W[k] = V[k] /\ data'[V[k]] = data[V[k]]
      <4>1. V[k] \in Blocks /\ V[k] \in Owned(s)
        BY <3>3, SoundBlocks DEF SoundChain
      <4>2. ASSUME op.step = "write", V[k] = op.block PROVE FALSE
        <5>1. PICK w \in Slots : dir[w] = Entry /\ op.block \in Owned(w)
          BY <4>2, CursorOwned
        <5>2. w = s
          BY <1>0, <4>1, <4>2, <5>1 DEF FilesInv, NoCrossLinks
        <5>. QED
          BY <1>2, <3>2, <5>1, <5>2 DEF Entry
      <4>3. data'[V[k]] = data[V[k]]
        BY <1>0, <4>1, <4>2, BlocksKept
      <4>4. k \in 0..e.size
        BY <3>3
      <4>. QED
        BY <3>4, <4>1, <4>3, <4>4
    <3>. HIDE DEF V, W
    <3>6. Load(n) = [k \in 1..e.size |-> data[V[k - 1]]]
      BY <2>4, <3>1, <3>5 DEF Load, Visit, V
    <3>7. Exists(n)'
      BY <2>2, <2>4 DEF Exists
    <3>8. Load(n)' = [k \in 1..e.size |-> data'[W[k - 1]]]
      BY <3>1, <3>2, <3>5, <3>7 DEF Load, Visit, W
    <3>9. \A k \in 1..e.size : data'[W[k - 1]] = data[V[k - 1]]
      BY <3>3, <3>5
    <3>. QED
      BY <3>6, <3>8, <3>9
  <2>. QED
    BY <2>3, <2>4
<1>. QED
  BY <1>1, <1>2

(* When a call ends, a load returns what the call was asked to leave, or   *)
(* the name is in doubt.                                                   *)
LEMMA CallEnds ==
  ASSUME NumSlots >= NumBlocks, StoreInv, [Next]_vars,
         op.step # "idle", op'.step = "idle", NEW n \in Names, op.name = n
  PROVE  \E v \in {Load(n)', Unknown} : kept' = [kept EXCEPT ![n] = v]
<1>0. TypeOK /\ ChainsInv /\ SaveInv /\ FilesInv
  BY DEF StoreInv, SaveInv, ChainsInv, FilesInv
<1>1. CASE Failure
  BY <1>1 DEF Failure, BeginSaveMisread, FatWriteFails, DirWriteFails, DataWriteFails,
              PowerCut, Doubt
<1>2. ~ Call /\ ~ UNCHANGED vars
  BY DEF Call, BeginSave, BeginSaveSettings, BeginRemove, vars
<1>3. ~ Unlink
  BY <1>0 DEF Unlink, Goto, TypeOK, Calls
<1>4. ~ Allocate
  <2>1. SUFFICES ASSUME Allocate PROVE FALSE
    OBVIOUS
  <2>2. Cardinality(FreeBlocks) >= op.size /\ op.size \in Int
    BY <1>0, <2>1, OpTypes DEF Allocate, ChainsInv, RoomLeft
  <2>3. ~ (Cardinality(FreeBlocks) < op.size)
    BY <2>2, FreeFinite
  <2>4. op'.step = "enter"
    BY <1>0, <2>1, <2>3 DEF Allocate, TypeOK, Calls
  <2>. QED
    BY <2>4
<1>5. ~ Enter
  <2>1. SUFFICES ASSUME Enter PROVE FALSE
    OBVIOUS
  <2>2. FreeSlots # {}
    BY <1>0, <2>1, EntryLeft DEF Enter
  <2>3. op'.step = "write"
    BY <1>0, <2>1, <2>2 DEF Enter, Goto, TypeOK, Calls
  <2>. QED
    BY <2>3
<1>6. CASE FreeChain
  <2>1. /\ op.step = "freechain" /\ dir' = dir /\ data' = data
        /\ kept' = [kept EXCEPT ![n] = <<>>]
    BY <1>0, <1>6 DEF FreeChain, Goto, TypeOK, Calls
  <2>2. ~ Exists(n)
    BY <2>1 DEF StoreInv, OneFileEach
  <2>3. ~ Exists(n)'
    BY <2>1, <2>2 DEF Exists, Matches, Recognised, HasAppId
  <2>. QED
    BY <2>1, <2>3 DEF Load
<1>7. CASE WriteBlock
  <2>1. CASE op.clean
    BY <1>0, <1>7, <2>1, SaveReadsBack
  <2>2. CASE ~ op.clean
    <3>1. kept' = kept /\ kept[n] = Unknown
      BY <1>7, <2>2 DEF WriteBlock, StoreInv, DoubtKept
    <3>. QED
      BY <1>0, <3>1 DEF TypeOK
  <2>. QED
    BY <2>1, <2>2
<1>. QED
  BY <1>1, <1>2, <1>3, <1>4, <1>5, <1>6, <1>7 DEF Next, Write

(* The initial states of the card layer are initial states of the store.   *)
LEMMA StoreStarts == Init => Store!Init
<1>. SUFFICES ASSUME Init PROVE Store!Init
  OBVIOUS
<1>1. \A n \in Names : Load(n) = <<>>
  <2>1. ASSUME NEW n \in Names, NEW s \in Slots, Recognised(s, n) PROVE FALSE
    <3>1. dir[s].first \in Blocks /\ data = [b \in Blocks |-> Junk]
      BY <2>1, ChainsInit, EntryTypes DEF ChainsInv, FilesInv, Recognised, Init
    <3>. QED
      BY <2>1, <3>1 DEF Recognised, HasAppId
  <2>. QED
    BY <2>1 DEF Load, Exists, Matches
<1>2. [n \in Names |-> Load(n)] = [n \in Names |-> <<>>]
  BY <1>1
<1>3. op.step = "idle" /\ kept = [n \in Names |-> <<>>]
  BY DEF Init, Idle
<1>. QED
  BY <1>2, <1>3 DEF Store!Init

(* Every step of the card layer is a step of the store, or changes nothing *)
(* of it.                                                                  *)
LEMMA StoreSimulates ==
  ASSUME NumSlots >= NumBlocks, Misreads = FALSE, StoreInv, [Next]_vars
  PROVE  [Store!Next]_Store!svars
<1>0. TypeOK /\ ChainsInv /\ OtherName \notin Names
  BY NamesAssumption DEF StoreInv, SaveInv, ChainsInv, FilesInv
<1>. DEFINE store == [n \in Names |-> Load(n)]
            busy  == IF op.step = "idle" THEN OtherName ELSE op.name
<1>1. CASE UNCHANGED vars
  <2>1. \A n \in Names : Load(n)' = Load(n)
    BY <1>1 DEF vars, Load, Exists, FileSlot, Matches, Recognised, HasAppId, Visit
  <2>2. store' = store
    BY <2>1
  <2>. QED
    BY <1>1, <2>2 DEF vars, Store!svars
<1>2. CASE Call
  <2>1. /\ op.step = "idle" /\ op'.step # "idle" /\ op'.name \in Names /\ kept' = kept
    BY <1>2, NamesAssumption DEF Call, BeginSave, BeginSaveSettings, BeginRemove, Begin, Saved
  <2>2. \A n \in Names : Load(n)' = Load(n)
    BY <1>0, <2>1, OtherLoads
  <2>3. store' = store
    BY <2>2
  <2>. QED
    BY <2>1, <2>3 DEF Store!Next, Store!Start
<1>3. CASE op.step # "idle"
  <2>0. PICK n \in Names : n = op.name /\ busy = n /\ n # OtherName
    BY <1>0, <1>3, OpTypes
  <2>1. \A m \in Names \ {n} : store'[m] = store[m]
    <3>1. \A m \in Names \ {n} : Load(m)' = Load(m)
      BY <1>0, <2>0, OtherLoads
    <3>. QED
      BY <3>1
  <2>2. CASE op'.step # "idle"
    <3>1. busy' = n
      BY <1>0, <1>3, <2>0, <2>2, SameCall
    <3>2. kept' = kept \/ kept' = [kept EXCEPT ![n] = Unknown]
      BY <1>0, <1>3, <2>0, <2>2, WorkKept DEF Doubt
    <3>3. /\ \A m \in Names \ {n} : kept'[m] = kept[m]
          /\ kept'[n] \in {kept[n], Unknown}
      BY <1>0, <3>2 DEF TypeOK
    <3>. QED
      BY <2>0, <2>1, <3>1, <3>3 DEF Store!Next, Store!Work, Store!OnlyBusyChanges
  <2>3. CASE op'.step = "idle"
    <3>1. PICK v \in {Load(n)', Unknown} : kept' = [kept EXCEPT ![n] = v]
      BY <1>3, <2>0, <2>3, CallEnds
    <3>2. /\ \A m \in Names \ {n} : kept'[m] = kept[m]
          /\ kept'[n] = v
      BY <1>0, <3>1 DEF TypeOK
    <3>3. store'[n] = Load(n)' /\ busy' = OtherName
      BY <2>3
    <3>. QED
      BY <2>0, <2>1, <3>1, <3>2, <3>3 DEF Store!Next, Store!End, Store!OnlyBusyChanges
  <2>. QED
    BY <2>2, <2>3
<1>4. op.step = "idle" => Call \/ UNCHANGED vars
  BY DEF Next, Write, Unlink, FreeChain, Allocate, Enter, WriteBlock, Failure,
     BeginSaveMisread, FatWriteFails, DirWriteFails, DataWriteFails, PowerCut
<1>. QED
  BY <1>1, <1>2, <1>3, <1>4

(* The block writes of dc_vmu.c implement the store of saves its users     *)
(* rely on: a call changes only the save it names, and one that meets no   *)
(* failure leaves what it was asked to leave.  It needs as many directory  *)
(* entries as blocks, and directory reads that do not fail: after a failed *)
(* one a second file of the same name may stay behind a removal.           *)
THEOREM SavesAreAStore ==
  ASSUME NumSlots >= NumBlocks, Misreads = FALSE
  PROVE  Spec => ImplementsSaveStore
<1>1. Init => StoreInv /\ Store!Init
  BY StoreInit, StoreStarts
<1>2. StoreInv /\ [Next]_vars => StoreInv'
  BY StoreStep
<1>3. StoreInv /\ [Next]_vars => [Store!Next]_Store!svars
  BY StoreSimulates
<1>. QED
  BY <1>1, <1>2, <1>3, PTL DEF Spec, ImplementsSaveStore, Store!Spec
=============================================================================
