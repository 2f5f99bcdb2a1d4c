-------------------------- MODULE GameSavesProofs --------------------------
(***************************************************************************)
(* Proofs about the saves of gnuboy/DC, for any number of games of any     *)
(* sizes at any paths: which files, states and exchanged discs can give a  *)
(* game another game's state, or part of one, and that nothing else does;  *)
(* a state loaded from the card is the one saved, unless a save of it was  *)
(* disturbed; and a battery file that could not be read is not written     *)
(* over.  The card's reads do not fail (ReadsFail): a save that misreads   *)
(* the directory makes a second file of a name, which is in VmuFs and not  *)
(* in GameSaves.                                                           *)
(***************************************************************************)
EXTENDS GameSaves, TLAPS

SavesInv == TypeOK /\ FilesOwn /\ MachineWhole /\ QuickStateWhole

LEMMA PageFacts ==
  ASSUME NEW g \in Games
  PROVE  /\ 0 \in Pages(g) /\ 0 \notin RamPages(g)
         /\ RamPages(g) \subseteq Pages(g)
<1>1. Core[g] \in Nat \ {0} /\ Ram[g] \in Nat
  BY GamesAssumption
<1>. QED
  BY <1>1 DEF Pages, RamPages, Length

(* Four ways a whole state comes to be.                                    *)
LEMMA FreshWhole ==
  ASSUME NEW t \in Nat, NEW g \in Games
  PROVE  Whole(g, t, Fresh(g))
<1>1. Page(g, 0) \in Own(g, t)
  BY DEF Page, Own
<1>. QED
  BY <1>1, PageFacts DEF Whole, Fresh

LEMMA WithRamWhole ==
  ASSUME NEW t \in Nat, NEW g \in Games, NEW ram \in [RamPages(g) -> Own(g, t)]
  PROVE  Whole(g, t, WithRam(g, ram))
<1>1. Page(g, 0) \in Own(g, t)
  BY DEF Page, Own
<1>2. \A p \in Pages(g) : WithRam(g, ram)[p] \in Own(g, t)
  BY <1>1 DEF WithRam
<1>3. \A p \in Pages(g) \ RamPages(g) : WithRam(g, ram)[p] = WithRam(g, ram)[0]
  BY PageFacts DEF WithRam
<1>4. Pages(g) \subseteq DOMAIN WithRam(g, ram)
  BY DEF WithRam
<1>. QED
  BY <1>2, <1>3, <1>4 DEF Whole

LEMMA CopyWhole ==
  ASSUME NEW t, NEW g \in Games, NEW m, Whole(g, t, m), NEW img
  PROVE  /\ Whole(g, t, Written(g, m))
         /\ Whole(g, t, Overwritten(g, m, img))
         /\ Whole(g, t, Restored(g, img, m))
<1>1. Whole(g, t, Written(g, m))
  BY PageFacts DEF Whole, Written
<1>2. Whole(g, t, Overwritten(g, m, img))
  BY PageFacts DEF Whole, Overwritten
<1>3. Whole(g, t, Restored(g, img, m))
  <2>1. 0 \in DOMAIN m /\ m[0].game = g
    BY PageFacts DEF Whole, Own
  <2>2. \A p \in Pages(g) : p \in DOMAIN m /\ Restored(g, img, m)[p] = m[p]
    BY <2>1 DEF Whole, Restored
  <2>3. Pages(g) \subseteq DOMAIN Restored(g, img, m)
    BY DEF Restored
  <2>. QED
    BY <2>2, <2>3, PageFacts DEF Whole
<1>. QED
  BY <1>1, <1>2, <1>3

(* A state stays whole as time goes on.                                    *)
LEMMA LaterOwn ==
  ASSUME NEW t \in Nat, NEW u \in Nat, u >= t, NEW g
  PROVE  Own(g, t) \subseteq Own(g, u)
BY DEF Own

LEMMA LaterWhole ==
  ASSUME NEW t \in Nat, NEW u \in Nat, u >= t, NEW g, NEW m, Whole(g, t, m)
  PROVE  Whole(g, u, m)
BY LaterOwn DEF Whole

LEMMA Timely ==
  ASSUME SavesInv
  PROVE  time \in Nat /\ rom \in Games /\ Default \in Games
<1>1. time \in 0..MaxTime /\ rom \in Games
  BY Zenon DEF SavesInv, TypeOK
<1>. QED
  BY <1>1, GamesAssumption, BoundsAssumption

(* What the files hold, file by file.                                      *)
BatteryOwn(g, t, file) ==
  Readable(file) => /\ file.doubt \in BOOLEAN
                    /\ ~ file.doubt => file.pages \in [RamPages(g) -> Own(g, t)]
StateOwn(g, t, file) ==
  Readable(file) => /\ file.doubt \in BOOLEAN
                    /\ ~ file.doubt => Whole(g, t, file.pages)
CardOwn(t, bs, ss) ==
  \A g \in Games : BatteryOwn(g, t, bs[g]) /\ StateOwn(g, t, ss[g])

LEMMA NoFileOwn ==
  ASSUME NEW g, NEW t, NEW f \in {None, Torn}
  PROVE  BatteryOwn(g, t, f) /\ StateOwn(g, t, f)
BY DEF BatteryOwn, StateOwn, Readable, None, Torn

(* A file entered by a disturbed save promises nothing.                    *)
LEMMA DoubtfulOwn ==
  ASSUME NEW g, NEW t, NEW pages
  PROVE  BatteryOwn(g, t, File(pages, TRUE)) /\ StateOwn(g, t, File(pages, TRUE))
BY DEF BatteryOwn, StateOwn, File

LEMMA FilesByGame ==
  ASSUME SavesInv
  PROVE  CardOwn(time, battery, states)
<1>1. FilesOwn /\ TypeOK
  BY DEF SavesInv
<1>2. \A g \in Games : \A file \in {battery[g], states[g]} :
        Readable(file) => file.doubt \in BOOLEAN
  BY <1>1, Zenon DEF TypeOK
<1>. QED
  BY <1>1, <1>2 DEF FilesOwn, CardOwn, BatteryOwn, StateOwn

LEMMA LaterFiles ==
  ASSUME NEW t \in Nat, NEW u \in Nat, u >= t, NEW g, NEW f
  PROVE  /\ BatteryOwn(g, t, f) => BatteryOwn(g, u, f)
         /\ StateOwn(g, t, f) => StateOwn(g, u, f)
<1>1. \A r \in [RamPages(g) -> Own(g, t)] : r \in [RamPages(g) -> Own(g, u)]
  BY LaterOwn
<1>. QED
  BY <1>1, LaterWhole DEF BatteryOwn, StateOwn

(* What is left of the ways a save may end: an undisturbed call writes the *)
(* file or leaves it, and any other end is one of five.                    *)
EndOf(e, old, new) ==
  /\ e.clean /\ e.ok => e.file = new
  /\ e.clean /\ ~ e.ok => e.file = old
  /\ e.file \in {new, old, Torn, None} \/ \E p : e.file = File(p, TRUE)
LEMMA EndCases ==
  ASSUME NEW old, NEW pages, NEW d, NEW e, e \in SaveEnds(old, pages, d)
  PROVE  EndOf(e, old, File(pages, d))
<1>1. \A F, O : \A x \in [file: F, ok: O, clean: {FALSE}] : x.file \in F /\ x.clean = FALSE
  OBVIOUS
<1>. DEFINE InPlace == IF Readable(old) THEN {old, Torn, File(pages, d)} ELSE {}
            Entered == {None, Torn} \cup {File(p, TRUE) : p \in StillThere(old) \cup {pages}}
<1>2. /\ \A f \in InPlace : f \in {old, Torn, File(pages, d)}
      /\ \A f \in Entered : f \in {None, Torn} \/ \E p : f = File(p, TRUE)
  OBVIOUS
<1>3. \/ e = [file |-> File(pages, d), ok |-> TRUE, clean |-> TRUE]
      \/ e = [file |-> old, ok |-> FALSE, clean |-> TRUE]
      \/ e \in [file: InPlace, ok: {TRUE}, clean: {FALSE}]
      \/ e \in [file: Entered, ok: BOOLEAN, clean: {FALSE}]
  BY Zenon DEF SaveEnds
<1>. HIDE DEF InPlace, Entered
<1>4. CASE \/ e = [file |-> File(pages, d), ok |-> TRUE, clean |-> TRUE]
           \/ e = [file |-> old, ok |-> FALSE, clean |-> TRUE]
  <2>1. \/ e.file = File(pages, d) /\ e.ok = TRUE /\ e.clean = TRUE
        \/ e.file = old /\ e.ok = FALSE /\ e.clean = TRUE
    BY <1>4
  <2>. QED
    BY <2>1, Zenon DEF EndOf
<1>5. CASE \/ e \in [file: InPlace, ok: {TRUE}, clean: {FALSE}]
           \/ e \in [file: Entered, ok: BOOLEAN, clean: {FALSE}]
  <2>1. e.clean = FALSE /\ (e.file \in InPlace \/ e.file \in Entered)
    BY <1>1, <1>5
  <2>2. \/ e.file \in {File(pages, d), old, Torn, None}
        \/ \E p : e.file = File(p, TRUE)
    BY <1>2, <2>1
  <2>. QED
    BY <2>1, <2>2, Zenon DEF EndOf
<1>. QED
  BY <1>3, <1>4, <1>5

(* However a save ends, the file is what it was or should be, or is in     *)
(* doubt.                                                                  *)
LEMMA EndsOwn ==
  ASSUME NEW g, NEW t, NEW old, NEW pages, NEW d, NEW e \in SaveEnds(old, pages, d)
  PROVE  /\ BatteryOwn(g, t, old) /\ BatteryOwn(g, t, File(pages, d)) => BatteryOwn(g, t, e.file)
         /\ StateOwn(g, t, old) /\ StateOwn(g, t, File(pages, d)) => StateOwn(g, t, e.file)
<1>1. \/ e.file \in {File(pages, d), old, Torn, None}
      \/ \E p : e.file = File(p, TRUE)
  <2>1. EndOf(e, old, File(pages, d))
    BY EndCases
  <2>. QED
    BY <2>1, Zenon DEF EndOf
<1>. QED
  BY <1>1, NoFileOwn, DoubtfulOwn

(* What the invariant says, and what it takes to establish it again.       *)
LEMMA Known ==
  ASSUME SavesInv
  PROVE  /\ DOMAIN machine = Pages(rom)
         /\ ~ machineDoubt => Whole(rom, time, machine)
         /\ available /\ ~ imageDoubt => Whole(rom, time, image)
         /\ CardOwn(time, battery, states)
<1>1. /\ ~ machineDoubt => Whole(rom, time, machine)
      /\ available /\ ~ imageDoubt => Whole(rom, time, image)
  BY Zenon DEF SavesInv, MachineWhole, QuickStateWhole
<1>2. DOMAIN machine = Pages(rom)
  BY Zenon DEF SavesInv, TypeOK
<1>. QED
  BY <1>1, <1>2, FilesByGame

LEMMA Booleans ==
  ASSUME SavesInv
  PROVE  /\ phase \in {"off", "menu", "game"} /\ rom \in Games /\ path \in Paths
         /\ DOMAIN battery = Games /\ DOMAIN states = Games
         /\ card \in BOOLEAN /\ loaded \in BOOLEAN /\ available \in BOOLEAN
         /\ based \in BOOLEAN /\ machineDoubt \in BOOLEAN /\ imageDoubt \in BOOLEAN
         /\ time \in 0..MaxTime
         /\ message \in {"none", "saved", "save failed", "loaded", "load failed"}
         /\ TRUE \in BOOLEAN /\ FALSE \in BOOLEAN
BY Zenon DEF SavesInv, TypeOK

LEMMA Together ==
  ASSUME phase' \in {"off", "menu", "game"}, rom' \in Games, path' \in Paths,
         card' \in BOOLEAN, loaded' \in BOOLEAN, available' \in BOOLEAN, based' \in BOOLEAN,
         machineDoubt' \in BOOLEAN, imageDoubt' \in BOOLEAN,
         message' \in {"none", "saved", "save failed", "loaded", "load failed"},
         time' \in 0..MaxTime, DOMAIN machine' = Pages(rom'),
         ~ machineDoubt' => Whole(rom', time', machine'),
         available' /\ ~ imageDoubt' => Whole(rom', time', image'),
         DOMAIN battery' = Games, DOMAIN states' = Games,
         CardOwn(time', battery', states')
  PROVE  SavesInv'
<1>1. \A g \in Games : \A file \in {battery'[g], states'[g]} :
        Readable(file) => file.doubt \in BOOLEAN
  BY DEF CardOwn, BatteryOwn, StateOwn
<1>2. TypeOK'
  BY <1>1, Zenon DEF TypeOK
<1>3. FilesOwn'
  BY Zenon DEF FilesOwn, CardOwn, BatteryOwn, StateOwn
<1>4. MachineWhole' /\ QuickStateWhole'
  BY Zenon DEF MachineWhole, QuickStateWhole
<1>. QED
  BY <1>2, <1>3, <1>4 DEF SavesInv

(* The machine a game starts with, from its battery file or without it.    *)
LEMMA SramLoadWhole ==
  ASSUME SavesInv, NEW g \in Games, SramLoad(g)
  PROVE  /\ ~ machineDoubt' => Whole(g, time, machine')
         /\ DOMAIN machine' = Pages(g)
         /\ loaded' \in BOOLEAN /\ based' \in BOOLEAN /\ machineDoubt' \in BOOLEAN
<1>1. loaded' \in BOOLEAN
  BY Zenon DEF SramLoad
<1>2. CASE /\ Readable(battery[g])
           /\ machine' = WithRam(g, RamIn(g, battery[g].pages))
           /\ based' = TRUE /\ machineDoubt' = battery[g].doubt
  <2>1. BatteryOwn(g, time, battery[g])
    BY Known DEF CardOwn
  <2>2. machineDoubt' \in BOOLEAN
    BY <1>2, <2>1 DEF BatteryOwn
  <2>3. ASSUME ~ machineDoubt' PROVE Whole(g, time, machine')
    <3>1. battery[g].pages \in [RamPages(g) -> Own(g, time)]
      BY <1>2, <2>1, <2>3 DEF BatteryOwn
    <3>2. RamIn(g, battery[g].pages) = battery[g].pages
      BY <3>1 DEF RamIn
    <3>3. Whole(g, time, WithRam(g, battery[g].pages))
      BY <3>1, WithRamWhole, Timely
    <3>. QED
      BY <1>2, <3>2, <3>3
  <2>4. DOMAIN machine' = Pages(g)
    BY <1>2 DEF WithRam
  <2>. QED
    BY <1>1, <1>2, <2>2, <2>3, <2>4
<1>3. CASE /\ machine' = WithRam(g, [p \in RamPages(g) |-> Garbage(g)])
           /\ based' = TRUE /\ machineDoubt' = FALSE
  <2>1. [p \in RamPages(g) |-> Garbage(g)] \in [RamPages(g) -> Own(g, time)]
    BY Timely DEF Garbage, Page, Own
  <2>2. Whole(g, time, WithRam(g, [p \in RamPages(g) |-> Garbage(g)]))
    BY <2>1, WithRamWhole, Timely
  <2>. QED
    BY <1>1, <1>3, <2>2 DEF WithRam
<1>4. CASE machine' = Fresh(g) /\ based' \in BOOLEAN /\ machineDoubt' = FALSE
  BY <1>1, <1>4, FreshWhole, Timely DEF Fresh
<1>5. (battery[g] = None) \in BOOLEAN
  BY Zenon
<1>. QED
  BY <1>2, <1>3, <1>4, <1>5 DEF SramLoad

LEMMA SavesInit == Init => SavesInv
<1>. SUFFICES ASSUME Init PROVE SavesInv
  OBVIOUS
<1>1. Default \in Games /\ Start \in Paths /\ time \in Nat /\ time = 0 /\ 0 \in 0..MaxTime
  BY GamesAssumption, BoundsAssumption DEF Init
<1>2. /\ card \in BOOLEAN /\ loaded \in BOOLEAN /\ available \in BOOLEAN /\ based \in BOOLEAN
      /\ machineDoubt \in BOOLEAN /\ imageDoubt \in BOOLEAN
  BY Zenon DEF Init
<1>3. \A g \in Games : ~ Readable(battery[g]) /\ ~ Readable(states[g])
  BY DEF Init, Readable, None
<1>4. TypeOK
  <2>1. DOMAIN machine = Pages(rom) /\ DOMAIN battery = Games /\ DOMAIN states = Games
    BY DEF Init, Fresh
  <2>2. \A g \in Games : \A file \in {battery[g], states[g]} :
          Readable(file) => file.doubt \in BOOLEAN
    BY <1>3
  <2>3. phase \in {"off", "menu", "game"} /\ rom \in Games /\ path \in Paths
        /\ message \in {"none", "saved", "save failed", "loaded", "load failed"}
        /\ time \in 0..MaxTime
    BY <1>1 DEF Init
  <2>. QED
    BY <1>2, <2>1, <2>2, <2>3, Zenon DEF TypeOK
<1>5. FilesOwn
  BY <1>3 DEF FilesOwn
<1>6. MachineWhole
  BY <1>1, FreshWhole DEF Init, MachineWhole
<1>7. QuickStateWhole
  BY DEF Init, QuickStateWhole
<1>. QED
  BY <1>4, <1>5, <1>6, <1>7 DEF SavesInv

(* Starting a game: the default one or, from the menu, any.  The image is  *)
(* on offer only to a game at the path of the one before; that it is the   *)
(* same game, and not one on another disc, is then not in doubt.           *)
LEMMA LoadGameStep ==
  ASSUME SavesInv, NEW g \in Games, LoadGame(g), card' \in BOOLEAN, path' \in Paths,
         available' \in BOOLEAN, imageDoubt' \in BOOLEAN,
         available' /\ ~ imageDoubt' => available /\ ~ imageDoubt /\ g = rom
  PROVE  SavesInv'
<1>1. /\ rom' = g /\ phase' \in {"game", "menu"} /\ time' = time /\ image' = image
      /\ message' = "none" /\ battery' = battery /\ states' = states
  BY DEF LoadGame, files
<1>2. /\ ~ machineDoubt' => Whole(g, time, machine')
      /\ DOMAIN machine' = Pages(g)
      /\ loaded' \in BOOLEAN /\ based' \in BOOLEAN /\ machineDoubt' \in BOOLEAN
  <2>1. CASE SramLoad(g)
    BY <2>1, SramLoadWhole
  <2>2. CASE machine' = Fresh(g) /\ loaded' = FALSE /\ based' = FALSE /\ machineDoubt' = FALSE
    BY <2>2, FreshWhole, Timely DEF Fresh
  <2>. QED
    BY <2>1, <2>2 DEF LoadGame
<1>3. available' /\ ~ imageDoubt' => Whole(rom', time', image')
  BY <1>1, Known
<1>. QED
  BY <1>1, <1>2, <1>3, Known, Booleans, Together

LEMMA PlayStep == SavesInv /\ Play => SavesInv'
<1>. SUFFICES ASSUME SavesInv, Play PROVE SavesInv'
  OBVIOUS
<1>1. /\ time' = time + 1 /\ time < MaxTime /\ message' = "none" /\ available' = available
      /\ phase' = phase /\ card' = card /\ rom' = rom /\ path' = path
      /\ loaded' = loaded /\ based' = based
      /\ image' = image /\ battery' = battery /\ states' = states
      /\ machineDoubt' = machineDoubt /\ imageDoubt' = imageDoubt
  BY DEF Play, files, session
<1>2. time' \in 0..MaxTime /\ time' \in Nat /\ time' >= time
  BY <1>1, Timely, BoundsAssumption
<1>3. PICK changed \in {{}, RamPages(rom)} :
        machine' = [p \in Pages(rom) |->
          IF machine[p].game = rom /\ (p \notin RamPages(rom) \/ p \in changed)
          THEN Page(rom, time') ELSE machine[p]]
  BY DEF Play
<1>4. Page(rom, time') \in Own(rom, time')
  BY <1>2 DEF Page, Own
<1>5. ASSUME ~ machineDoubt PROVE Whole(rom, time', machine')
  <2>1. Whole(rom, time', machine)
    BY <1>2, <1>5, Known, LaterWhole, Timely
  <2>2. \A p \in Pages(rom) : machine[p].game = rom
    BY <2>1 DEF Whole, Own
  <2>3. Pages(rom) \subseteq DOMAIN machine'
    BY <1>3
  <2>4. \A p \in Pages(rom) : machine'[p] \in Own(rom, time')
    BY <1>3, <1>4, <2>1 DEF Whole
  <2>5. \A p \in Pages(rom) \ RamPages(rom) : machine'[p] = machine'[0]
    BY <1>3, <2>2, PageFacts, Timely
  <2>. QED
    BY <2>3, <2>4, <2>5 DEF Whole
<1>6. available' /\ ~ imageDoubt' => Whole(rom', time', image')
  BY <1>1, <1>2, Known, LaterWhole, Timely
<1>7. CardOwn(time', battery', states')
  BY <1>1, <1>2, Known, LaterFiles, Timely DEF CardOwn
<1>8. rom' = rom /\ DOMAIN machine' = Pages(rom') /\ (~ machineDoubt' => Whole(rom', time', machine'))
  BY <1>1, <1>3, <1>5
<1>. QED
  BY <1>1, <1>2, <1>6, <1>7, <1>8, Booleans, Together

LEMMA QuickStep == SavesInv /\ (QuickSave \/ QuickLoad) => SavesInv'
<1>. SUFFICES ASSUME SavesInv, QuickSave \/ QuickLoad PROVE SavesInv'
  OBVIOUS
<1>1. /\ time' = time /\ message' = "none" /\ phase' = phase /\ card' = card /\ rom' = rom
      /\ path' = path /\ loaded' = loaded /\ battery' = battery /\ states' = states
  BY DEF QuickSave, QuickLoad, files, session
<1>2. /\ available' \in BOOLEAN /\ based' \in BOOLEAN
      /\ machineDoubt' \in BOOLEAN /\ imageDoubt' \in BOOLEAN
  BY Booleans DEF QuickSave, QuickLoad
<1>3. /\ ~ imageDoubt' => Whole(rom, time, image')
      /\ ~ machineDoubt' => Whole(rom, time, machine')
      /\ DOMAIN machine' = Pages(rom)
  <2>1. CASE QuickSave
    BY <2>1, Known, CopyWhole, Timely DEF QuickSave
  <2>2. CASE QuickLoad
    <3>1. /\ machine' = Restored(rom, machine, image) /\ image' = image /\ available
          /\ machineDoubt' = imageDoubt /\ imageDoubt' = imageDoubt
      BY <2>2 DEF QuickLoad
    <3>2. ~ imageDoubt => Whole(rom, time, Restored(rom, machine, image))
      BY <3>1, Known, CopyWhole, Timely
    <3>. QED
      BY <3>1, <3>2, Known DEF Restored
  <2>. QED
    BY <2>1, <2>2
<1>. QED
  BY <1>1, <1>2, <1>3, Known, Booleans, Together

(* The image is written before the card is, and is whole however the       *)
(* writing to the card ends.                                               *)
LEMMA StateSaveStep == SavesInv /\ StateSave => SavesInv'
<1>. SUFFICES ASSUME SavesInv, StateSave PROVE SavesInv'
  OBVIOUS
<1>1. /\ image' = Overwritten(rom, machine, image) /\ imageDoubt' = machineDoubt
      /\ time' = time /\ phase' = phase /\ card' = card /\ rom' = rom /\ path' = path
      /\ loaded' = loaded /\ battery' = battery /\ based' = based /\ machine' = machine
      /\ machineDoubt' = machineDoubt
  BY DEF StateSave, session
<1>2. ~ machineDoubt => Whole(rom, time, image')
  BY <1>1, Known, CopyWhole, Timely
<1>3. PICK e \in SaveEnds(states[rom], image', machineDoubt) :
        /\ states' = [states EXCEPT ![rom] = e.file]
        /\ available' = (available \/ e.ok)
        /\ message' = IF e.ok THEN "saved" ELSE "save failed"
  BY DEF StateSave
<1>4. available' \in BOOLEAN
  BY <1>3, Zenon
<1>5. StateOwn(rom, time, e.file)
  <2>1. StateOwn(rom, time, File(image', machineDoubt))
    BY <1>2, Booleans DEF StateOwn, File
  <2>2. StateOwn(rom, time, states[rom])
    BY Known, Timely DEF CardOwn
  <2>. QED
    BY <2>1, <2>2, EndsOwn
<1>6. CardOwn(time, battery', states')
  <2>1. ASSUME NEW g \in Games PROVE StateOwn(g, time, states'[g])
    <3>1. states'[g] = IF g = rom THEN e.file ELSE states[g]
      BY <1>3, Booleans
    <3>. QED
      BY <3>1, <1>5, Known DEF CardOwn
  <2>. QED
    BY <1>1, <2>1, Known DEF CardOwn
<1>7. message' \in {"none", "saved", "save failed", "loaded", "load failed"}
  BY <1>3
<1>8. DOMAIN states' = Games
  BY <1>3, Booleans
<1>. QED
  BY <1>1, <1>2, <1>4, <1>6, <1>7, <1>8, Known, Booleans, Together

LEMMA StateLoadStep == SavesInv /\ StateLoad => SavesInv'
<1>. SUFFICES ASSUME SavesInv, StateLoad PROVE SavesInv'
  OBVIOUS
<1>1. /\ Readable(states[rom]) /\ image' = states[rom].pages
      /\ machine' = Restored(rom, machine, image')
      /\ imageDoubt' = states[rom].doubt /\ machineDoubt' = states[rom].doubt
      /\ available' = TRUE /\ based' = TRUE /\ message' = "loaded"
      /\ time' = time /\ phase' = phase /\ card' = card /\ rom' = rom /\ path' = path
      /\ loaded' = loaded /\ battery' = battery /\ states' = states
  BY DEF StateLoad, files, session
<1>2. /\ states[rom].doubt \in BOOLEAN
      /\ ~ states[rom].doubt => Whole(rom, time, image')
  BY <1>1, Known, Timely DEF CardOwn, StateOwn
<1>3. /\ ~ states[rom].doubt => Whole(rom, time, machine')
      /\ DOMAIN machine' = Pages(rom)
  <2>1. ~ states[rom].doubt => Whole(rom, time, Restored(rom, machine, image'))
    BY <1>2, CopyWhole, Timely
  <2>. QED
    BY <1>1, <2>1 DEF Restored
<1>. QED
  BY <1>1, <1>2, <1>3, Known, Booleans, Together

LEMMA FailedStep == SavesInv /\ (StateSaveFails \/ StateLoadFails) => SavesInv'
<1>. SUFFICES ASSUME SavesInv, StateSaveFails \/ StateLoadFails PROVE SavesInv'
  OBVIOUS
<1>1. /\ message' \in {"save failed", "load failed"}
      /\ UNCHANGED <<phase, card, rom, path, machine, loaded, image, available, battery,
                     states, time, based, machineDoubt, imageDoubt>>
  BY DEF StateSaveFails, StateLoadFails, files, session
<1>. QED
  BY <1>1, Known, Booleans, Together

(* Leaving writes the cartridge's RAM under the game's own name.           *)
LEMMA LeaveGameStep == SavesInv /\ LeaveGame => SavesInv'
<1>. SUFFICES ASSUME SavesInv, LeaveGame PROVE SavesInv'
  OBVIOUS
<1>1. /\ phase' = "menu" /\ message' = "none" /\ based' = FALSE
      /\ machine' = Fresh(rom) /\ machineDoubt' = FALSE
      /\ UNCHANGED <<card, rom, path, loaded, image, available, states, time, imageDoubt>>
  BY DEF LeaveGame, Unloaded
<1>. DEFINE r == [p \in RamPages(rom) |-> machine[p]]
<1>2. BatteryOwn(rom, time, File(r, machineDoubt))
  <2>1. ~ machineDoubt => r \in [RamPages(rom) -> Own(rom, time)]
    BY Known, PageFacts, Timely DEF Whole
  <2>. QED
    BY <2>1, Booleans DEF BatteryOwn, File
<1>3. \/ battery' = battery
      \/ \E e \in SaveEnds(battery[rom], r, machineDoubt) :
           battery' = [battery EXCEPT ![rom] = e.file]
  BY Zenon DEF LeaveGame, SramWritten
<1>. HIDE DEF r
<1>4. DOMAIN battery' = Games /\ CardOwn(time, battery', states')
  <2>1. CASE battery' = battery
    BY <1>1, <2>1, Known, Booleans
  <2>2. CASE \E e \in SaveEnds(battery[rom], r, machineDoubt) :
               battery' = [battery EXCEPT ![rom] = e.file]
    <3>1. PICK e \in SaveEnds(battery[rom], r, machineDoubt) :
            battery' = [battery EXCEPT ![rom] = e.file]
      BY <2>2
    <3>2. BatteryOwn(rom, time, e.file)
      BY <1>2, EndsOwn, Known, Timely DEF CardOwn
    <3>3. \A g \in Games : battery'[g] = IF g = rom THEN e.file ELSE battery[g]
      BY <3>1, Booleans
    <3>. QED
      BY <1>1, <3>1, <3>2, <3>3, Known, Booleans DEF CardOwn
  <2>. QED
    BY <1>3, <2>1, <2>2
<1>5. ~ machineDoubt' => Whole(rom', time', machine')
  BY <1>1, FreshWhole, Timely
<1>6. DOMAIN machine' = Pages(rom')
  BY <1>1 DEF Fresh
<1>. QED
  BY <1>1, <1>4, <1>5, <1>6, Known, Booleans, Together

LEMMA RemoveSaveStep == SavesInv /\ RemoveSave => SavesInv'
<1>. SUFFICES ASSUME SavesInv, RemoveSave PROVE SavesInv'
  OBVIOUS
<1>1. /\ message' = "none"
      /\ UNCHANGED <<phase, card, rom, path, machine, loaded, image, available, time, based,
                     machineDoubt, imageDoubt>>
  BY DEF RemoveSave, session
<1>2. PICK h \in Games : \/ battery' = [battery EXCEPT ![h] = None] /\ UNCHANGED states
                         \/ states' = [states EXCEPT ![h] = None] /\ UNCHANGED battery
  BY DEF RemoveSave
<1>3. DOMAIN battery' = Games /\ DOMAIN states' = Games
  BY <1>2, Booleans
<1>4. \A g \in Games : battery'[g] \in {battery[g], None} /\ states'[g] \in {states[g], None}
  BY <1>2, Booleans
<1>5. CardOwn(time, battery', states')
  BY <1>4, NoFileOwn, Known DEF CardOwn
<1>. QED
  BY <1>1, <1>3, <1>5, Known, Booleans, Together

LEMMA SwitchOffStep == SavesInv /\ SwitchOff => SavesInv'
<1>. SUFFICES ASSUME SavesInv, SwitchOff PROVE SavesInv'
  OBVIOUS
<1>1. /\ phase' = "off" /\ card' = FALSE /\ rom' = Default /\ path' = Start
      /\ machine' = Fresh(Default)
      /\ loaded' = FALSE /\ image' = <<>> /\ available' = FALSE /\ message' = "none"
      /\ based' = FALSE /\ machineDoubt' = FALSE /\ imageDoubt' = FALSE
      /\ battery' = battery /\ states' = states /\ time' = time
  BY DEF SwitchOff, Off, files
<1>2. Whole(Default, time, machine') /\ DOMAIN machine' = Pages(Default)
  BY <1>1, FreshWhole, Timely DEF Fresh
<1>3. Start \in Paths
  BY GamesAssumption
<1>. QED
  BY <1>1, <1>2, <1>3, Known, Booleans, Timely, Together

LEMMA SavesStep == SavesInv /\ [Next]_vars => SavesInv'
<1>. SUFFICES ASSUME SavesInv, [Next]_vars PROVE SavesInv'
  OBVIOUS
<1>1. CASE SwitchOn
  <2>1. /\ LoadGame(Default) /\ card' \in BOOLEAN /\ path' = Start
        /\ available' = FALSE /\ imageDoubt' = FALSE
    BY <1>1, Zenon DEF SwitchOn
  <2>2. Start \in Paths
    BY GamesAssumption
  <2>. QED
    BY <2>1, <2>2, Booleans, LoadGameStep, Timely
<1>2. CASE \E g \in Games, p \in Paths : StartGame(g, p)
  <2>1. PICK g \in Games, p \in Paths : StartGame(g, p)
    BY <1>2
  <2>2. /\ LoadGame(g) /\ card' \in BOOLEAN /\ path' \in Paths
        /\ available' = (available /\ p = path)
        /\ imageDoubt' = (imageDoubt \/ (p = path /\ g # rom))
    BY <2>1, Booleans, Zenon DEF StartGame
  <2>3. available' \in BOOLEAN /\ imageDoubt' \in BOOLEAN
    BY <2>2, Zenon
  <2>4. available' /\ ~ imageDoubt' => available /\ ~ imageDoubt /\ g = rom
    BY <2>2, Zenon
  <2>. QED
    BY <2>2, <2>3, <2>4, LoadGameStep
<1>3. CASE UNCHANGED vars
  <2>1. UNCHANGED <<phase, card, rom, path, machine, loaded, image, available, battery, states,
                    message, time, based, machineDoubt, imageDoubt>>
    BY <1>3 DEF vars, files
  <2>. QED
    BY <2>1, Known, Booleans, Together
<1>. QED
  BY <1>1, <1>2, <1>3, PlayStep, QuickStep, StateSaveStep, StateLoadStep, FailedStep,
     LeaveGameStep, RemoveSaveStep, SwitchOffStep, Zenon DEF Next

LEMMA SavesAlways == Spec => []SavesInv
BY SavesInit, SavesStep, PTL DEF Spec

(* Every file on the card holds what its name promises, unless it was      *)
(* entered by a disturbed save or written from a machine in doubt.         *)
THEOREM FilesHoldTheirOwn ==
  ASSUME ReadsFail = FALSE
  PROVE  Spec => []FilesOwn
<1>1. SavesInv => FilesOwn
  BY DEF SavesInv
<1>. QED
  BY <1>1, SavesAlways, PTL

(* The running machine is never a mixture of games or of moments, unless   *)
(* a file in doubt was loaded, or the quick state after discs with         *)
(* different ROMs at one path were exchanged.                              *)
THEOREM MachineNeverMixed ==
  ASSUME ReadsFail = FALSE
  PROVE  Spec => []MachineWhole
<1>1. SavesInv => MachineWhole
  BY DEF SavesInv
<1>. QED
  BY <1>1, SavesAlways, PTL

(* The quick menu never offers half a state, nor, while the disc stays,    *)
(* another game's.                                                         *)
THEOREM QuickStateIsTheGames ==
  ASSUME ReadsFail = FALSE
  PROVE  Spec => []QuickStateWhole
<1>1. SavesInv => QuickStateWhole
  BY DEF SavesInv
<1>. QED
  BY <1>1, SavesAlways, PTL

(***************************************************************************)
(* A state that is loaded from the card is the machine that was saved, as  *)
(* long as no save of it was disturbed.                                    *)
(***************************************************************************)

IsMachine(g, m) == m = [p \in Pages(g) |-> m[p]]
(* What is kept of a game is what its file restores.                       *)
Keeps(g, k, file) ==
  k # Unknown =>
    /\ IsMachine(g, k) /\ k[0].game = g
    /\ Readable(file) =>
         /\ Pages(g) \subseteq DOMAIN file.pages
         /\ \A p \in Pages(g) : file.pages[p] = k[p]
KeptInv ==
  /\ rom \in Games /\ DOMAIN states = Games
  /\ IsMachine(rom, machine)
  /\ DOMAIN kept = Games
  /\ \A g \in Games : Keeps(g, kept[g], states[g])

(* Every step makes the machine a function on the pages of its game.       *)
LEMMA MachineStep ==
  ASSUME KeptInv, [Next]_vars
  PROVE  rom' \in Games /\ IsMachine(rom', machine')
<1>1. ASSUME NEW g \in Games, LoadGame(g) PROVE rom' \in Games /\ IsMachine(rom', machine')
  BY <1>1 DEF LoadGame, SramLoad, WithRam, Fresh, IsMachine
<1>2. CASE SwitchOn
  BY <1>1, <1>2, GamesAssumption DEF SwitchOn
<1>3. CASE \E g \in Games, p \in Paths : StartGame(g, p)
  BY <1>1, <1>3 DEF StartGame
<1>4. CASE Play
  <2>1. rom' = rom /\ \E changed :
          machine' = [p \in Pages(rom) |->
            IF machine[p].game = rom /\ (p \notin RamPages(rom) \/ p \in changed)
            THEN Page(rom, time') ELSE machine[p]]
    BY <1>4 DEF Play, session
  <2>. QED
    BY <2>1 DEF KeptInv, IsMachine
<1>5. CASE QuickLoad \/ StateLoad
  BY <1>5 DEF QuickLoad, StateLoad, Restored, IsMachine, KeptInv, session
<1>6. CASE SwitchOff
  BY <1>6, GamesAssumption DEF SwitchOff, Off, Fresh, IsMachine
<1>7. CASE LeaveGame
  BY <1>7 DEF LeaveGame, Unloaded, Fresh, IsMachine, KeptInv
<1>8. CASE QuickSave \/ StateSave \/ StateSaveFails \/ StateLoadFails
           \/ RemoveSave \/ UNCHANGED vars
  <2>1. rom' = rom /\ machine' = machine
    BY <1>8 DEF QuickSave, StateSave, StateSaveFails, StateLoadFails,
       RemoveSave, vars, session
  <2>. QED
    BY <2>1 DEF KeptInv, IsMachine
<1>. QED
  BY <1>2, <1>3, <1>4, <1>5, <1>6, <1>7, <1>8 DEF Next

(* A state file changes when a state is saved, which is then kept if       *)
(* nothing disturbed the call, or when it is removed.                      *)
LEMMA KeptStep ==
  ASSUME KeptInv, [Next]_vars
  PROVE  KeptInv'
<1>1. rom' \in Games /\ IsMachine(rom', machine')
  BY MachineStep
<1>2. ASSUME kept' = kept, DOMAIN states' = Games,
             \A g \in Games : states'[g] \in {states[g], None}
      PROVE  KeptInv'
  <2>1. \A g \in Games : Keeps(g, kept'[g], states'[g])
    BY <1>2 DEF KeptInv, Keeps, Readable, None
  <2>. QED
    BY <1>1, <1>2, <2>1 DEF KeptInv
<1>3. CASE StateSave
  <2>1. PICK e \in SaveEnds(states[rom], image', machineDoubt) :
          /\ states' = [states EXCEPT ![rom] = e.file]
          /\ kept' = IF e.clean /\ ~ e.ok THEN kept
                     ELSE [kept EXCEPT ![rom] =
                             IF e.clean /\ machine[0].game = rom THEN machine ELSE Unknown]
    BY <1>3 DEF StateSave
  <2>2. DOMAIN states' = Games /\ \A g \in Games : states'[g] = IF g = rom THEN e.file ELSE states[g]
    BY <2>1 DEF KeptInv
  <2>3. EndOf(e, states[rom], File(image', machineDoubt))
    BY EndCases
  <2>4. CASE e.clean /\ ~ e.ok
    <3>1. e.file = states[rom]
      BY <2>4, <2>3, Zenon DEF EndOf
    <3>. QED
      BY <1>2, <2>1, <2>2, <2>4, <3>1
  <2>5. CASE ~ (e.clean /\ ~ e.ok)
    <3>1. DOMAIN kept' = Games /\ \A g \in Games : kept'[g] =
            IF g = rom THEN IF e.clean /\ machine[0].game = rom THEN machine ELSE Unknown
            ELSE kept[g]
      BY <2>1, <2>5 DEF KeptInv
    <3>2. ASSUME e.clean, machine[0].game = rom
          PROVE  Keeps(rom, machine, e.file)
      <4>1. e.file = File(image', machineDoubt)
        BY <2>5, <2>3, <3>2, Zenon DEF EndOf
      <4>2. image' = Overwritten(rom, machine, image)
        BY <1>3 DEF StateSave
      <4>3. e.file.pages = image'
        BY <4>1 DEF File
      <4>. QED
        BY <3>2, <4>2, <4>3 DEF Keeps, KeptInv, Overwritten
    <3>3. Keeps(rom, Unknown, e.file)
      BY DEF Keeps
    <3>4. ASSUME NEW g \in Games PROVE Keeps(g, kept'[g], states'[g])
      BY <2>2, <3>1, <3>2, <3>3 DEF KeptInv
    <3>. QED
      BY <1>1, <2>2, <3>1, <3>4 DEF KeptInv
  <2>. QED
    BY <2>4, <2>5
<1>4. CASE RemoveSave
  <2>1. PICK h \in Games : \/ UNCHANGED states
                           \/ states' = [states EXCEPT ![h] = None]
    BY <1>4 DEF RemoveSave
  <2>2. DOMAIN states' = Games /\ \A g \in Games : states'[g] \in {states[g], None}
    BY <2>1 DEF KeptInv
  <2>. QED
    BY <1>2, <1>4, <2>2 DEF RemoveSave
<1>5. CASE ~ (StateSave \/ RemoveSave)
  <2>1. kept' = kept /\ states' = states
    BY <1>5 DEF Next, SwitchOn, StartGame, LoadGame, Play, QuickSave, QuickLoad, StateLoad,
       StateSaveFails, StateLoadFails, LeaveGame, Unloaded, SwitchOff, files, vars
  <2>. QED
    BY <1>2, <2>1 DEF KeptInv
<1>. QED
  BY <1>3, <1>4, <1>5

LEMMA KeptInit == Init => KeptInv
BY GamesAssumption DEF Init, KeptInv, Keeps, IsMachine, Fresh

(* Loading a state from the card brings back exactly the machine that the  *)
(* last successful save of it found, though every state passes through one *)
(* image in which a longer game's pages stay behind: unless a save of that *)
(* file was disturbed, or misread the directory.                           *)
THEOREM StatesComeBack ==
  ASSUME ReadsFail = FALSE
  PROVE  Spec => StateRestored
<1>1. ASSUME KeptInv, StateLoad, kept[rom] # Unknown PROVE machine' = kept[rom]
  <2>1. /\ Readable(states[rom]) /\ rom \in Games
        /\ machine' = Restored(rom, machine, states[rom].pages)
    BY <1>1 DEF StateLoad, KeptInv
  <2>2. Keeps(rom, kept[rom], states[rom])
    BY <1>1, <2>1 DEF KeptInv
  <2>3. /\ Pages(rom) \subseteq DOMAIN states[rom].pages
        /\ \A p \in Pages(rom) : states[rom].pages[p] = kept[rom][p]
        /\ kept[rom][0].game = rom /\ IsMachine(rom, kept[rom])
    BY <1>1, <2>1, <2>2 DEF Keeps
  <2>4. machine' = [p \in Pages(rom) |-> kept[rom][p]]
    BY <2>1, <2>3, PageFacts DEF Restored
  <2>. QED
    BY <2>3, <2>4 DEF IsMachine
<1>2. Init => KeptInv
  BY KeptInit
<1>3. KeptInv /\ [Next]_vars => KeptInv'
  BY KeptStep
<1>4. KeptInv /\ [Next]_vars =>
        [StateLoad /\ kept[rom] # Unknown => machine' = kept[rom]]_vars
  BY <1>1
<1>. QED
  BY <1>2, <1>3, <1>4, PTL DEF Spec, StateRestored

(***************************************************************************)
(* A battery file that could not be read is not written over.              *)
(***************************************************************************)

LoadedBased == phase = "game" /\ loaded => based

(* sram_load sets ram.loaded only when it has the file, or knows there is  *)
(* none, as long as the reading of it does not fail.                       *)
LEMMA LoadedStep ==
  ASSUME ReadsFail = FALSE, LoadedBased, [Next]_vars
  PROVE  LoadedBased'
<1>1. ASSUME NEW g, LoadGame(g) PROVE LoadedBased'
  <2>1. CASE phase' = "game" /\ SramLoad(g)
    <3>1. loaded' = (card' /\ g \in Battery)
      BY <2>1 DEF SramLoad
    <3>2. CASE card' /\ g \in Battery
      BY <2>1, <3>2, Zenon DEF SramLoad, LoadedBased
    <3>3. CASE ~ (card' /\ g \in Battery)
      BY <3>1, <3>3, Zenon DEF LoadedBased
    <3>. QED
      BY <3>2, <3>3
  <2>2. CASE phase' = "menu"
    BY <2>2 DEF LoadedBased
  <2>. QED
    BY <1>1, <2>1, <2>2 DEF LoadGame
<1>2. CASE SwitchOn \/ \E g \in Games, p \in Paths : StartGame(g, p)
  BY <1>1, <1>2 DEF SwitchOn, StartGame
<1>3. CASE QuickLoad \/ StateLoad
  BY <1>3 DEF QuickLoad, StateLoad, LoadedBased
<1>4. CASE LeaveGame \/ RemoveSave \/ SwitchOff
  BY <1>4 DEF LeaveGame, RemoveSave, SwitchOff, Off, LoadedBased, session
<1>5. CASE Play \/ QuickSave \/ StateSave \/ StateSaveFails \/ StateLoadFails
           \/ UNCHANGED vars
  <2>1. phase' = phase /\ loaded' = loaded /\ based' = based
    BY <1>5 DEF Play, QuickSave, StateSave, StateSaveFails, StateLoadFails, vars, session
  <2>. QED
    BY <2>1 DEF LoadedBased
<1>. QED
  BY <1>2, <1>3, <1>4, <1>5 DEF Next

(* A game that could not read its battery file does not overwrite it, as   *)
(* long as the card's reads do not fail: the run saves_unread shows the    *)
(* hypothesis is needed.                                                   *)
THEOREM UnreadIsSafe ==
  ASSUME ReadsFail = FALSE
  PROVE  Spec => UnreadNotOverwritten
<1>1. ASSUME LoadedBased, Next, phase = "game", battery' # battery PROVE based
  <2>1. LeaveGame
    BY <1>1 DEF Next, SwitchOn, StartGame, LoadGame, Play, QuickSave, QuickLoad, StateSave,
       StateLoad, StateSaveFails, StateLoadFails, RemoveSave, SwitchOff, files
  <2>2. loaded
    BY <1>1, <2>1 DEF LeaveGame
  <2>. QED
    BY <1>1, <2>2 DEF LoadedBased
<1>2. LoadedBased /\ [Next]_vars =>
        [phase = "game" /\ battery' # battery => based]_vars
  BY <1>1
<1>3. Init => LoadedBased
  BY DEF Init, LoadedBased
<1>4. LoadedBased /\ [Next]_vars => LoadedBased'
  BY LoadedStep
<1>. QED
  BY <1>2, <1>3, <1>4, PTL DEF Spec, UnreadNotOverwritten
=============================================================================
