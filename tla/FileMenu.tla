------------------------------- MODULE FileMenu -------------------------------
(***************************************************************************)
(* The menu in which a game is chosen from the disc (sys/dc/dc_menu.c).    *)
(* For every directory it has shown it remembers the cursor: the first     *)
(* line shown and the row in the window.  The disc may be exchanged or the *)
(* drive opened at any time: what a directory holds is settled only when   *)
(* it is read, and the menu goes on with the list it has read.             *)
(***************************************************************************)
EXTENDS Integers, Sequences, FiniteSets, SequencesExt

CONSTANTS
  Dirs, Root,   \* directories, and the one the menu begins at and returns to
  Parent,       \* the directory a directory is in; Root is in itself
  FileCounts,   \* how many files a directory may hold, on one disc or another
  FileRows,     \* lines of the window (FM_DRAW_LINES, 20)
  MaxFiles,     \* entries of a directory that are read (FM_MAX_FILES, 1024)
  MaxStatus,    \* directories whose cursor is remembered (FM_DIRSTAT_MAX, 256)
  FilePresses,  \* sets of buttons the player may hold down at once
  Broken        \* directories that cannot be read on any disc

ASSUME FileMenuAssumption ==
  /\ IsFiniteSet(Dirs) /\ Root \in Dirs /\ Parent \in [Dirs -> Dirs] /\ Parent[Root] = Root
  /\ FileCounts \subseteq Nat
  /\ FileRows \in Nat \ {0} /\ MaxFiles \in Nat \ {0} /\ MaxStatus \in Nat \ {0}
  /\ Broken \subseteq Dirs \ {Root}
  /\ FilePresses \subseteq SUBSET {"up", "down", "left", "right",
                               "start", "a", "y", "triggers"}

VARIABLES
  stage,  \* "main": in the main menu; "read": a directory is about to be read;
          \* "pad": the list is shown and the pad is polled
  path,   \* the directory to read, or shown
  list,   \* the entries read: subdirectories, then files
  dirstat, \* fm_dirstat
  result  \* the directory whose file was chosen last

filesVars == <<stage, path, list, dirstat, result>>

File == "file"

Subdirs(p) == SetToSeq({q \in Dirs \ {Root} : Parent[q] = p})

\* What fm_read_index finds where there are n files: directories and files.
Entries(p, n) ==
  LET all == Subdirs(p) \o [i \in 1 .. n |-> File]
  IN  SubSeq(all, 1, IF Len(all) < MaxFiles THEN Len(all) ELSE MaxFiles)

Status == [path : Dirs, base : Nat, row : 0 .. FileRows - 1, num : 0 .. MaxFiles]
NewStatus(p, n) == [path |-> p, base |-> 0, row |-> 0, num |-> n]

FilesTypeOK ==
  /\ stage \in {"main", "read", "pad"}
  /\ path \in Dirs /\ result \in Dirs
  /\ list \in Seq(Dirs \cup {File}) /\ Len(list) <= MaxFiles
  /\ dirstat \in Seq(Status) /\ Len(dirstat) <= MaxStatus

FilesInit ==
  /\ stage = "main"
  /\ path = Root /\ list = <<>> /\ dirstat = <<>>
  /\ result \in Dirs
-----------------------------------------------------------------------------
\* fm_find_dir_status: where the cursor of p is remembered; when the table is
\* full a new directory takes the first place.
KnownAt(p) == SelectInSeq(dirstat, LAMBDA s : s.path = p)
Slot(p) ==
  CASE KnownAt(p) # 0 -> KnownAt(p)
    [] KnownAt(p) = 0 /\ Len(dirstat) = MaxStatus -> 1
    [] OTHER -> Len(dirstat) + 1

\* The beginning of fm_do_body: the cursor is kept if the directory has as many
\* entries as before.
Remembered(p, n) ==
  IF KnownAt(p) # 0 /\ dirstat[KnownAt(p)].num = n
  THEN dirstat[KnownAt(p)]
  ELSE NewStatus(p, n)

PutAt(i, s) == IF i <= Len(dirstat) THEN [dirstat EXCEPT ![i] = s] ELSE Append(dirstat, s)

\* do_rom_menu_and_run: the menu begins where the last file was chosen.
OpenFiles ==
  /\ stage = "main"
  /\ stage' = "read"
  /\ path' = result
  /\ UNCHANGED <<list, dirstat, result>>

Read(n) ==
  /\ stage = "read" /\ path \notin Broken
  /\ stage' = "pad"
  /\ list' = Entries(path, n)
  /\ dirstat' = PutAt(Slot(path), Remembered(path, Len(list')))
  /\ UNCHANGED <<path, result>>

\* The root can always be read: with no disc in the drive the menu would come
\* back here for ever (see MenuAnswers).
Unreadable == stage = "read" /\ path # Root

ReadFailsAgain == Unreadable /\ UNCHANGED filesVars

\* A directory that cannot be read leads back to the root.
ReadFails ==
  /\ Unreadable
  /\ path' = Root
  /\ UNCHANGED <<stage, list, dirstat, result>>
-----------------------------------------------------------------------------
(* The pad.  One turn of the loop looks at all buttons, in this order.     *)

Current == dirstat[KnownAt(path)]
AtLeastZero(n) == IF n > 0 THEN n ELSE 0
Place(s) == s.base + s.row

FileUp(s) == IF s.row > 0 THEN [s EXCEPT !.row = @ - 1]
         ELSE [s EXCEPT !.base = AtLeastZero(@ - 1)]

FileDown(s) ==
  CASE s.row < FileRows - 1 /\ Place(s) < s.num - 1 -> [s EXCEPT !.row = @ + 1]
    [] s.row = FileRows - 1 /\ s.base + FileRows < s.num -> [s EXCEPT !.base = @ + 1]
    [] OTHER -> s

PageUp(s) == [s EXCEPT !.base = AtLeastZero(@ - FileRows)]

PageDownWhole(s) ==
  IF s.base + FileRows < s.num THEN [s EXCEPT !.base = @ + FileRows] ELSE s
\* Line by line, until the window shows the last entry.
PageDown(s) ==
  IF s.base + FileRows < s.num
  THEN [s EXCEPT !.base = IF @ + 2 * FileRows <= s.num THEN @ + FileRows
                          ELSE s.num - FileRows]
  ELSE s

If(button, pressed, Op(_), s) == IF button \in pressed THEN Op(s) ELSE s
CursorMoved(pressed) ==
  If("right", pressed, PageDown,
    If("left", pressed, PageUp,
      If("down", pressed, FileDown,
        If("up", pressed, FileUp, Current))))

EntryAt(s) == IF Place(s) < Len(list) THEN list[Place(s) + 1] ELSE "none"

\* What the buttons that are not for moving do with the entry the cursor is on.
Answer(pressed, entry) ==
  IF "start" \in pressed /\ entry = File THEN "choose"
  ELSE IF "a" \in pressed /\ entry \in Dirs THEN "enter"
  ELSE IF "y" \in pressed THEN "back"
  ELSE IF "triggers" \in pressed THEN "leave"
  ELSE "stay"

PollFiles(pressed) ==
  /\ stage = "pad"
  /\ LET s      == CursorMoved(pressed)
         entry  == EntryAt(s)
         answer == Answer(pressed, entry)
     IN  /\ dirstat' = [dirstat EXCEPT ![KnownAt(path)] = s]
         /\ stage' = CASE answer \in {"choose", "leave"} -> "main"
                    [] answer \in {"enter", "back"} -> "read"
                    [] OTHER -> "pad"
         /\ path' = CASE answer = "enter" -> entry
                      [] answer = "back" -> Parent[path]
                      [] OTHER -> path
         /\ result' = IF answer = "choose" THEN path ELSE result
  /\ UNCHANGED list

FilesNext == \/ OpenFiles \/ ReadFails
        \/ \E n \in FileCounts : Read(n)
        \/ \E pressed \in FilePresses : PollFiles(pressed)

\* The menu's loop is the only thread.
FilesSpec == /\ FilesInit /\ [][FilesNext]_filesVars
             /\ WF_filesVars(ReadFails \/ \E n \in FileCounts : Read(n))
-----------------------------------------------------------------------------
\* The cursor is on an entry of the list, and the window is full when it does
\* not begin at the top: nothing that is not listed can be chosen, and nothing
\* that is listed cannot be reached.
CursorListed ==
  \A s \in ToSet(dirstat) :
    /\ Place(s) < s.num \/ (s.num = 0 /\ Place(s) = 0)
    /\ s.base > 0 => s.base + FileRows <= s.num

\* While a list is shown its cursor is the one remembered for its directory, and
\* belongs to a list of this length; no directory is remembered twice.
StatusOfList ==
  /\ stage = "pad" => KnownAt(path) # 0 /\ Current.num = Len(list)
  /\ IsInjective([i \in DOMAIN dirstat |-> dirstat[i].path])

\* Every cursor that is used fits the list it is used with, and the table of
\* cursors stays within its size.
CursorsFit == FilesTypeOK /\ CursorListed /\ StatusOfList

\* From a directory that cannot be read the menu gets back to the pad.  This
\* needs a root that can: fm_do_body answers a failure with the root.
MenuAnswers == stage = "read" ~> stage = "pad"
=============================================================================
