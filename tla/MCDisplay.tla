------------------------------ MODULE MCDisplay ------------------------------
(***************************************************************************)
(* What the player looks at, checked in one run: a line of the picture,    *)
(* the picture made of lines, the way of a picture to the screen, the menu *)
(* of games and the menu of saves.  They share no variable: a behaviour    *)
(* chooses one of them and runs it, and the others stay where they begin.  *)
(***************************************************************************)
EXTENDS Scanline, Screen, Flip, FileMenu, VmuMenu

VARIABLE part

Parts == {"line", "picture", "flip", "files", "saves"}

\* The beginnings that do not matter to the chosen part are not varied.
MCInit ==
  /\ part \in Parts
  /\ ScanlineInit /\ ScreenInit /\ FlipInit /\ FilesInit /\ SavesInit
  /\ part # "files" => result = Root
  /\ part # "saves" => card = <<>>

\* After other lines than those of Followed no line is drawn: the bound on lines.
LineDone == /\ part = "line" /\ ~ (last \subseteq Followed)
            /\ UNCHANGED <<scanlineVars, screenVars, flipVars, filesVars, savesVars>>

MCNext ==
  /\ UNCHANGED part
  /\ \/ part = "line" /\ ScanlineNext /\ UNCHANGED <<screenVars, flipVars, filesVars, savesVars>>
     \/ LineDone
     \/ part = "picture" /\ ScreenNext /\ UNCHANGED <<scanlineVars, flipVars, filesVars, savesVars>>
     \/ part = "flip" /\ FlipNext /\ UNCHANGED <<scanlineVars, screenVars, filesVars, savesVars>>
     \/ part = "files" /\ FilesNext /\ UNCHANGED <<scanlineVars, screenVars, flipVars, savesVars>>
     \/ part = "saves" /\ SavesNext /\ UNCHANGED <<scanlineVars, screenVars, flipVars, filesVars>>

\* The fairness of FileMenu and of Flip, for the part that runs.
MCSpec ==
  /\ MCInit /\ [][MCNext]_<<part, scanlineVars, screenVars, flipVars, filesVars, savesVars>>
  /\ WF_filesVars(part = "files" /\ (ReadFails \/ \E n \in FileCounts : Read(n)))
  /\ WF_flipVars(part = "flip" /\ (Copy \/ WaitReady \/ Submit))
  /\ WF_flipVars(part = "flip" /\ OpaqueDone)
  /\ WF_flipVars(part = "flip" /\ (RenderDone \/ RenderDoneLost))
  /\ WF_flipVars(part = "flip" /\ ScanInt)

\* What the player does is answered: a directory that cannot be read by another
\* one, and a flip by its return.
DisplayAnswers == MenuAnswers /\ (part = "flip" => FlipReturns)
-----------------------------------------------------------------------------
\* Pixels of four tiles in each layer, one of them mirrored, one upside down and
\* one above the sprites.
MCSolid == {<<"bg", 0, 0>>, <<"bg", 1, 1>>, <<"bg", 3, 0>>, <<"bg", 3, 1>>,
            <<"wnd", 0, 1>>, <<"wnd", 1, 0>>}
MCMirrored == {<<"bg", 1>>, <<"wnd", 1>>}
MCUpside == {<<"bg", 0>>}
MCAbove == {<<"bg", 1>>, <<"wnd", 0>>}

Object(ox, oy, behind, mirrored, upside, pattern) ==
  [x |-> ox, y |-> oy, behind |-> behind, mirrored |-> mirrored, upside |-> upside,
   pattern |-> pattern]
Whole == {0, 1}
Plain == {Object(ox, oy, FALSE, FALSE, ox = 2, Whole) : ox \in {0, 2, 3}, oy \in {3, 4, 6}}
Fancy == {Object(ox, 4, b, m, FALSE, p) : ox \in {2, 3, 5}, b, m \in BOOLEAN, p \in {{0}, Whole}}
Behind == <<Object(3, 4, TRUE, FALSE, FALSE, Whole)>>

LineState(cgb, row, scx, scy, wx, wy, wnd, tall, obj, oam) ==
  [cgb |-> cgb, L |-> row, scx |-> scx, scy |-> scy, wx |-> wx, wy |-> wy, wnd |-> wnd,
   tall |-> tall, obj |-> obj, oam |-> oam]

\* Another line is drawn after four that leave different things in the buffers.
MCFollowed == {LineState(c, 1, 3, 0, 1, 0, w, FALSE, TRUE, Behind) : c, w \in BOOLEAN}

\* Every scroll position with every place of the window; pairs of sprites of all
\* kinds over three windows; three sprites, of which two are drawn.
MCLineStates ==
  MCFollowed
    \cup {LineState(c, 1, sx, 7, w, 0, TRUE, FALSE, obj, Behind) :
             c, obj \in BOOLEAN, sx \in 0 .. 7, w \in -1 .. 4}
    \cup {LineState(c, 1, 3, 0, w, 0, TRUE, FALSE, TRUE, <<o, p>>) :
             c \in BOOLEAN, w \in {-1, 1, 4}, o, p \in Fancy}
    \cup {LineState(c, 1, 0, 0, 3, 2, TRUE, t, TRUE, <<o, p, r>>) :
             c, t \in BOOLEAN, o, p, r \in Plain}

\* Four directories.
MCParent == [x \in Dirs |-> IF x = "deep" THEN "sub" ELSE "root"]
MCFilePresses ==
  {{b} : b \in {"up", "down", "left", "right", "start", "a", "y", "triggers"}}
    \cup {{"up", "down"}, {"down", "right"}, {"right", "start"}, {"left", "right", "a", "y"}}

\* Three saves, another program's file and three cards, one with a save twice.
MCCards == {<<"other", "red", "blue", "gold">>, <<"gold", "other", "gold">>, <<>>}
MCPresses == {{b} : b \in Buttons}
               \cup {{}, {"up", "l"}, {"down", "l"}, {"l", "r"}, {"y", "r"}, {"down", "y", "r"}}
=============================================================================
