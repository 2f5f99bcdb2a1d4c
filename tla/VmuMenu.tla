------------------------------- MODULE VmuMenu -------------------------------
(***************************************************************************)
(* The menu in which saves on the memory card are looked through, marked   *)
(* and removed (do_vmu_menu in sys/dc/dc_menu.c).  It lists the files that *)
(* are gnuboy's own and goes by the list from then on: a file is marked by *)
(* its place in the list, and removed by its name.  Of two files of one    *)
(* name, which a misread directory can leave behind, the first goes.       *)
(*                                                                         *)
(* How files are removed block by block is VmuFs' subject; a card is its   *)
(* directory here.                                                         *)
(***************************************************************************)
EXTENDS Integers, Sequences, SequencesExt

CONSTANTS
  Own, Foreign,  \* names of gnuboy's files; files of other programs, under any
                 \* name, which the application id tells from gnuboy's
  Cards,         \* directories a card may have when it is inserted
  Rows,          \* lines of the window (draw_vmu_files_line, 15)
  Presses        \* sets of buttons the player may hold down at once

Buttons == {"up", "down", "y", "l", "r"}

ASSUME VmuMenuAssumption ==
  /\ Own \cap Foreign = {}
  /\ \A c \in Cards : c \in Seq(Own \cup Foreign)
  /\ Rows \in Nat \ {0}
  /\ Presses \subseteq SUBSET Buttons

VARIABLES
  pc,       \* "main", "pad", or "remove" while marked files are removed
  card,     \* the directory of the card: names in order
  items,    \* vmu_files: the files listed
  selected, \* the places that are marked
  cur, base, \* cur_pos, base_pos
  pulling,  \* pulling_ltrig
  mode,     \* select_mode
  next,     \* the place the removing loop is at
  gone      \* history: names removed since the list was read

menu == <<items, selected, cur, base, pulling, mode>>
savesVars == <<pc, card, menu, next, gone>>

Places == 0 .. Len(items) - 1

SavesTypeOK ==
  /\ pc \in {"main", "pad", "remove"}
  /\ card \in Seq(Own \cup Foreign)
  /\ items \in Seq(Own)
  /\ cur \in Nat /\ base \in Nat
  /\ selected \subseteq Places \cup {0}
  /\ pulling \in BOOLEAN /\ mode \in BOOLEAN
  /\ next \in 0 .. Len(items)
  /\ gone \subseteq Own \cup Foreign

SavesInit ==
  /\ pc = "main" /\ card \in Cards
  /\ items = <<>> /\ selected = {} /\ cur = 0 /\ base = 0
  /\ pulling = FALSE /\ mode = FALSE /\ next = 0 /\ gone = {}
-----------------------------------------------------------------------------
\* The files of the directory that are not in skipped, in order.
Without(dir, skipped) ==
  LET Among[n \in 0 .. Len(dir)] ==
        IF n = 0 THEN <<>>
        ELSE IF dir[n] \in skipped THEN Among[n - 1] ELSE Append(Among[n - 1], dir[n])
  IN  Among[Len(dir)]

\* read_vmu_items: a file is listed if its header can be read and names gnuboy.
OwnFiles(skipped) == Without(card, Foreign \cup skipped)

\* do_vmu_menu; the header blocks of the files in skipped cannot be read.
Open(skipped) ==
  /\ pc = "main"
  /\ pc' = "pad"
  /\ items' = OwnFiles(skipped)
  /\ selected' = {} /\ cur' = 0 /\ base' = 0
  /\ pulling' = FALSE /\ mode' = FALSE
  /\ next' = 0 /\ gone' = {}
  /\ UNCHANGED card

\* One turn of the loop, as far as it concerns the cursor c and the marks.
MarkOn(m) == IF ~ m.pulling THEN m
            ELSE IF m.mode THEN [m EXCEPT !.selected = @ \cup {m.cur}]
            ELSE [m EXCEPT !.selected = @ \ {m.cur}]

Up(m) == MarkOn(IF m.cur > 0
               THEN [m EXCEPT !.base = IF m.cur = @ THEN @ - 1 ELSE @, !.cur = @ - 1]
               ELSE m)

Down(m) == MarkOn(IF m.cur < Len(items) - 1
                 THEN [m EXCEPT !.base = IF m.cur = @ + Rows - 1 THEN @ + 1 ELSE @,
                                !.cur = @ + 1]
                 ELSE m)

Toggle(S, i) == IF i \in S THEN S \ {i} ELSE S \cup {i}

\* The left trigger is pulled: the mark under the cursor changes, and the cursor
\* carries it along.
Mark(m) ==
  IF m.pulling THEN m
  ELSE [m EXCEPT !.pulling = TRUE,
                 !.selected = Toggle(@, m.cur),
                 !.mode = m.cur \notin m.selected]

Now == [cur |-> cur, base |-> base, pulling |-> pulling, mode |-> mode,
        selected |-> selected]
Moved(pressed) ==
  LET up == IF "up" \in pressed THEN Up(Now) ELSE Now
  IN  IF "down" \in pressed THEN Down(up) ELSE up

Becomes(m) ==
  /\ cur' = m.cur /\ base' = m.base /\ pulling' = m.pulling /\ mode' = m.mode
  /\ selected' = m.selected

Removing(pressed) == {"y", "r"} \subseteq pressed
Leaving(pressed) == {"l", "r"} \subseteq pressed /\ ~ Removing(pressed)

Poll(pressed) ==
  /\ pc = "pad"
  /\ CASE Removing(pressed) -> Becomes(Moved(pressed)) /\ pc' = "remove"
       [] Leaving(pressed)  -> Becomes(Moved(pressed)) /\ pc' = "main"
       [] OTHER -> /\ Becomes(IF "l" \in pressed THEN Mark(Moved(pressed))
                              ELSE [Moved(pressed) EXCEPT !.pulling = FALSE])
                   /\ pc' = "pad"
  /\ UNCHANGED <<card, items, next, gone>>

RemoveByPlace(ok) ==
  /\ pc = "remove" /\ next < Len(items)
  /\ next' = next + 1
  /\ LET hit == next \in selected /\ ok /\ next < Len(card)
         n   == card[next + 1]
     IN  /\ card' = IF hit THEN RemoveFirst(card, n) ELSE card
         /\ gone' = IF hit THEN gone \cup {n} ELSE gone
  /\ UNCHANGED <<pc, menu>>

\* R and Y: one marked file after the other is removed, by name.  The card may
\* refuse.
RemoveNext(ok) ==
  /\ pc = "remove" /\ next < Len(items)
  /\ next' = next + 1
  /\ LET n   == items[next + 1]
         hit == next \in selected /\ ok /\ Contains(card, n)
     IN  /\ card' = IF hit THEN RemoveFirst(card, n) ELSE card
         /\ gone' = IF hit THEN gone \cup {n} ELSE gone
  /\ UNCHANGED <<pc, menu>>

RemoveEnds ==
  /\ pc = "remove" /\ next = Len(items)
  /\ pc' = "main"
  /\ UNCHANGED <<card, menu, next, gone>>

\* The player exchanges the card.
ExchangeCard(c) ==
  /\ card' = c
  /\ UNCHANGED <<pc, menu, next, gone>>

SavesNext == \/ \E skipped \in SUBSET Own : Open(skipped)
        \/ \E pressed \in Presses : Poll(pressed)
        \/ \E ok \in BOOLEAN : RemoveNext(ok)
        \/ RemoveEnds
        \/ \E c \in Cards : ExchangeCard(c)

SavesSpec == SavesInit /\ [][SavesNext]_savesVars
-----------------------------------------------------------------------------
\* The cursor is on a file of the list, inside the window.
CursorShown ==
  /\ cur \in Places \cup {0}
  /\ base <= cur /\ cur < base + Rows

\* While the left trigger is held the cursor carries the mark it made with it.
MarkFollowsCursor == pulling => (cur \in selected <=> mode)

\* "R+Y: remove selected files" (dc_menu.c:427): on whatever card is in the slot
\* by then, only names that were listed and are marked go, and never another
\* program's file.  A save of such a name on an exchanged card does go.
OnlySelectedGo ==
  gone \subseteq {items[i + 1] : i \in selected \cap Places}

\* The three together: what the player sees marked is what goes.  The type
\* invariant bounds the marks: at most the first place is marked in an empty list.
SeenMarkedGone == SavesTypeOK /\ CursorShown /\ MarkFollowsCursor /\ OnlySelectedGo
=============================================================================
