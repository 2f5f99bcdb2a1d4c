------------------------------ MODULE Scanline ------------------------------
(***************************************************************************)
(* lcd_refreshline (lcd.c, lcd-scan.c, lcd-spr.c): one line of the         *)
(* picture.  The background is drawn tile by tile from the middle of a     *)
(* tile, the window over it, the sprites over both from the last to the    *)
(* first; two buffers remember which background pixels are not colour 0    *)
(* and which tiles go above the sprites.  They outlive the line.           *)
(*                                                                         *)
(* A pixel is named by where it comes from: layer, tile, row and column in *)
(* the pattern.  The colours it gets from the palettes are left out.       *)
(***************************************************************************)
EXTENDS Integers, Sequences, FiniteSets, FiniteSetsExt

CONSTANTS
  Width,        \* of the screen (160)
  Tile,         \* of a tile, and of the margins of the buffers (8)
  MapTiles,     \* tiles in a row of a map (32)
  MaxSprites,   \* drawn on a line (10)
  Solid,        \* <<layer, tile, column>> of the pixels that are not colour 0
  Mirrored, Upside, Above,  \* <<layer, tile>> with that attribute
  LineStates,        \* the registers and objects a line may be drawn from
  Followed      \* those after which another line is drawn

\* An object; pattern are the columns that are not colour 0 in the row on the line.
Objects == [x : Nat, y : Nat, behind : BOOLEAN, mirrored : BOOLEAN, upside : BOOLEAN,
            pattern : SUBSET (0 .. Tile - 1)]

\* A line l: cgb, L (R_LY), scx, scy, wx (R_WX - 7), wy (latched by lcd_begin),
\* wnd (the window is enabled), tall (sprites of 16), obj (sprites are enabled), oam.
Drawable == [cgb : BOOLEAN, L : Nat, scx : 0 .. MapTiles * Tile - 1, scy : Nat,
             wx : Int, wy : Nat, wnd : BOOLEAN, tall : BOOLEAN, obj : BOOLEAN,
             oam : Seq(Objects)]

ASSUME ScanlineAssumption ==
  /\ Tile \in Nat \ {0} /\ Width \in Nat \ {0} /\ Width % Tile = 0
  /\ MapTiles \in Nat /\ Width \div Tile < MapTiles
  /\ MaxSprites \in Nat \ {0}
  /\ Followed \subseteq LineStates /\ LineStates \subseteq Drawable
  /\ \A l \in LineStates : l.wx >= 1 - Tile

VARIABLES
  last,                    \* the line drawn last, in a set
  dest,                    \* its pixels, with the margins (BUF)
  solid_buf, cgb_attr_buf

scanlineVars == <<last, dest, solid_buf, cgb_attr_buf>>

Cells == -Tile .. Width + Tile - 1

ScanlineInit ==
  /\ last = {}
  /\ dest = [i \in Cells |-> <<"black">>]
  /\ solid_buf = [i \in Cells |-> FALSE] /\ cgb_attr_buf = [i \in Cells |-> FALSE]
-----------------------------------------------------------------------------
WX(l) == IF l.wy > l.L \/ l.wx > Width - 1 \/ ~ l.wnd THEN Width ELSE l.wx

\* The pixel in column c of row v of a tile; its attributes are a colour game's.
TilePixel(l, layer, row, t, v, c) ==
  <<layer, row, t,
    IF l.cgb /\ <<layer, t>> \in Upside THEN Tile - 1 - v ELSE v,
    IF l.cgb /\ <<layer, t>> \in Mirrored THEN Tile - 1 - c ELSE c>>

IsSolid(p) == <<p[1], p[3], p[5]>> \in Solid
IsAbove(p) == <<p[1], p[3]>> \in Above

\* bg_scan: U pixels to the left of the screen, as many tiles as the window
\* leaves, the map's row read to its end and then from its start.
X(l) == l.scx % Tile
BgTiles(l) == IF WX(l) <= 0 THEN 0
              ELSE LET n == (WX(l) + X(l)) \div Tile + 1
                   IN IF n > Width \div Tile + 1 THEN Width \div Tile + 1 ELSE n
BgCells(l) == - X(l) .. Tile * BgTiles(l) - X(l) - 1

BgPixel(l, i) ==
  LET S == l.scx \div Tile
      Y == (l.scy + l.L) % (MapTiles * Tile)
      k == (i + X(l)) \div Tile
  IN TilePixel(l, "bg", Y \div Tile, IF k < MapTiles - S THEN S + k ELSE S + k - MapTiles,
               Y % Tile, (i + X(l)) % Tile)

\* wnd_scan: from WX, which may lie left of the screen, to its right margin.
WndCells(l) == IF WX(l) >= Width THEN {}
               ELSE WX(l) .. WX(l) + Tile * ((Width - WX(l)) \div Tile + 1) - 1

WndPixel(l, i) ==
  TilePixel(l, "wnd", (l.L - l.wy) \div Tile, (i - WX(l)) \div Tile, (l.L - l.wy) % Tile,
            (i - WX(l)) % Tile)

Layers(l, i) == IF i \in WndCells(l) THEN WndPixel(l, i)
                ELSE IF i \in BgCells(l) THEN BgPixel(l, i)
                ELSE dest[i]

\* What the two buffers hold after bg_scan and wnd_scan; the window adds to what
\* the background has left in the first one and replaces the second.
SolidAfter(l) ==
  [i \in Cells |->
     \/ IF i \in BgCells(l) THEN IsSolid(BgPixel(l, i)) ELSE solid_buf[i]
     \/ i \in WndCells(l) /\ IsSolid(WndPixel(l, i))]

AboveAfter(l) ==
  [i \in Cells |-> IF l.cgb /\ i \in BgCells(l) \cup WndCells(l) THEN IsAbove(Layers(l, i))
                   ELSE cgb_attr_buf[i]]
-----------------------------------------------------------------------------
\* spr_enum: the first sprites in object memory that reach the line; all others
\* are left out even if these turn out to be off the screen.
OnLine(l, o) == l.L + 2 * Tile >= o.y /\ l.L + (IF l.tall THEN 0 ELSE Tile) < o.y

ChosenObjs(l) ==
  LET Among[n \in 0 .. Len(l.oam)] ==
        IF n = 0 THEN <<>>
        ELSE IF OnLine(l, l.oam[n]) /\ Len(Among[n - 1]) < MaxSprites THEN Append(Among[n - 1], n)
        ELSE Among[n - 1]
  IN  IF l.obj THEN Among[Len(l.oam)] ELSE <<>>

\* The list with n put before place k.
PutBefore(n, rest, k) == SubSeq(rest, 1, k - 1) \o <<n>> \o SubSeq(rest, k, Len(rest))

InsertBehindEquals(l, n, rest) ==
  PutBefore(n, rest, Min({k \in DOMAIN rest : l.oam[n].x < l.oam[rest[k]].x} \cup {Len(rest) + 1}))

\* For a monochrome game, sorted from the last one down: each goes before the
\* first that is not to its left, or before the guard.
Insert(l, n, rest) ==
  PutBefore(n, rest, Min({k \in DOMAIN rest : l.oam[n].x <= l.oam[rest[k]].x} \cup {Len(rest) + 1}))

VS(l) ==
  LET objs == ChosenObjs(l)
      Sorted[k \in 0 .. Len(objs)] ==
        IF k = 0 THEN <<>> ELSE Insert(l, objs[Len(objs) + 1 - k], Sorted[k - 1])
  IN  IF l.cgb THEN objs ELSE Sorted[Len(objs)]

\* spr_scan: the row and the column of object o that fall on cell i.
ObjRow(l, o) == IF ~ o.upside THEN l.L - o.y + 2 * Tile
                ELSE IF l.tall THEN o.y - l.L - 1 ELSE o.y - l.L - Tile - 1
ObjCol(o, i) == IF o.mirrored THEN o.x - 1 - i ELSE i - (o.x - Tile)

\* A mirrored sprite looks up the tile's priority one pixel to the left, its
\* first pixel excepted (lcd-spr.c:196).
AttrCell(o, i) == IF o.mirrored /\ i > o.x - Tile THEN i - 1 ELSE i

Shows(l, o, i, solid, above) ==
  /\ i \in o.x - Tile .. o.x - 1
  /\ ObjCol(o, i) \in o.pattern
  /\ IF o.behind THEN ~ solid[i] ELSE l.cgb => ~ solid[i] \/ ~ above[AttrCell(o, i)]

Overlay(l, n, buf, solid, above) ==
  LET o == l.oam[n]
  IN IF o.x >= Width + Tile \/ o.x = 0 THEN buf
     ELSE [i \in Cells |-> IF Shows(l, o, i, solid, above) THEN <<"obj", n, ObjRow(l, o), ObjCol(o, i)>>
                           ELSE buf[i]]

\* All sprites, the first over the others.
WithSprites(l, layers, solid, above) ==
  LET objs == VS(l)
      Painted[k \in 0 .. Len(objs)] ==
        IF k = 0 THEN layers
        ELSE Overlay(l, objs[Len(objs) + 1 - k], Painted[k - 1], solid, above)
  IN  Painted[Len(objs)]

\* lcd_refreshline; without a sprite on the line the buffers are left alone.
DrawLine(l) ==
  /\ last' = {l}
  /\ LET layers == [i \in Cells |-> Layers(l, i)]
         solid == SolidAfter(l)
         above == AboveAfter(l)
     IN /\ dest' = WithSprites(l, layers, solid, above)
        /\ IF ChosenObjs(l) = <<>> THEN UNCHANGED <<solid_buf, cgb_attr_buf>>
           ELSE solid_buf' = solid /\ cgb_attr_buf' = above

ScanlineNext == last \subseteq Followed /\ \E l \in LineStates : DrawLine(l)

ScanlineSpec == ScanlineInit /\ [][ScanlineNext]_scanlineVars
-----------------------------------------------------------------------------
\* What a player should see of line l at x: the map pixel the scroll registers
\* put there, or the window's, under the first sprite in the order of priority
\* that has a pixel there and is not hidden behind it.
UnderSprites(l, x) ==
  IF l.wnd /\ l.L >= l.wy /\ x >= l.wx
  THEN TilePixel(l, "wnd", (l.L - l.wy) \div Tile, (x - l.wx) \div Tile, (l.L - l.wy) % Tile,
                 (x - l.wx) % Tile)
  ELSE LET side == MapTiles * Tile
           mx == (x + l.scx) % side
           my == (l.L + l.scy) % side
       IN TilePixel(l, "bg", my \div Tile, mx \div Tile, my % Tile, mx % Tile)

Height(l) == IF l.tall THEN 2 * Tile ELSE Tile
Row(l, o) == l.L - (o.y - 2 * Tile)

\* The sprites of the line that compete for x.
Competing(l, x) ==
  LET reaching == {n \in DOMAIN l.oam : l.obj /\ Row(l, l.oam[n]) \in 0 .. Height(l) - 1}
      below == UnderSprites(l, x)
      chosen == {n \in reaching : Cardinality({m \in reaching : m < n}) < MaxSprites}
  IN {n \in chosen :
        LET o == l.oam[n]
        IN /\ x \in o.x - Tile .. o.x - 1
           /\ ObjCol(o, x) \in o.pattern
           /\ IF o.behind THEN ~ IsSolid(below)
              ELSE l.cgb /\ IsAbove(below) => ~ IsSolid(below)}

Before(l, m, n) == \/ ~ l.cgb /\ l.oam[m].x < l.oam[n].x
                   \/ (l.cgb \/ l.oam[m].x = l.oam[n].x) /\ m < n

Seen(l, x) ==
  IF Competing(l, x) = {} THEN UnderSprites(l, x)
  ELSE LET n == CHOOSE m \in Competing(l, x) : \A k \in Competing(l, x) : k = m \/ Before(l, m, k)
           o == l.oam[n]
       IN <<"obj", n, IF o.upside THEN Height(l) - 1 - Row(l, o) ELSE Row(l, o), ObjCol(o, x)>>

\* Where the code is known to differ: under the window the first buffer still
\* holds what the background and earlier lines left in it, and mirrored sprites
\* of colour games look at the tile to the left at its edge.
Stale(l, x) == l.wnd /\ l.L >= l.wy /\ x >= l.wx /\ ~ IsSolid(UnderSprites(l, x))
Shifted(l, x) == /\ l.cgb
                 /\ \E n \in DOMAIN l.oam : l.oam[n].mirrored /\ ~ l.oam[n].behind
                                            /\ x \in l.oam[n].x - Tile + 1 .. l.oam[n].x - 1
                 /\ x % Tile = (IF WX(l) <= x THEN WX(l) ELSE 0 - l.scx) % Tile

\* Every pixel of a line is the one the game's registers, maps and objects ask
\* for, for every scroll position, every overlap of sprites and whatever the
\* buffers hold from earlier lines; and no tile is drawn beyond the buffers.
LineAsAsked ==
  \A l \in last :
    /\ BgCells(l) \cup WndCells(l) \subseteq Cells
    /\ \A x \in 0 .. Width - 1 :
         ~ Stale(l, x) /\ ~ Shifted(l, x) => dest[x] = Seen(l, x)
=============================================================================
