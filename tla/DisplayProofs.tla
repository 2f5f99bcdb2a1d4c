--------------------------- MODULE DisplayProofs ---------------------------
(***************************************************************************)
(* Proofs about what the player looks at: every pixel of a line is the one *)
(* that the game's registers, maps and objects ask for (lcd.c, lcd-scan.c, *)
(* lcd-spr.c), for every screen and every line; and the two menus of       *)
(* sys/dc/dc_menu.c, for every disc, card and window: the cursor of the    *)
(* menu of games always fits the list it is used with, and the menu of     *)
(* saves removes what is listed and marked; and the player sees every      *)
(* picture that is flipped, in order (dc_vid_flip), however the program    *)
(* and the video chip interleave.                                          *)
(***************************************************************************)
EXTENDS Scanline, Flip, FileMenu, VmuMenu, TLAPS, FiniteSetTheorems, SequenceTheorems,
        WellFoundedInduction

\* Every non-empty set of naturals has a least element.
LEMMA NatMin ==
  ASSUME NEW S \in SUBSET Nat, S # {}
  PROVE  \E least \in S : \A n \in S : least <= n
<1>. DEFINE R == OpToRel(<, Nat)
<1>1. IsWellFoundedOn(R, Nat)
  BY NatLessThanWellFounded
<1>2. \A x, y \in Nat : x < y => <<x, y>> \in R
  BY DEF OpToRel
<1>. HIDE DEF R
<1>3. PICK least \in S : \A n \in S : ~ (<<n, least>> \in R)
  BY <1>1, WFMin
<1>4. ASSUME NEW n \in S PROVE least <= n
  <2>1. least \in Nat /\ n \in Nat
    OBVIOUS
  <2>2. ~ (n < least)
    BY <1>2, <1>3, <2>1, Zenon
  <2>. QED
    BY <2>1, <2>2
<1>. QED
  BY <1>4

\* Induction, stated for a set of naturals.
LEMMA NatInd ==
  ASSUME NEW S, 0 \in S, \A n \in Nat : n \in S => n + 1 \in S
  PROVE  Nat \subseteq S
<1>1. SUFFICES ASSUME Nat \ S # {} PROVE FALSE
  OBVIOUS
<1>2. PICK least \in Nat \ S : \A n \in Nat \ S : least <= n
  BY <1>1, NatMin
<1>3. least # 0 /\ least - 1 \in Nat
  OBVIOUS
<1>4. least - 1 \in S
  BY <1>2, <1>3
<1>5. (least - 1) + 1 = least
  OBVIOUS
<1>. QED
  BY <1>2, <1>3, <1>4, <1>5
-----------------------------------------------------------------------------
\* A remainder is a number below its divisor.
LEMMA Divided ==
  ASSUME NEW x \in Int, NEW b \in Nat \ {0}
  PROVE  /\ x % b \in 0 .. b - 1 /\ x \div b \in Int
         /\ x = (x \div b) * b + (x % b)
OBVIOUS

\* Quotient and remainder are the only such numbers.
LEMMA OnlyOnce ==
  ASSUME NEW b \in Nat \ {0}, NEW q1 \in Int, NEW r1 \in 0 .. b - 1,
         NEW q2 \in Int, NEW r2 \in 0 .. b - 1, q1 * b + r1 = q2 * b + r2
  PROVE  q1 = q2 /\ r1 = r2
<1>1. ~ (q1 >= q2 + 1)
  <2>1. SUFFICES ASSUME q1 >= q2 + 1 PROVE FALSE
    OBVIOUS
  <2>2. (q1 - q2 - 1) * b >= 0
    BY <2>1
  <2>. QED
    BY <2>2
<1>2. ~ (q2 >= q1 + 1)
  <2>1. SUFFICES ASSUME q2 >= q1 + 1 PROVE FALSE
    OBVIOUS
  <2>2. (q2 - q1 - 1) * b >= 0
    BY <2>1
  <2>. QED
    BY <2>2
<1>. QED
  BY <1>1, <1>2

\* They can be read off a product and a rest.
LEMMA DividedOnce ==
  ASSUME NEW b \in Nat \ {0}, NEW q \in Int, NEW r \in 0 .. b - 1, NEW x, x = q * b + r
  PROVE  x % b = r /\ x \div b = q
<1>1. x \in Int
  OBVIOUS
<1>2. x % b \in 0 .. b - 1 /\ x \div b \in Int /\ x = (x \div b) * b + (x % b)
  BY <1>1, Divided
<1>3. (x \div b) * b + (x % b) = q * b + r
  BY <1>2
<1>. QED
  BY <1>2, <1>3, OnlyOnce, Zenon

\* A quotient is the last number whose product is not beyond.
LEMMA Quotient ==
  ASSUME NEW x \in Int, NEW b \in Nat \ {0}
  PROVE  /\ x \div b \in Int /\ b * (x \div b) \in Int
         /\ b * (x \div b) <= x /\ x < b * ((x \div b) + 1)
<1>1. x % b \in 0 .. b - 1 /\ x \div b \in Int /\ x = (x \div b) * b + (x % b)
  BY Divided
<1>2. \A q \in Int, r \in 0 .. b - 1 : x = q * b + r => b * q <= x /\ x < b * (q + 1)
  OBVIOUS
<1>. QED
  BY <1>1, <1>2

\* What is assumed of the sizes and of the lines.
LEMMA ScanSizes ==
  /\ Tile \in Nat \ {0} /\ Width \in Nat \ {0} /\ MapTiles \in Nat \ {0}
  /\ MaxSprites \in Nat \ {0}
  /\ Width \div Tile \in Nat /\ Width = (Width \div Tile) * Tile /\ Width \div Tile < MapTiles
<1>1. /\ Tile \in Nat \ {0} /\ Width \in Nat \ {0} /\ Width % Tile = 0
      /\ MapTiles \in Nat /\ Width \div Tile < MapTiles /\ MaxSprites \in Nat \ {0}
  BY ScanlineAssumption DEF ScanlineAssumption
<1>2. Width \div Tile \in Int /\ Width = (Width \div Tile) * Tile + 0
  BY <1>1, Divided
<1>3. \A q, b \in Int : q * b > 0 /\ b > 0 => q >= 0
  OBVIOUS
<1>4. Width \div Tile >= 0
  BY <1>1, <1>2, <1>3
<1>. QED
  BY <1>1, <1>2, <1>4

\* What is known of a line.
LEMMA LineIs ==
  ASSUME NEW l \in LineStates
  PROVE  /\ l.cgb \in BOOLEAN /\ l.L \in Nat /\ l.scx \in 0 .. MapTiles * Tile - 1 /\ l.scy \in Nat
         /\ l.wx \in Int /\ l.wx >= 1 - Tile /\ l.wy \in Nat /\ l.wnd \in BOOLEAN
         /\ l.tall \in BOOLEAN /\ l.obj \in BOOLEAN /\ l.oam \in Seq(Objects)
<1>1. l \in Drawable /\ l.wx >= 1 - Tile
  BY ScanlineAssumption DEF ScanlineAssumption
<1>. QED
  BY <1>1 DEF Drawable

\* The window is drawn from WX on, which is beyond the screen where it is not.
LEMMA WindowFrom ==
  ASSUME NEW l \in LineStates
  PROVE  /\ WX(l) \in Int /\ WX(l) >= 1 - Tile /\ WX(l) <= Width
         /\ \A x \in 0 .. Width - 1 : WX(l) <= x <=> l.wnd /\ l.L >= l.wy /\ x >= l.wx
         /\ WX(l) < Width => WX(l) = l.wx /\ l.L >= l.wy
BY ScanSizes, LineIs DEF WX

\* The scroll position is a tile of the map and a column in it.
LEMMA Scrolled ==
  ASSUME NEW l \in LineStates
  PROVE  /\ X(l) \in 0 .. Tile - 1 /\ l.scx \div Tile \in 0 .. MapTiles - 1
         /\ l.scx = (l.scx \div Tile) * Tile + X(l)
<1>1. l.scx \in Int /\ l.scx >= 0 /\ l.scx <= MapTiles * Tile - 1 /\ Tile \in Nat \ {0} /\ MapTiles \in Nat
  BY LineIs, ScanSizes
<1>2. X(l) \in 0 .. Tile - 1 /\ l.scx \div Tile \in Int /\ l.scx = (l.scx \div Tile) * Tile + X(l)
  BY <1>1, Divided DEF X
<1>3. \A q, r, b, m \in Int : b > 0 /\ r >= 0 /\ r < b /\ q * b + r >= 0 /\ q * b + r <= m * b - 1
                                => q >= 0 /\ q <= m - 1
  <2>1. SUFFICES ASSUME NEW q \in Int, NEW r \in Int, NEW b \in Int, NEW m \in Int,
                        b > 0, r >= 0, r < b, q * b + r >= 0, q * b + r <= m * b - 1
                 PROVE  q >= 0 /\ q <= m - 1
    OBVIOUS
  <2>2. ~ (q <= -1)
    <3>1. SUFFICES ASSUME q <= -1 PROVE FALSE
      OBVIOUS
    <3>2. (-1 - q) * b >= 0
      BY <2>1, <3>1
    <3>. QED
      BY <2>1, <3>2
  <2>3. ~ (q >= m)
    <3>1. SUFFICES ASSUME q >= m PROVE FALSE
      OBVIOUS
    <3>2. (q - m) * b >= 0
      BY <2>1, <3>1
    <3>. QED
      BY <2>1, <3>2
  <2>. QED
    BY <2>2, <2>3
<1>4. l.scx \div Tile >= 0 /\ l.scx \div Tile <= MapTiles - 1
  <2>1. X(l) \in Int /\ Tile \in Int /\ MapTiles \in Int /\ Tile > 0 /\ X(l) >= 0 /\ X(l) < Tile
        /\ (l.scx \div Tile) * Tile + X(l) >= 0
        /\ (l.scx \div Tile) * Tile + X(l) <= MapTiles * Tile - 1
    BY <1>1, <1>2
  <2>. QED
    BY <1>2, <1>3, <2>1, Zenon
<1>. QED
  BY <1>2, <1>4, ScanSizes

\* A product grows with its factors.
LEMMA Grows ==
  ASSUME NEW b \in Int, b >= 0, NEW x \in Int, NEW y \in Int, x <= y
  PROVE  b * x <= b * y
<1>1. b * (y - x) >= 0
  OBVIOUS
<1>. QED
  BY <1>1

\* The background covers the line up to the window, and stays within the buffer.
LEMMA BgCovers ==
  ASSUME NEW l \in LineStates
  PROVE  /\ BgCells(l) \subseteq Cells
         /\ \A x \in Int : - X(l) <= x /\ x < WX(l) /\ 0 < WX(l) => x \in BgCells(l)
<1>. DEFINE wt == Width \div Tile
            q == (WX(l) + X(l)) \div Tile
            n == BgTiles(l)
<1>1. /\ Tile \in Nat \ {0} /\ wt \in Nat /\ Width = Tile * wt
      /\ X(l) \in 0 .. Tile - 1 /\ WX(l) \in Int /\ WX(l) <= Width /\ WX(l) >= 1 - Tile
  BY ScanSizes, Scrolled, WindowFrom
<1>2. q \in Int /\ WX(l) + X(l) < Tile * (q + 1) /\ Tile * q <= WX(l) + X(l)
  <2>1. WX(l) + X(l) \in Int
    BY <1>1
  <2>. QED
    BY <1>1, <2>1, Quotient
<1>. HIDE DEF q, wt
<1>3. n \in Int /\ n <= wt + 1 /\ (0 < WX(l) => n = wt + 1 \/ n = q + 1) /\ n >= 0
  <2>1. n = IF WX(l) <= 0 THEN 0 ELSE IF q + 1 > wt + 1 THEN wt + 1 ELSE q + 1
    BY DEF BgTiles, q, wt
  <2>2. WX(l) > 0 => q >= 0
    <3>1. SUFFICES ASSUME WX(l) > 0, q <= -1 PROVE FALSE
      BY <1>2
    <3>2. Tile * (q + 1) <= Tile * 0
      BY <1>1, <1>2, <3>1, Grows
    <3>. QED
      BY <1>1, <1>2, <3>1, <3>2
  <2>. HIDE DEF n
  <2>. QED
    BY <1>1, <1>2, <2>1, <2>2
<1>4. BgCells(l) = - X(l) .. Tile * n - X(l) - 1
  BY DEF BgCells
<1>. HIDE DEF n
<1>5. Tile * n <= Tile * (wt + 1)
  BY <1>1, <1>3, Grows
<1>6. BgCells(l) \subseteq Cells
  BY <1>1, <1>3, <1>4, <1>5, SMTT(30) DEF Cells
<1>7. ASSUME NEW x \in Int, - X(l) <= x, x < WX(l), 0 < WX(l) PROVE x \in BgCells(l)
  <2>1. x < Tile * n - X(l)
    BY <1>1, <1>2, <1>3, <1>7
  <2>2. Tile * n \in Int
    BY <1>1, <1>3
  <2>. QED
    BY <1>1, <1>4, <1>7, <2>1, <2>2
<1>. QED
  BY <1>6, <1>7

\* So does the window, from WX to the end of the line.
LEMMA WindowCovers ==
  ASSUME NEW l \in LineStates
  PROVE  /\ WndCells(l) \subseteq Cells
         /\ \A x \in Int : x < Width => (x \in WndCells(l) <=> WX(l) <= x)
<1>. DEFINE q == (Width - WX(l)) \div Tile
            wt == Width \div Tile
<1>1. /\ Tile \in Nat \ {0} /\ wt \in Nat /\ Width = Tile * wt
      /\ WX(l) \in Int /\ WX(l) <= Width /\ WX(l) >= 1 - Tile
  BY ScanSizes, WindowFrom
<1>2. q \in Int /\ Width - WX(l) < Tile * (q + 1) /\ Tile * q <= Width - WX(l)
  <2>1. Width - WX(l) \in Int
    BY <1>1
  <2>. QED
    BY <1>1, <2>1, Quotient
<1>3. WndCells(l) = IF WX(l) >= Width THEN {} ELSE WX(l) .. WX(l) + Tile * (q + 1) - 1
  BY DEF WndCells
<1>. HIDE DEF q, wt
<1>4. Tile * (q + 1) = Tile * q + Tile /\ Tile * (q + 1) \in Int
  BY <1>1, <1>2
<1>. QED
  BY <1>1, <1>2, <1>3, <1>4 DEF Cells

\* A number of tiles and columns within b tiles is a number of columns.
LEMMA WithinTiles ==
  ASSUME NEW T \in Nat \ {0}, NEW b \in Nat \ {0}, NEW q \in Int, q >= 0, q < b, NEW c \in 0 .. T - 1
  PROVE  q * T + c \in 0 .. b * T - 1 /\ b * T \in Nat \ {0}
<1>1. T * q <= T * (b - 1) /\ T * 0 <= T * q
  BY Grows
<1>2. T * 1 <= T * b
  BY Grows
<1>3. q * T = T * q /\ b * T = T * b /\ T * (b - 1) = T * b - T /\ T * 0 = 0
  OBVIOUS
<1>. QED
  BY <1>1, <1>2, <1>3

\* A map is read to its end and then from its start: the tile and the column that
\* are scrolled to x.
LEMMA MapColumn ==
  ASSUME NEW l \in LineStates, NEW x \in 0 .. Width - 1
  PROVE  LET k  == (x + X(l)) \div Tile
             S  == l.scx \div Tile
             mx == (x + l.scx) % (MapTiles * Tile)
         IN  /\ mx \div Tile = IF k < MapTiles - S THEN S + k ELSE S + k - MapTiles
             /\ mx % Tile = (x + X(l)) % Tile
<1>. DEFINE k == (x + X(l)) \div Tile
            S == l.scx \div Tile
            c == (x + X(l)) % Tile
            wt == Width \div Tile
<1>1. /\ Tile \in Nat \ {0} /\ MapTiles \in Nat \ {0} /\ wt \in Nat /\ Width = Tile * wt /\ wt < MapTiles
      /\ X(l) \in 0 .. Tile - 1 /\ S \in 0 .. MapTiles - 1 /\ l.scx = S * Tile + X(l)
  BY ScanSizes, Scrolled
<1>2. k \in Int /\ c \in 0 .. Tile - 1 /\ x + X(l) = k * Tile + c
      /\ Tile * k <= x + X(l) /\ x + X(l) < Tile * (k + 1)
  <2>1. x + X(l) \in Int
    BY <1>1
  <2>. QED
    BY <1>1, <2>1, Divided, Quotient
<1>. HIDE DEF k, c, S, wt
<1>3. k >= 0
  <2>1. SUFFICES ASSUME k + 1 <= 0 PROVE FALSE
    BY <1>2
  <2>2. Tile * (k + 1) <= Tile * 0
    BY <1>1, <1>2, <2>1, Grows
  <2>. QED
    BY <1>1, <1>2, <2>2
<1>4. k <= wt
  <2>1. SUFFICES ASSUME wt + 1 <= k PROVE FALSE
    BY <1>1, <1>2
  <2>2. Tile * (wt + 1) <= Tile * k
    BY <1>1, <1>2, <2>1, Grows
  <2>3. Tile * (wt + 1) = Tile * wt + Tile
    BY <1>1
  <2>. QED
    BY <1>1, <1>2, <2>2, <2>3
<1>5. x + l.scx = (S + k) * Tile + c
  <2>1. (S + k) * Tile = S * Tile + k * Tile
    BY <1>1, <1>2
  <2>. QED
    BY <1>1, <1>2, <2>1
<1>. DEFINE t == IF k < MapTiles - S THEN S + k ELSE S + k - MapTiles
<1>6. t \in Int /\ t >= 0 /\ t < MapTiles
  BY <1>1, <1>2, <1>3, <1>4
<1>7. t * Tile + c \in 0 .. MapTiles * Tile - 1 /\ MapTiles * Tile \in Nat \ {0}
  <2>. HIDE DEF t
  <2>. QED
    BY <1>1, <1>2, <1>6, WithinTiles
<1>8. (x + l.scx) % (MapTiles * Tile) = t * Tile + c
  <2>1. CASE k < MapTiles - S
    <3>1. x + l.scx = 0 * (MapTiles * Tile) + (t * Tile + c)
      <4>1. t = S + k
        BY <2>1
      <4>2. 0 * (MapTiles * Tile) = 0
        BY <1>7
      <4>. HIDE DEF t
      <4>. QED
        BY <1>5, <1>7, <4>1, <4>2
    <3>. HIDE DEF t
    <3>. QED
      BY <1>7, <3>1, DividedOnce
  <2>2. CASE ~ (k < MapTiles - S)
    <3>1. x + l.scx = 1 * (MapTiles * Tile) + (t * Tile + c)
      <4>1. S + k = MapTiles + t
        BY <1>1, <1>2, <2>2
      <4>. HIDE DEF t
      <4>2. (MapTiles + t) * Tile = 1 * (MapTiles * Tile) + t * Tile
        BY <1>1, <1>6
      <4>3. 1 * (MapTiles * Tile) \in Int /\ t * Tile \in Int /\ c \in Int
        BY <1>1, <1>2, <1>6
      <4>. QED
        BY <1>5, <4>1, <4>2, <4>3
    <3>. HIDE DEF t
    <3>. QED
      BY <1>7, <3>1, DividedOnce
  <2>. QED
    BY <2>1, <2>2
<1>. HIDE DEF t
<1>9. (t * Tile + c) % Tile = c /\ (t * Tile + c) \div Tile = t
  BY <1>1, <1>2, <1>6, DividedOnce
<1>. QED
  BY <1>8, <1>9 DEF k, c, S, t

\* On the screen the layers are what the registers put there.
LEMMA LayersAsAsked ==
  ASSUME NEW l \in LineStates, NEW x \in 0 .. Width - 1
  PROVE  /\ Layers(l, x) = UnderSprites(l, x)
         /\ WX(l) <= x <=> x \in WndCells(l)
         /\ x \in WndCells(l) => UnderSprites(l, x) = WndPixel(l, x)
         /\ x \notin WndCells(l) => x \in BgCells(l) /\ UnderSprites(l, x) = BgPixel(l, x)
<1>1. /\ x \in Int /\ 0 <= x /\ x < Width /\ WX(l) \in Int /\ X(l) \in 0 .. Tile - 1 /\ Tile \in Nat
      /\ l.L \in Nat /\ l.scy \in Nat
  BY ScanSizes, WindowFrom, Scrolled, LineIs
<1>2. WX(l) <= x <=> x \in WndCells(l)
  BY <1>1, WindowCovers
<1>3. WX(l) <= x <=> l.wnd /\ l.L >= l.wy /\ x >= l.wx
  BY WindowFrom
<1>4. x \in WndCells(l) => UnderSprites(l, x) = WndPixel(l, x)
  <2>1. SUFFICES ASSUME WX(l) <= x PROVE UnderSprites(l, x) = WndPixel(l, x)
    BY <1>2
  <2>2. WX(l) < Width
    BY <1>1, <2>1, ScanSizes
  <2>2a. WX(l) = l.wx
    BY <2>2, WindowFrom
  <2>. QED
    BY <1>3, <2>1, <2>2a DEF UnderSprites, WndPixel
<1>5. x \notin WndCells(l) => x \in BgCells(l) /\ UnderSprites(l, x) = BgPixel(l, x)
  <2>1. SUFFICES ASSUME ~ (WX(l) <= x) PROVE x \in BgCells(l) /\ UnderSprites(l, x) = BgPixel(l, x)
    BY <1>2
  <2>2. x \in BgCells(l)
    <3>1. - X(l) <= x /\ x < WX(l) /\ 0 < WX(l)
      BY <1>1, <2>1
    <3>. QED
      BY <1>1, <3>1, BgCovers
  <2>3. l.scy + l.L = l.L + l.scy
    BY <1>1
  <2>4. ~ (l.wnd /\ l.L >= l.wy /\ x >= l.wx)
    BY <1>3, <2>1
  <2>5. UnderSprites(l, x) = BgPixel(l, x)
    BY <2>3, <2>4, MapColumn, Zenon DEF UnderSprites, BgPixel
  <2>. QED
    BY <2>2, <2>5
<1>. QED
  BY <1>2, <1>4, <1>5 DEF Layers

\* The line says of a pixel whether it is solid where nothing stale is left.
LEMMA SolidAsAsked ==
  ASSUME NEW l \in LineStates, NEW x \in 0 .. Width - 1, ~ Stale(l, x),
         solid_buf \in [Cells -> BOOLEAN]
  PROVE  SolidAfter(l)[x] <=> IsSolid(UnderSprites(l, x))
<1>1. x \in Cells
  BY ScanSizes DEF Cells
<1>2. SolidAfter(l)[x] <=> \/ IF x \in BgCells(l) THEN IsSolid(BgPixel(l, x)) ELSE solid_buf[x]
                           \/ x \in WndCells(l) /\ IsSolid(WndPixel(l, x))
  BY <1>1 DEF SolidAfter
<1>3. CASE x \in WndCells(l)
  <2>1. WX(l) <= x /\ UnderSprites(l, x) = WndPixel(l, x)
    BY <1>3, LayersAsAsked
  <2>2. l.wnd /\ l.L >= l.wy /\ x >= l.wx
    BY <2>1, WindowFrom
  <2>3. IsSolid(UnderSprites(l, x))
    BY <2>2 DEF Stale
  <2>. QED
    BY <1>2, <1>3, <2>1, <2>3
<1>4. CASE x \notin WndCells(l)
  <2>1. x \in BgCells(l) /\ UnderSprites(l, x) = BgPixel(l, x)
    BY <1>4, LayersAsAsked
  <2>. QED
    BY <1>2, <1>4, <2>1
<1>. QED
  BY <1>3, <1>4

\* Two neighbours of one tile: their quotients and rests.
LEMMA Neighbours ==
  ASSUME NEW x \in Int, NEW b \in Nat \ {0}, x % b # 0
  PROVE  (x - 1) \div b = x \div b
<1>1. x % b \in 0 .. b - 1 /\ x \div b \in Int /\ x = (x \div b) * b + (x % b)
  BY Divided
<1>. DEFINE q == x \div b
            r == x % b
<1>2. q \in Int /\ r - 1 \in 0 .. b - 1 /\ x - 1 = q * b + (r - 1)
  <2>. HIDE DEF q, r
  <2>1. \A y \in Int : x = y + r => x - 1 = y + (r - 1)
    BY <1>1 DEF r
  <2>2. q * b \in Int
    BY <1>1 DEF q
  <2>. QED
    BY <1>1, <2>1, <2>2 DEF q, r
<1>. HIDE DEF q, r
<1>3. ASSUME NEW u \in Int, NEW y, y = q * b + u, u \in 0 .. b - 1 PROVE y \div b = q
  BY <1>2, <1>3, DividedOnce
<1>4. (x - 1) \div b = q
  <2>. DEFINE u == r - 1
  <2>1. u \in Int /\ u \in 0 .. b - 1 /\ x - 1 = q * b + u
    BY <1>2
  <2>. HIDE DEF u
  <2>. QED
    BY <1>3, <2>1
<1>. QED
  BY <1>4 DEF q

\* A rest is not changed by whole tiles.
LEMMA SameRest ==
  ASSUME NEW x \in Int, NEW y \in Int, NEW b \in Nat \ {0}, (x - y) % b = 0
  PROVE  x % b = y % b
<1>1. y % b \in 0 .. b - 1 /\ y \div b \in Int /\ y = (y \div b) * b + (y % b)
  BY Divided
<1>2. (x - y) \div b \in Int /\ x - y = ((x - y) \div b) * b + ((x - y) % b)
  BY Divided
<1>. DEFINE q == (x - y) \div b
            p == y \div b
            r == y % b
<1>3. x = (q + p) * b + r
  <2>. HIDE DEF q, p, r
  <2>1. q \in Int /\ p \in Int /\ r \in Int /\ x - y = q * b + 0 /\ y = p * b + r
    BY <1>1, <1>2 DEF q, p, r
  <2>2. (q + p) * b = q * b + p * b /\ q * b \in Int /\ p * b \in Int
    BY <2>1
  <2>. QED
    BY <2>1, <2>2
<1>4. q + p \in Int /\ r \in 0 .. b - 1
  BY <1>1, <1>2
<1>. HIDE DEF q, p, r
<1>5. x % b = r
  BY <1>3, <1>4, DividedOnce
<1>. QED
  BY <1>5 DEF r

\* The buffer of tiles above the sprites says of a pixel, and within a tile of the
\* pixel to the left of it, whether its tile is.
LEMMA AboveAsAsked ==
  ASSUME NEW l \in LineStates, NEW x \in 0 .. Width - 1, l.cgb
  PROVE  /\ AboveAfter(l)[x] <=> IsAbove(UnderSprites(l, x))
         /\ x % Tile # (IF WX(l) <= x THEN WX(l) ELSE 0 - l.scx) % Tile =>
              (AboveAfter(l)[x - 1] <=> IsAbove(UnderSprites(l, x)))
<1>1. /\ x \in Int /\ 0 <= x /\ x < Width /\ WX(l) \in Int /\ X(l) \in 0 .. Tile - 1
      /\ Tile \in Nat \ {0} /\ l.scx \in Int /\ Width \in Nat
  BY ScanSizes, WindowFrom, Scrolled, LineIs, SMTT(30)
<1>2. x \in Cells /\ x - 1 \in Cells
  BY <1>1 DEF Cells
<1>3. \A i \in Cells : i \in BgCells(l) \cup WndCells(l) => (AboveAfter(l)[i] <=> IsAbove(Layers(l, i)))
  BY DEF AboveAfter
<1>4. AboveAfter(l)[x] <=> IsAbove(UnderSprites(l, x))
  BY <1>2, <1>3, LayersAsAsked
<1>5. ASSUME x % Tile # (IF WX(l) <= x THEN WX(l) ELSE 0 - l.scx) % Tile
      PROVE  AboveAfter(l)[x - 1] <=> IsAbove(UnderSprites(l, x))
  <2>1. CASE WX(l) <= x
    <3>1. (x - WX(l)) % Tile # 0
      BY <1>1, <1>5, <2>1, SameRest
    <3>2. WX(l) # x
      BY <1>5, <2>1
    <3>3. WX(l) <= x - 1 /\ x - 1 < Width /\ x - 1 \in Int /\ x - WX(l) \in Int
          /\ x - 1 - WX(l) = x - WX(l) - 1
      BY <1>1, <2>1, <3>2
    <3>4. x - 1 \in WndCells(l) /\ x \in WndCells(l)
      BY <1>1, <2>1, <3>3, WindowCovers
    <3>5. (x - 1 - WX(l)) \div Tile = (x - WX(l)) \div Tile
      BY <1>1, <3>1, <3>3, Neighbours
    <3>6. IsAbove(WndPixel(l, x - 1)) <=> IsAbove(WndPixel(l, x))
      BY <3>5 DEF WndPixel, TilePixel, IsAbove
    <3>7. Layers(l, x - 1) = WndPixel(l, x - 1) /\ UnderSprites(l, x) = WndPixel(l, x)
      BY <3>4, LayersAsAsked DEF Layers
    <3>. QED
      BY <1>2, <1>3, <3>4, <3>6, <3>7
  <2>2. CASE ~ (WX(l) <= x)
    <3>1. (x + X(l)) % Tile # 0
      <4>1. x - (0 - l.scx) = x + l.scx /\ 0 - l.scx \in Int
        BY <1>1
      <4>2. (x + l.scx) % Tile # 0
        <5>1. SUFFICES ASSUME (x + l.scx) % Tile = 0 PROVE FALSE
          OBVIOUS
        <5>2. (x - (0 - l.scx)) % Tile = 0
          BY <4>1, <5>1
        <5>3. x % Tile = (0 - l.scx) % Tile
          BY <1>1, <4>1, <5>2, SameRest, Zenon
        <5>. QED
          BY <1>5, <2>2, <5>3
      <4>3. (x + l.scx) % Tile = (x + X(l)) % Tile
        <5>1. (x + l.scx) - (x + X(l)) = (l.scx \div Tile) * Tile + 0 /\ l.scx \div Tile \in Int
          <6>1. \A y \in Int : l.scx = y + X(l) => (x + l.scx) - (x + X(l)) = y + 0
            BY <1>1
          <6>2. l.scx = (l.scx \div Tile) * Tile + X(l) /\ l.scx \div Tile \in Int
                /\ (l.scx \div Tile) * Tile \in Int
            BY <1>1, Scrolled
          <6>. QED
            BY <6>1, <6>2
        <5>2. 0 \in 0 .. Tile - 1 /\ x + l.scx \in Int /\ x + X(l) \in Int
          BY <1>1
        <5>3. ((x + l.scx) - (x + X(l))) % Tile = 0
          BY <1>1, <5>1, <5>2, DividedOnce
        <5>. QED
          BY <1>1, <5>2, <5>3, SameRest
      <4>. QED
        BY <4>2, <4>3
    <3>2. x + X(l) # 0
      <4>1. 0 = 0 * Tile + 0 /\ 0 \in 0 .. Tile - 1
        BY <1>1
      <4>2. 0 % Tile = 0
        BY <1>1, <4>1, DividedOnce
      <4>. QED
        BY <3>1, <4>2
    <3>3. - X(l) <= x - 1 /\ x - 1 < WX(l) /\ 0 < WX(l) /\ x - 1 \in Int /\ x - 1 < Width
          /\ x - 1 + X(l) = x + X(l) - 1 /\ x + X(l) \in Int /\ ~ (WX(l) <= x - 1)
      BY <1>1, <2>2, <3>2
    <3>4. x - 1 \in BgCells(l) /\ x - 1 \notin WndCells(l)
      BY <1>1, <3>3, BgCovers, WindowCovers
    <3>5. (x - 1 + X(l)) \div Tile = (x + X(l)) \div Tile
      BY <1>1, <3>1, <3>3, Neighbours
    <3>6. IsAbove(BgPixel(l, x - 1)) <=> IsAbove(BgPixel(l, x))
      BY <3>5 DEF BgPixel, TilePixel, IsAbove
    <3>7. x \notin WndCells(l)
      BY <2>2, LayersAsAsked
    <3>8. Layers(l, x - 1) = BgPixel(l, x - 1) /\ UnderSprites(l, x) = BgPixel(l, x)
      BY <3>4, <3>7, LayersAsAsked DEF Layers
    <3>. QED
      BY <1>2, <1>3, <3>4, <3>6, <3>8
  <2>. QED
    BY <2>1, <2>2
<1>. QED
  BY <1>4, <1>5

\* What is computed from what was computed before, n times.
Computed(n, b, step, g) == g[0] = b /\ \A k \in 1 .. n : g[k] = step[<<k, g[k - 1]>>]

\* Such a computation exists, whatever is computed.
LEMMA Recursion ==
  ASSUME NEW n \in Nat, NEW V, NEW b \in V, NEW step \in [(1 .. n) \X V -> V]
  PROVE  \E g \in [0 .. n -> V] : Computed(n, b, step, g)
<1>. DEFINE S == {m \in Nat : m <= n => \E g \in [0 .. m -> V] : Computed(m, b, step, g)}
<1>1. 0 \in S
  <2>1. [k \in 0 .. 0 |-> b] \in [0 .. 0 -> V] /\ Computed(0, b, step, [k \in 0 .. 0 |-> b])
    BY DEF Computed
  <2>. QED
    BY <2>1
<1>2. ASSUME NEW m \in Nat, m \in S PROVE m + 1 \in S
  <2>1. SUFFICES ASSUME m + 1 <= n PROVE \E g \in [0 .. m + 1 -> V] : Computed(m + 1, b, step, g)
    OBVIOUS
  <2>2. PICK g \in [0 .. m -> V] : Computed(m, b, step, g)
    BY <1>2, <2>1
  <2>. DEFINE h == [k \in 0 .. m + 1 |-> IF k = m + 1 THEN step[<<m + 1, g[m]>>] ELSE g[k]]
  <2>3. step[<<m + 1, g[m]>>] \in V
    <3>1. <<m + 1, g[m]>> \in (1 .. n) \X V
      BY <2>1
    <3>. QED
      BY <3>1
  <2>4. h \in [0 .. m + 1 -> V]
    BY <2>3
  <2>5. h[0] = b
    BY <2>2 DEF Computed
  <2>6. ASSUME NEW k \in 1 .. m + 1 PROVE h[k] = step[<<k, h[k - 1]>>]
    <3>1. CASE k = m + 1
      <4>1. k - 1 = m /\ m # m + 1 /\ m \in 0 .. m + 1 /\ m + 1 \in 0 .. m + 1
        BY <3>1
      <4>2. h[m] = g[m] /\ h[m + 1] = step[<<m + 1, g[m]>>]
        BY <4>1
      <4>. HIDE DEF h
      <4>. QED
        BY <3>1, <4>1, <4>2
    <3>2. CASE k # m + 1
      <4>1. k \in 1 .. m /\ k - 1 \in 0 .. m /\ k - 1 # m + 1 /\ k \in 0 .. m + 1
        BY <3>2
      <4>2. h[k] = g[k] /\ h[k - 1] = g[k - 1]
        BY <4>1
      <4>. QED
        BY <2>2, <4>1, <4>2 DEF Computed
    <3>. QED
      BY <3>1, <3>2
  <2>. HIDE DEF h
  <2>. QED
    BY <2>4, <2>5, <2>6 DEF Computed
<1>. HIDE DEF S
<1>3. n \in S
  BY <1>1, <1>2, NatInd
<1>. QED
  BY <1>3 DEF S
-----------------------------------------------------------------------------
\* A sprite is on the line where the line is one of its rows.
LEMMA OnLineIsRow ==
  ASSUME NEW l \in LineStates, NEW n \in 1 .. Len(l.oam)
  PROVE  /\ l.oam[n] \in Objects /\ Row(l, l.oam[n]) \in Int
         /\ OnLine(l, l.oam[n]) <=> Row(l, l.oam[n]) \in 0 .. Height(l) - 1
<1>. DEFINE o == l.oam[n]
<1>1. l.oam \in Seq(Objects) /\ l.L \in Nat /\ l.tall \in BOOLEAN /\ Tile \in Nat
  BY LineIs, ScanSizes
<1>2. o \in Objects
  BY <1>1
<1>3. o.y \in Nat
  BY <1>2 DEF Objects
<1>. HIDE DEF o
<1>4. Row(l, o) \in Int /\ (OnLine(l, o) <=> Row(l, o) \in 0 .. Height(l) - 1)
  BY <1>1, <1>3, SMTT(30) DEF Row, OnLine, Height
<1>. QED
  BY <1>2, <1>4 DEF o

\* The list of the sprites found among the first n, after one sprite more.
WithObj(l, objs, n) ==
  IF OnLine(l, l.oam[n]) /\ Len(objs) < MaxSprites THEN Append(objs, n) ELSE objs

IsTaken(l, g) ==
  g = [n \in 0 .. Len(l.oam) |-> IF n = 0 THEN <<>> ELSE WithObj(l, g[n - 1], n)]

\* The loop of spr_enum ends with such a list.
LEMMA TakenExists ==
  ASSUME NEW l \in LineStates
  PROVE  \E g \in [0 .. Len(l.oam) -> Seq(1 .. Len(l.oam))] : IsTaken(l, g)
<1>. DEFINE N == Len(l.oam)
            V == Seq(1 .. N)
            step == [p \in (1 .. N) \X V |-> WithObj(l, p[2], p[1])]
<1>1. N \in Nat
  BY LineIs
<1>2. <<>> \in V
  OBVIOUS
<1>. HIDE DEF N
<1>3. step \in [(1 .. N) \X V -> V]
  <2>1. ASSUME NEW v \in V, NEW k \in 1 .. N PROVE WithObj(l, v, k) \in V
    <3>1. Append(v, k) \in V
      OBVIOUS
    <3>. HIDE DEF V
    <3>. QED
      BY <3>1, Zenon DEF WithObj
  <2>. HIDE DEF V
  <2>. QED
    BY <2>1
<1>. HIDE DEF step
<1>4. PICK g \in [0 .. N -> V] : Computed(N, <<>>, step, g)
  <2>. HIDE DEF V
  <2>. QED
    BY <1>1, <1>2, <1>3, Recursion
<1>5. ASSUME NEW k \in 1 .. N PROVE g[k] = WithObj(l, g[k - 1], k)
  <2>1. k - 1 \in 0 .. N
    BY <1>1
  <2>2. <<k, g[k - 1]>> \in (1 .. N) \X V
    BY <2>1
  <2>. HIDE DEF V
  <2>. QED
    BY <1>4, <2>2 DEF step, Computed
<1>6. g = [k \in 0 .. N |-> IF k = 0 THEN <<>> ELSE WithObj(l, g[k - 1], k)]
  <2>1. \A k \in 0 .. N : k # 0 => k \in 1 .. N
    BY <1>1
  <2>2. \A k \in 0 .. N : g[k] = IF k = 0 THEN <<>> ELSE WithObj(l, g[k - 1], k)
    BY <1>4, <1>5, <2>1 DEF Computed
  <2>. QED
    BY <2>2
<1>. QED
  BY <1>6 DEF IsTaken, N

\* The sprites on a line, and those the hardware shows of them.
Reaching(l) == {n \in DOMAIN l.oam : l.obj /\ Row(l, l.oam[n]) \in 0 .. Height(l) - 1}
FirstFew(l) == {n \in Reaching(l) : Cardinality({m \in Reaching(l) : m < n}) < MaxSprites}

Increasing(c) == \A i, j \in 1 .. Len(c) : i < j => c[i] < c[j]

\* A list c of the first sprites on the line, among the first n objects.
FirstOf(l, c, n) ==
  /\ c \in Seq(1 .. n) /\ Len(c) <= MaxSprites /\ Increasing(c)
  /\ \A i \in 1 .. Len(c) : OnLine(l, l.oam[c[i]])
  /\ \A m \in 1 .. n : OnLine(l, l.oam[m]) =>
       \/ \E i \in 1 .. Len(c) : c[i] = m
       \/ Len(c) = MaxSprites /\ \A i \in 1 .. Len(c) : c[i] < m

\* One object more is looked at.
LEMMA FirstOfNext ==
  ASSUME NEW l, NEW n \in Nat, NEW c, FirstOf(l, c, n)
  PROVE  FirstOf(l, WithObj(l, c, n + 1), n + 1)
<1>0. MaxSprites \in Nat /\ Len(c) \in Nat /\ Len(c) <= MaxSprites /\ c \in Seq(1 .. n) /\ c \in Seq(1 .. n + 1)
  <2>1. 1 .. n \subseteq 1 .. n + 1
    OBVIOUS
  <2>2. c \in Seq(1 .. n) /\ Len(c) <= MaxSprites
    BY DEF FirstOf
  <2>3. \A i \in 1 .. Len(c) : c[i] \in 1 .. n + 1
    BY <2>1, <2>2
  <2>. QED
    BY <2>2, <2>3, ScanSizes
<1>1. \A i \in 1 .. Len(c) : c[i] \in 1 .. n /\ c[i] < n + 1
  BY <1>0
<1>2. CASE OnLine(l, l.oam[n + 1]) /\ Len(c) < MaxSprites
  <2>. DEFINE d == Append(c, n + 1)
  <2>1. WithObj(l, c, n + 1) = d
    BY <1>2 DEF WithObj
  <2>2. /\ d \in Seq(1 .. n + 1) /\ Len(d) = Len(c) + 1 /\ d[Len(c) + 1] = n + 1
        /\ \A i \in 1 .. Len(c) : d[i] = c[i]
    BY <1>0
  <2>. HIDE DEF d
  <2>3. \A i \in 1 .. Len(d) : i \in 1 .. Len(c) \/ i = Len(c) + 1
    BY <1>0, <2>2
  <2>4. Increasing(d)
    <3>1. SUFFICES ASSUME NEW i \in 1 .. Len(d), NEW j \in 1 .. Len(d), i < j PROVE d[i] < d[j]
      BY DEF Increasing
    <3>2. i \in 1 .. Len(c)
      BY <1>0, <2>2, <3>1
    <3>3. CASE j \in 1 .. Len(c)
      BY <2>2, <3>1, <3>2, <3>3 DEF FirstOf, Increasing
    <3>4. CASE j = Len(c) + 1
      BY <1>1, <2>2, <3>2, <3>4
    <3>. QED
      BY <2>3, <3>3, <3>4
  <2>5. \A i \in 1 .. Len(d) : OnLine(l, l.oam[d[i]])
    BY <1>2, <2>2, <2>3 DEF FirstOf
  <2>6. ASSUME NEW m \in 1 .. n + 1, OnLine(l, l.oam[m])
        PROVE  \E i \in 1 .. Len(d) : d[i] = m
    <3>1. CASE m = n + 1
      <4>1. Len(c) + 1 \in 1 .. Len(d)
        BY <1>0, <2>2
      <4>. QED
        BY <2>2, <3>1, <4>1
    <3>2. CASE m # n + 1
      <4>1. m \in 1 .. n
        BY <3>2
      <4>2. PICK i \in 1 .. Len(c) : c[i] = m
        BY <1>0, <1>2, <2>6, <4>1 DEF FirstOf
      <4>3. i \in 1 .. Len(d) /\ d[i] = m
        BY <1>0, <2>2, <4>2
      <4>. QED
        BY <4>3
    <3>. QED
      BY <3>1, <3>2
  <2>7. Len(d) <= MaxSprites
    BY <1>0, <1>2, <2>2
  <2>. QED
    BY <2>1, <2>2, <2>4, <2>5, <2>6, <2>7 DEF FirstOf
<1>3. CASE ~ (OnLine(l, l.oam[n + 1]) /\ Len(c) < MaxSprites)
  <2>1. WithObj(l, c, n + 1) = c
    BY <1>3 DEF WithObj
  <2>2. ASSUME NEW m \in 1 .. n + 1, OnLine(l, l.oam[m])
        PROVE  \/ \E i \in 1 .. Len(c) : c[i] = m
               \/ Len(c) = MaxSprites /\ \A i \in 1 .. Len(c) : c[i] < m
    <3>1. CASE m = n + 1
      BY <1>0, <1>1, <1>3, <2>2, <3>1
    <3>2. CASE m # n + 1
      <4>1. m \in 1 .. n
        BY <3>2
      <4>. QED
        BY <2>2, <4>1 DEF FirstOf
    <3>. QED
      BY <3>1, <3>2
  <2>. QED
    BY <1>0, <2>1, <2>2 DEF FirstOf
<1>. QED
  BY <1>2, <1>3

\* spr_enum finds the first sprites on the line.
LEMMA ChosenAreFirst ==
  ASSUME NEW l \in LineStates, l.obj
  PROVE  FirstOf(l, ChosenObjs(l), Len(l.oam))
<1>. DEFINE g == CHOOSE g : IsTaken(l, g)
            N == Len(l.oam)
            S == {k \in Nat : k <= N => FirstOf(l, g[k], k)}
<1>1. N \in Nat
  BY LineIs
<1>2. ChosenObjs(l) = g[N]
  BY DEF ChosenObjs, IsTaken, WithObj
<1>3. IsTaken(l, g)
  BY TakenExists
<1>. HIDE DEF g
<1>4. 0 \in S
  <2>1. g[0] = <<>>
    BY <1>1, <1>3 DEF IsTaken
  <2>2. <<>> \in Seq(1 .. 0) /\ Len(<<>>) = 0
    OBVIOUS
  <2>3. FirstOf(l, <<>>, 0)
    BY <2>2, ScanSizes DEF FirstOf, Increasing
  <2>. QED
    BY <2>1, <2>3
<1>5. ASSUME NEW k \in Nat, k \in S PROVE k + 1 \in S
  <2>1. SUFFICES ASSUME k + 1 <= N PROVE FirstOf(l, g[k + 1], k + 1)
    OBVIOUS
  <2>2. k \in 0 .. N /\ k + 1 \in 0 .. N /\ k + 1 # 0 /\ (k + 1) - 1 = k /\ k <= N
    BY <1>1, <2>1
  <2>3. g[k + 1] = WithObj(l, g[k], k + 1)
    BY <1>3, <2>2 DEF IsTaken
  <2>. QED
    BY <1>5, <2>2, <2>3, FirstOfNext
<1>. HIDE DEF S
<1>6. N \in S
  BY <1>1, <1>4, <1>5, NatInd
<1>. QED
  BY <1>1, <1>2, <1>6 DEF S

\* An increasing list has as many members as places.
LEMMA IncreasingCounts ==
  ASSUME NEW c \in Seq(Nat), Increasing(c), NEW m \in 0 .. Len(c)
  PROVE  IsFiniteSet({c[j] : j \in 1 .. m}) /\ Cardinality({c[j] : j \in 1 .. m}) = m
<1>. DEFINE T == {c[j] : j \in 1 .. m}
            f == [j \in 1 .. m |-> c[j]]
<1>1. Len(c) \in Nat /\ m \in Nat /\ 1 .. m \subseteq 1 .. Len(c)
  OBVIOUS
<1>2. IsFiniteSet(1 .. m) /\ Cardinality(1 .. m) = m
  <2>1. IsFiniteSet(1 .. m) /\ Cardinality(1 .. m) = IF 1 > m THEN 0 ELSE m - 1 + 1
    BY <1>1, FS_Interval
  <2>. QED
    BY <1>1, <2>1
<1>3. \A i, j \in 1 .. m : c[i] = c[j] => i = j
  <2>1. SUFFICES ASSUME NEW i \in 1 .. m, NEW j \in 1 .. m, c[i] = c[j], i # j PROVE FALSE
    OBVIOUS
  <2>2. i \in 1 .. Len(c) /\ j \in 1 .. Len(c) /\ c[i] \in Nat /\ c[j] \in Nat
    BY <1>1
  <2>3. i < j \/ j < i
    BY <2>1, <2>2
  <2>4. c[i] < c[j] \/ c[j] < c[i]
    BY <2>2, <2>3 DEF Increasing
  <2>. QED
    BY <2>1, <2>2, <2>4
<1>4. f \in Surjection(1 .. m, T) /\ f \in Injection(1 .. m, T)
  BY <1>3 DEF Surjection, Injection, IsInjective
<1>. QED
  BY <1>2, <1>4, FS_Surjection

\* The first of the list are the few that the hardware shows.
LEMMA FirstAreFew ==
  ASSUME NEW l \in LineStates, l.obj, NEW c, FirstOf(l, c, Len(l.oam))
  PROVE  FirstFew(l) = {c[i] : i \in 1 .. Len(c)}
<1>. DEFINE N == Len(l.oam)
            Earlier(m) == {k \in Reaching(l) : k < m}
<1>1. /\ N \in Nat /\ DOMAIN l.oam = 1 .. N
      /\ c \in Seq(1 .. N) /\ Len(c) \in Nat /\ Len(c) <= MaxSprites /\ MaxSprites \in Nat
  BY LineIs, ScanSizes DEF FirstOf
<1>2. c \in Seq(Nat) /\ Increasing(c)
  <2>1. \A i \in 1 .. Len(c) : c[i] \in Nat
    BY <1>1
  <2>. QED
    BY <1>1, <2>1 DEF FirstOf
<1>3. \A m : m \in Reaching(l) <=> m \in 1 .. N /\ OnLine(l, l.oam[m])
  BY <1>1, OnLineIsRow DEF Reaching
<1>4. ASSUME NEW m \in Reaching(l)
      PROVE  /\ IsFiniteSet(Earlier(m)) /\ Cardinality(Earlier(m)) \in Nat
             /\ \A A \in SUBSET Earlier(m) : IsFiniteSet(A) /\ Cardinality(A) <= Cardinality(Earlier(m))
  <2>2. Earlier(m) \subseteq 1 .. N
    BY <1>3
  <2>. HIDE DEF N, Earlier
  <2>1. IsFiniteSet(1 .. N)
    <3>1. 1 \in Int /\ N \in Int
      BY <1>1
    <3>. QED
      BY <3>1, FS_Interval, Zenon
  <2>3. IsFiniteSet(Earlier(m))
    BY <2>1, <2>2, FS_Subset
  <2>. QED
    BY <2>3, FS_Subset, FS_CardinalityType
<1>5. ASSUME NEW i \in 1 .. Len(c)
      PROVE  c[i] \in Reaching(l) /\ Cardinality(Earlier(c[i])) < MaxSprites
  <2>1. c[i] \in Reaching(l)
    <3>1. c[i] \in 1 .. N
      BY <1>1
    <3>2. OnLine(l, l.oam[c[i]])
      BY <1>5, Zenon DEF FirstOf
    <3>. QED
      BY <1>3, <3>1, <3>2, Zenon
  <2>2. Earlier(c[i]) \subseteq {c[j] : j \in 1 .. i - 1}
    <3>1. SUFFICES ASSUME NEW k \in Earlier(c[i]) PROVE \E j \in 1 .. i - 1 : c[j] = k
      BY Zenon
    <3>2. k \in 1 .. N /\ OnLine(l, l.oam[k]) /\ k < c[i]
      BY <1>3, <3>1
    <3>3. PICK j \in 1 .. Len(c) : c[j] = k
      <4>1. \/ \E j \in 1 .. Len(c) : c[j] = k
            \/ Len(c) = MaxSprites /\ \A j \in 1 .. Len(c) : c[j] < k
        BY <3>2 DEF FirstOf
      <4>2. ~ (c[i] < k)
        BY <1>2, <3>2
      <4>. QED
        BY <4>1, <4>2
    <3>4. j < i
      <4>1. i = j \/ i < j \/ j < i
        BY <1>1
      <4>2. c[i] \in Nat /\ c[j] \in Nat
        BY <1>2
      <4>3. i < j => c[i] < c[j]
        BY <1>2 DEF Increasing
      <4>. QED
        BY <3>2, <3>3, <4>1, <4>2, <4>3
    <3>. QED
      BY <3>3, <3>4
  <2>3. /\ i - 1 \in 0 .. Len(c)
        /\ IsFiniteSet({c[j] : j \in 1 .. i - 1}) /\ Cardinality({c[j] : j \in 1 .. i - 1}) = i - 1
    <3>1. i - 1 \in 0 .. Len(c)
      BY <1>1
    <3>. QED
      BY <1>2, <3>1, IncreasingCounts
  <2>4. Cardinality(Earlier(c[i])) <= i - 1
    <3>. HIDE DEF Earlier
    <3>. QED
      BY <2>2, <2>3, FS_Subset
  <2>5. Cardinality(Earlier(c[i])) \in Nat
    BY <1>4, <2>1
  <2>. HIDE DEF Earlier
  <2>. QED
    BY <1>1, <2>1, <2>4, <2>5
<1>6. ASSUME NEW m \in FirstFew(l)
      PROVE  \E i \in 1 .. Len(c) : c[i] = m
  <2>1. m \in Reaching(l) /\ Cardinality(Earlier(m)) < MaxSprites
    BY <1>6 DEF FirstFew
  <2>2. SUFFICES ASSUME ~ \E i \in 1 .. Len(c) : c[i] = m PROVE FALSE
    OBVIOUS
  <2>3. Len(c) = MaxSprites /\ \A i \in 1 .. Len(c) : c[i] < m
    BY <1>3, <2>1, <2>2 DEF FirstOf
  <2>4. {c[i] : i \in 1 .. Len(c)} \in SUBSET Earlier(m)
    BY <1>5, <2>3
  <2>5. Len(c) \in 0 .. Len(c)
    BY <1>1
  <2>6. Cardinality({c[i] : i \in 1 .. Len(c)}) = Len(c)
    BY <1>2, <2>5, IncreasingCounts
  <2>. HIDE DEF Earlier
  <2>. QED
    BY <1>1, <1>4, <2>1, <2>3, <2>4, <2>6
<1>7. \A i \in 1 .. Len(c) : c[i] \in FirstFew(l)
  BY <1>5 DEF FirstFew
<1>. QED
  BY <1>6, <1>7
-----------------------------------------------------------------------------
\* A list of sprites in the order of their priority.
Ordered(l, v) == \A i, j \in 1 .. Len(v) : i < j => Before(l, v[i], v[j])

\* The list with a sprite put before place p.
LEMMA PutBeforeIs ==
  ASSUME NEW T, NEW n \in T, NEW v \in Seq(T), NEW p \in 1 .. Len(v) + 1
  PROVE  /\ PutBefore(n, v, p) \in Seq(T) /\ Len(PutBefore(n, v, p)) = Len(v) + 1
         /\ \A k \in 1 .. Len(v) + 1 :
              PutBefore(n, v, p)[k] = IF k < p THEN v[k] ELSE IF k = p THEN n ELSE v[k - 1]
<1>. DEFINE a == SubSeq(v, 1, p - 1)
            b == SubSeq(v, p, Len(v))
<1>1. Len(v) \in Nat /\ p \in Nat
  OBVIOUS
<1>2. a \in Seq(T) /\ Len(a) = p - 1 /\ \A k \in 1 .. p - 1 : a[k] = v[k]
  BY <1>1
<1>3. b \in Seq(T) /\ Len(b) = Len(v) + 1 - p /\ \A k \in 1 .. Len(v) + 1 - p : b[k] = v[p + k - 1]
  BY <1>1
<1>4. PutBefore(n, v, p) = (a \o <<n>>) \o b
  BY DEF PutBefore
<1>. HIDE DEF a, b
<1>5. /\ a \o <<n>> \in Seq(T) /\ Len(a \o <<n>>) = p
      /\ \A k \in 1 .. p : (a \o <<n>>)[k] = IF k < p THEN v[k] ELSE n
  BY <1>1, <1>2
<1>. DEFINE d == a \o <<n>>
<1>. HIDE DEF d
<1>6. d \in Seq(T) /\ b \in Seq(T) /\ Len(d) = p /\ \A k \in 1 .. p : d[k] = IF k < p THEN v[k] ELSE n
  BY <1>3, <1>5 DEF d
<1>9. /\ d \o b \in Seq(T) /\ Len(d \o b) = Len(d) + Len(b)
      /\ \A i \in 1 .. Len(d) + Len(b) : (d \o b)[i] = IF i <= Len(d) THEN d[i] ELSE b[i - Len(d)]
  BY <1>6, ConcatProperties, Zenon
<1>7. d \o b \in Seq(T) /\ Len(d \o b) = Len(v) + 1
  BY <1>1, <1>3, <1>6, <1>9
<1>8. ASSUME NEW k \in 1 .. Len(v) + 1
      PROVE  (d \o b)[k] = IF k < p THEN v[k] ELSE IF k = p THEN n ELSE v[k - 1]
  <2>0. k \in 1 .. Len(d) + Len(b) /\ Len(d) = p
    BY <1>1, <1>3, <1>6
  <2>1. CASE k <= p
    <3>1. (d \o b)[k] = d[k] /\ k \in 1 .. p
      BY <1>1, <1>9, <2>0, <2>1
    <3>. QED
      BY <1>1, <1>6, <2>1, <3>1
  <2>2. CASE k > p
    <3>1. k - p \in 1 .. Len(v) + 1 - p /\ p + (k - p) - 1 = k - 1
      BY <1>1, <2>2
    <3>2. (d \o b)[k] = b[k - p]
      BY <1>1, <1>9, <2>0, <2>2
    <3>. QED
      BY <1>1, <1>3, <2>2, <3>1, <3>2
  <2>3. k <= p \/ k > p
    BY <1>1
  <2>. QED
    BY <2>1, <2>2, <2>3, Zenon
<1>. QED
  BY <1>4, <1>7, <1>8 DEF d

\* What is known of an object.
LEMMA ObjectIs ==
  ASSUME NEW l \in LineStates, NEW m \in 1 .. Len(l.oam)
  PROVE  /\ l.oam[m].x \in Nat /\ l.oam[m].y \in Nat /\ l.oam[m].behind \in BOOLEAN
         /\ l.oam[m].mirrored \in BOOLEAN /\ l.oam[m].upside \in BOOLEAN
<1>1. l.oam[m] \in Objects
  BY OnLineIsRow
<1>. QED
  BY <1>1 DEF Objects

\* The place where a sprite is put: all before it are to its left, none behind.
LEMMA PlaceIs ==
  ASSUME NEW l \in LineStates, NEW v \in Seq(1 .. Len(l.oam)), NEW n \in 1 .. Len(l.oam)
  PROVE  \E p \in 1 .. Len(v) + 1 :
           /\ Insert(l, n, v) = PutBefore(n, v, p)
           /\ \A k \in 1 .. Len(v) : k < p => l.oam[v[k]].x < l.oam[n].x
           /\ p <= Len(v) => l.oam[n].x <= l.oam[v[p]].x
<1>. DEFINE K == {k \in DOMAIN v : l.oam[n].x <= l.oam[v[k]].x} \cup {Len(v) + 1}
            p == Min(K)
<1>1. Len(v) \in Nat /\ DOMAIN v = 1 .. Len(v)
  OBVIOUS
<1>2. \A m \in 1 .. Len(l.oam) : l.oam[m].x \in Nat
  BY ObjectIs
<1>3. \A k \in 1 .. Len(v) : v[k] \in 1 .. Len(l.oam)
  OBVIOUS
<1>4. K \in SUBSET Nat /\ K # {} /\ K \subseteq 1 .. Len(v) + 1
  BY <1>1
<1>5. \E least \in K : \A y \in K : least <= y
  <2>. HIDE DEF K
  <2>. QED
    BY <1>4, NatMin
<1>6. p \in K /\ \A y \in K : p <= y
  <2>. HIDE DEF K
  <2>. QED
    BY <1>5 DEF Min
<1>7. Insert(l, n, v) = PutBefore(n, v, p)
  BY DEF Insert
<1>. HIDE DEF p
<1>8. p \in 1 .. Len(v) + 1
  BY <1>4, <1>6
<1>9. ASSUME NEW k \in 1 .. Len(v), k < p PROVE l.oam[v[k]].x < l.oam[n].x
  <2>1. k \notin K
    <3>. HIDE DEF K
    <3>. QED
      BY <1>6, <1>8, <1>9
  <2>2. ~ (l.oam[n].x <= l.oam[v[k]].x)
    BY <1>1, <2>1
  <2>. QED
    BY <1>2, <1>3, <2>2, SMTT(30)
<1>10. ASSUME p <= Len(v) PROVE l.oam[n].x <= l.oam[v[p]].x
  BY <1>1, <1>6, <1>8, <1>10
<1>. QED
  BY <1>7, <1>8, <1>9, <1>10

\* The order of the sprites goes from one to the next and to the one after it.
LEMMA BeforeAgain ==
  ASSUME NEW l \in LineStates, NEW a \in 1 .. Len(l.oam), NEW b \in 1 .. Len(l.oam),
         NEW c \in 1 .. Len(l.oam), Before(l, a, b), Before(l, b, c)
  PROVE  Before(l, a, c) /\ a # c
<1>1. l.oam[a].x \in Nat /\ l.oam[b].x \in Nat /\ l.oam[c].x \in Nat /\ l.cgb \in BOOLEAN
  BY LineIs, ObjectIs
<1>. QED
  BY <1>1, SMTT(30) DEF Before

\* The members of a list.
Members(v) == {v[i] : i \in 1 .. Len(v)}

\* A sprite that comes first in object memory is put in its place by Insert.
LEMMA InsertIs ==
  ASSUME NEW l \in LineStates, ~ l.cgb, NEW v \in Seq(1 .. Len(l.oam)), Ordered(l, v),
         NEW n \in 1 .. Len(l.oam), \A i \in 1 .. Len(v) : n < v[i]
  PROVE  /\ Insert(l, n, v) \in Seq(1 .. Len(l.oam)) /\ Ordered(l, Insert(l, n, v))
         /\ Members(Insert(l, n, v)) = Members(v) \cup {n}
<1>. DEFINE N == Len(l.oam)
<1>1. Len(v) \in Nat /\ \A k \in 1 .. Len(v) : v[k] \in 1 .. N
  OBVIOUS
<1>2. \A m \in 1 .. N : l.oam[m].x \in Nat
  BY ObjectIs
<1>3. PICK p \in 1 .. Len(v) + 1 :
        /\ Insert(l, n, v) = PutBefore(n, v, p)
        /\ \A k \in 1 .. Len(v) : k < p => l.oam[v[k]].x < l.oam[n].x
        /\ p <= Len(v) => l.oam[n].x <= l.oam[v[p]].x
  BY PlaceIs
<1>. DEFINE w == PutBefore(n, v, p)
<1>4. /\ w \in Seq(1 .. N) /\ Len(w) = Len(v) + 1
      /\ \A k \in 1 .. Len(v) + 1 : w[k] = IF k < p THEN v[k] ELSE IF k = p THEN n ELSE v[k - 1]
  <2>1. n \in 1 .. N /\ v \in Seq(1 .. N) /\ p \in 1 .. Len(v) + 1
    OBVIOUS
  <2>. HIDE DEF N, w
  <2>2. \A T : n \in T /\ v \in Seq(T) =>
          /\ PutBefore(n, v, p) \in Seq(T) /\ Len(PutBefore(n, v, p)) = Len(v) + 1
          /\ \A k \in 1 .. Len(v) + 1 :
               PutBefore(n, v, p)[k] = IF k < p THEN v[k] ELSE IF k = p THEN n ELSE v[k - 1]
    BY PutBeforeIs
  <2>. QED
    BY <2>1, <2>2, Zenon DEF w
<1>. HIDE DEF w, N
<1>5. ASSUME NEW k \in 1 .. Len(v), k < p PROVE Before(l, v[k], n)
  BY <1>1, <1>3, <1>5 DEF Before
<1>6. ASSUME NEW k \in 1 .. Len(v), p <= k PROVE Before(l, n, v[k])
  <2>1. p \in 1 .. Len(v) /\ p <= Len(v)
    BY <1>1, <1>6
  <2>2. l.oam[n].x <= l.oam[v[p]].x
    BY <1>3, <2>1
  <2>3. l.oam[v[p]].x <= l.oam[v[k]].x
    <3>1. CASE p = k
      <4>1. v[k] \in 1 .. N
        BY <1>1
      <4>2. l.oam[v[k]].x \in Nat
        BY <1>2, <4>1, Zenon
      <4>3. \A a \in Nat : a <= a
        OBVIOUS
      <4>. QED
        BY <3>1, <4>2, <4>3, Zenon
    <3>2. CASE p < k
      <4>1. Before(l, v[p], v[k])
        BY <2>1, <3>2 DEF Ordered
      <4>2. v[p] \in 1 .. N /\ v[k] \in 1 .. N
        BY <1>1, <2>1
      <4>3. l.oam[v[p]].x \in Nat /\ l.oam[v[k]].x \in Nat
        BY <1>2, <4>2
      <4>4. l.oam[v[p]].x < l.oam[v[k]].x \/ l.oam[v[p]].x = l.oam[v[k]].x
        BY <4>1, Zenon DEF Before
      <4>5. \A a, b \in Nat : a < b \/ a = b => a <= b
        OBVIOUS
      <4>. QED
        BY <4>3, <4>4, <4>5, Zenon
    <3>. QED
      BY <1>6, <2>1, <3>1, <3>2
  <2>4. n < v[k] /\ l.oam[n].x \in Nat /\ l.oam[v[p]].x \in Nat /\ l.oam[v[k]].x \in Nat
    BY <1>1, <1>2, <2>1 DEF N
  <2>5. l.oam[n].x < l.oam[v[k]].x \/ l.oam[n].x = l.oam[v[k]].x
    <3>1. \A a, b, c \in Nat : a <= b /\ b <= c => a < c \/ a = c
      OBVIOUS
    <3>. QED
      BY <2>2, <2>3, <2>4, <3>1, Zenon
  <2>. QED
    BY <2>4, <2>5 DEF Before
<1>7. ASSUME NEW i \in 1 .. Len(w), NEW j \in 1 .. Len(w), i < j PROVE Before(l, w[i], w[j])
  <2>1. i \in Nat /\ j \in Nat /\ p \in Nat /\ 1 <= i /\ j <= Len(v) + 1 /\ Len(v) \in Nat
    BY <1>1, <1>4
  <2>2. CASE j < p
    <3>1. w[i] = v[i] /\ w[j] = v[j] /\ i \in 1 .. Len(v) /\ j \in 1 .. Len(v)
      BY <1>4, <1>7, <2>1, <2>2
    <3>. QED
      BY <1>7, <3>1 DEF Ordered
  <2>3. CASE j = p
    <3>1. w[i] = v[i] /\ w[j] = n /\ i \in 1 .. Len(v) /\ i < p
      BY <1>4, <1>7, <2>1, <2>3
    <3>. QED
      BY <1>5, <3>1
  <2>4. CASE j > p
    <3>1. w[j] = v[j - 1] /\ j - 1 \in 1 .. Len(v) /\ p <= j - 1
      BY <1>4, <1>7, <2>1, <2>4
    <3>2. CASE i < p
      <4>1. w[i] = v[i] /\ i \in 1 .. Len(v) /\ i < j - 1
        BY <1>4, <2>1, <2>4, <3>2
      <4>. QED
        BY <3>1, <4>1 DEF Ordered
    <3>3. CASE i = p
      <4>1. w[i] = n
        BY <1>4, <2>1, <3>3
      <4>. QED
        BY <1>6, <3>1, <4>1
    <3>4. CASE i > p
      <4>1. w[i] = v[i - 1] /\ i - 1 \in 1 .. Len(v) /\ i - 1 < j - 1
        BY <1>4, <1>7, <2>1, <3>4
      <4>. QED
        BY <3>1, <4>1 DEF Ordered
    <3>. QED
      BY <2>1, <3>2, <3>3, <3>4
  <2>. QED
    BY <2>1, <2>2, <2>3, <2>4
<1>8. ASSUME NEW k \in 1 .. Len(w) PROVE w[k] \in Members(v) \cup {n}
  <2>1. k \in Nat /\ p \in Nat /\ 1 <= k /\ k <= Len(v) + 1 /\ Len(v) \in Nat
    BY <1>1, <1>4
  <2>2. CASE k < p
    <3>1. w[k] = v[k] /\ k \in 1 .. Len(v)
      BY <1>4, <2>1, <2>2
    <3>. QED
      BY <3>1 DEF Members
  <2>3. CASE k = p
    BY <1>4, <2>1, <2>3
  <2>4. CASE k > p
    <3>1. w[k] = v[k - 1] /\ k - 1 \in 1 .. Len(v)
      BY <1>4, <2>1, <2>4
    <3>. QED
      BY <3>1 DEF Members
  <2>. QED
    BY <2>1, <2>2, <2>3, <2>4
<1>9. ASSUME NEW k \in 1 .. Len(v) PROVE v[k] \in Members(w)
  <2>1. k \in Nat /\ p \in Nat /\ 1 <= k /\ k <= Len(v) /\ Len(v) \in Nat
    BY <1>1
  <2>2. CASE k < p
    <3>1. w[k] = v[k] /\ k \in 1 .. Len(w)
      BY <1>4, <2>1, <2>2
    <3>. QED
      BY <3>1 DEF Members
  <2>3. CASE k >= p
    <3>1. w[k + 1] = v[k] /\ k + 1 \in 1 .. Len(w)
      <4>1. k + 1 \in 1 .. Len(v) + 1 /\ ~ (k + 1 < p) /\ k + 1 # p /\ (k + 1) - 1 = k
        BY <2>1, <2>3
      <4>. QED
        BY <1>4, <4>1
    <3>. QED
      BY <3>1 DEF Members
  <2>. QED
    BY <2>1, <2>2, <2>3
<1>10. n \in Members(w)
  <2>1. w[p] = n /\ p \in 1 .. Len(w)
    BY <1>1, <1>4
  <2>. QED
    BY <2>1 DEF Members
<1>11. Ordered(l, w)
  BY <1>7 DEF Ordered
<1>12. Members(w) \subseteq Members(v) \cup {n}
  BY <1>8 DEF Members
<1>13. Members(v) \cup {n} \subseteq Members(w)
  <2>. DEFINE M == Members(w)
  <2>1. n \in M /\ \A k \in 1 .. Len(v) : v[k] \in M
    BY <1>9, <1>10
  <2>. HIDE DEF M
  <2>2. Members(v) \cup {n} \subseteq M
    BY <2>1 DEF Members
  <2>. QED
    BY <2>2 DEF M
<1>. QED
  BY <1>3, <1>4, <1>11, <1>12, <1>13 DEF w, N

\* A list of the objects of a line, as spr_enum makes it.
Found(l, c) == c \in Seq(1 .. Len(l.oam)) /\ Increasing(c) /\ Members(c) = FirstFew(l)

\* spr_enum finds the few that the hardware shows, whatever is on the line.
LEMMA ChosenAreFound ==
  ASSUME NEW l \in LineStates
  PROVE  Found(l, ChosenObjs(l))
<1>1. CASE l.obj
  <2>1. FirstOf(l, ChosenObjs(l), Len(l.oam))
    BY <1>1, ChosenAreFirst
  <2>2. FirstFew(l) = {ChosenObjs(l)[i] : i \in 1 .. Len(ChosenObjs(l))}
    BY <1>1, <2>1, FirstAreFew
  <2>. QED
    BY <2>1, <2>2 DEF Found, FirstOf, Members
<1>2. CASE ~ l.obj
  <2>1. ChosenObjs(l) = <<>> /\ FirstFew(l) = {}
    BY <1>2 DEF ChosenObjs, FirstFew, Reaching
  <2>2. <<>> \in Seq(1 .. Len(l.oam)) /\ Increasing(<<>>) /\ Members(<<>>) = {}
    BY DEF Increasing, Members
  <2>. QED
    BY <2>1, <2>2 DEF Found
<1>. QED
  BY <1>1, <1>2

IsSorting(l, c, g) ==
  g = [k \in 0 .. Len(c) |-> IF k = 0 THEN <<>> ELSE Insert(l, c[Len(c) + 1 - k], g[k - 1])]

\* Sorting comes to an end.
LEMMA SortedExists ==
  ASSUME NEW l \in LineStates, NEW c \in Seq(1 .. Len(l.oam))
  PROVE  \E g \in [0 .. Len(c) -> Seq(1 .. Len(l.oam))] : IsSorting(l, c, g)
<1>. DEFINE N == Len(l.oam)
            V == Seq(1 .. N)
            M == Len(c)
            step == [p \in (1 .. M) \X V |-> Insert(l, c[M + 1 - p[1]], p[2])]
<1>1. M \in Nat /\ \A k \in 1 .. M : M + 1 - k \in 1 .. M /\ c[M + 1 - k] \in 1 .. N
  OBVIOUS
<1>2. <<>> \in V
  OBVIOUS
<1>3. step \in [(1 .. M) \X V -> V]
  <2>1. ASSUME NEW v \in V, NEW n \in 1 .. N PROVE Insert(l, n, v) \in V
    <3>1. PICK q \in 1 .. Len(v) + 1 : Insert(l, n, v) = PutBefore(n, v, q)
      BY PlaceIs
    <3>2. \A T : n \in T /\ v \in Seq(T) => PutBefore(n, v, q) \in Seq(T)
      BY PutBeforeIs
    <3>. QED
      BY <3>1, <3>2
  <2>. HIDE DEF V, M, N
  <2>. QED
    BY <1>1, <2>1
<1>. HIDE DEF step, M
<1>4. PICK g \in [0 .. M -> V] : Computed(M, <<>>, step, g)
  <2>. HIDE DEF V
  <2>. QED
    BY <1>1, <1>2, <1>3, Recursion
<1>5. ASSUME NEW k \in 1 .. M PROVE g[k] = Insert(l, c[M + 1 - k], g[k - 1])
  <2>1. k - 1 \in 0 .. M
    BY <1>1
  <2>2. <<k, g[k - 1]>> \in (1 .. M) \X V
    BY <2>1
  <2>. HIDE DEF V
  <2>. QED
    BY <1>4, <2>2 DEF step, Computed
<1>6. g = [k \in 0 .. M |-> IF k = 0 THEN <<>> ELSE Insert(l, c[M + 1 - k], g[k - 1])]
  <2>1. \A k \in 0 .. M : k # 0 => k \in 1 .. M
    BY <1>1
  <2>2. \A k \in 0 .. M : g[k] = IF k = 0 THEN <<>> ELSE Insert(l, c[M + 1 - k], g[k - 1])
    BY <1>4, <1>5, <2>1 DEF Computed
  <2>. QED
    BY <2>2
<1>. QED
  BY <1>6 DEF IsSorting, M

\* The last k members of a list.
LastOf(c, k) == {c[j] : j \in Len(c) + 1 - k .. Len(c)}

\* The list of sprites in the order of their priority, for both kinds of games.
LEMMA SpritesInOrder ==
  ASSUME NEW l \in LineStates
  PROVE  VS(l) \in Seq(1 .. Len(l.oam)) /\ Ordered(l, VS(l)) /\ Members(VS(l)) = FirstFew(l)
<1>. DEFINE c == ChosenObjs(l)
            N == Len(l.oam)
            M == Len(c)
<1>1. Found(l, c)
  BY ChosenAreFound
<1>. HIDE DEF c
<1>2. /\ c \in Seq(1 .. N) /\ M \in Nat /\ \A i \in 1 .. M : c[i] \in 1 .. N
      /\ \A i, j \in 1 .. M : i < j => c[i] < c[j]
  BY <1>1 DEF Found, Increasing
<1>3. CASE l.cgb
  <2>1. VS(l) = c
    BY <1>3 DEF VS, c
  <2>2. Ordered(l, c)
    BY <1>2, <1>3 DEF Ordered, Before
  <2>. QED
    BY <1>1, <1>2, <2>1, <2>2 DEF Found
<1>4. CASE ~ l.cgb
  <2>. DEFINE g == CHOOSE g : IsSorting(l, c, g)
  <2>1. VS(l) = g[M]
    BY <1>4 DEF VS, IsSorting, c
  <2>2. IsSorting(l, c, g)
    <3>1. \E h : IsSorting(l, c, h)
      BY <1>2, SortedExists
    <3>. QED
      BY <3>1
  <2>. HIDE DEF g, N
  <2>. DEFINE S == {k \in Nat : k <= M => /\ g[k] \in Seq(1 .. N) /\ Ordered(l, g[k])
                                        /\ Members(g[k]) = LastOf(c, k)}
  <2>3. 0 \in S
    <3>1. g[0] = <<>>
      BY <1>2, <2>2 DEF IsSorting
    <3>2. <<>> \in Seq(1 .. N) /\ Ordered(l, <<>>) /\ Members(<<>>) = {}
      BY DEF Ordered, Members
    <3>3. LastOf(c, 0) = {}
      BY <1>2 DEF LastOf
    <3>. QED
      BY <3>1, <3>2, <3>3
  <2>4. ASSUME NEW k \in Nat, k \in S PROVE k + 1 \in S
    <3>1. SUFFICES ASSUME k + 1 <= M
                   PROVE  /\ g[k + 1] \in Seq(1 .. N) /\ Ordered(l, g[k + 1])
                          /\ Members(g[k + 1]) = LastOf(c, k + 1)
      OBVIOUS
    <3>2. /\ k + 1 \in 0 .. M /\ k + 1 # 0 /\ (k + 1) - 1 = k /\ k <= M
          /\ M + 1 - (k + 1) = M - k /\ M - k \in 1 .. M
      BY <1>2, <3>1
    <3>3. g[k + 1] = Insert(l, c[M - k], g[k])
      BY <2>2, <3>2 DEF IsSorting
    <3>4. g[k] \in Seq(1 .. N) /\ Ordered(l, g[k]) /\ Members(g[k]) = LastOf(c, k)
      BY <2>4, <3>2
    <3>5. ASSUME NEW i \in 1 .. Len(g[k]) PROVE c[M - k] < g[k][i]
      <4>1. g[k][i] \in LastOf(c, k)
        BY <3>4 DEF Members
      <4>2. PICK j \in M + 1 - k .. M : g[k][i] = c[j]
        BY <4>1 DEF LastOf
      <4>3. j \in 1 .. M /\ M - k < j
        BY <1>2, <3>2
      <4>. QED
        BY <1>2, <3>2, <4>2, <4>3
    <3>6. LastOf(c, k + 1) = LastOf(c, k) \cup {c[M - k]}
      <4>1. \A j : j \in M + 1 - (k + 1) .. M <=> j \in M + 1 - k .. M \/ j = M - k
        BY <1>2, <3>2
      <4>. HIDE DEF M
      <4>. QED
        BY <4>1 DEF LastOf, M
    <3>7. c[M - k] \in 1 .. N
      BY <1>2, <3>2
    <3>8. /\ Insert(l, c[M - k], g[k]) \in Seq(1 .. N) /\ Ordered(l, Insert(l, c[M - k], g[k]))
          /\ Members(Insert(l, c[M - k], g[k])) = Members(g[k]) \cup {c[M - k]}
      <4>1. \A n, v : /\ n \in 1 .. N /\ v \in Seq(1 .. N) /\ Ordered(l, v)
                      /\ \A i \in 1 .. Len(v) : n < v[i]
                      => /\ Insert(l, n, v) \in Seq(1 .. N) /\ Ordered(l, Insert(l, n, v))
                         /\ Members(Insert(l, n, v)) = Members(v) \cup {n}
        BY <1>4, InsertIs DEF N
      <4>. HIDE DEF M
      <4>. QED
        BY <3>4, <3>5, <3>7, <4>1, Zenon
    <3>. QED
      BY <3>3, <3>4, <3>6, <3>8, Zenon
  <2>. HIDE DEF S
  <2>5. M \in S
    BY <1>2, <2>3, <2>4, NatInd
  <2>6. LastOf(c, M) = Members(c)
    <3>1. M + 1 - M = 1
      BY <1>2
    <3>. QED
      BY <3>1 DEF LastOf, Members
  <2>. QED
    BY <1>1, <1>2, <2>1, <2>5, <2>6 DEF S, N, Found
<1>. QED
  BY <1>3, <1>4
-----------------------------------------------------------------------------
\* Sprite n puts a pixel on cell x, and which.
Puts(l, n, x, solid, above) ==
  l.oam[n].x < Width + Tile /\ l.oam[n].x # 0 /\ Shows(l, l.oam[n], x, solid, above)
ObjPixel(l, n, x) == <<"obj", n, ObjRow(l, l.oam[n]), ObjCol(l.oam[n], x)>>

\* One sprite more over what is there.
LEMMA OverlayIs ==
  ASSUME NEW l \in LineStates, NEW n \in 1 .. Len(l.oam), NEW buf, NEW solid, NEW above, NEW x \in Cells
  PROVE  Overlay(l, n, buf, solid, above)[x] =
           IF Puts(l, n, x, solid, above) THEN ObjPixel(l, n, x) ELSE buf[x]
<1>1. l.oam[n].x \in Nat /\ Width + Tile \in Nat
  BY ObjectIs, ScanSizes
<1>2. l.oam[n].x >= Width + Tile <=> ~ (l.oam[n].x < Width + Tile)
  BY <1>1
<1>3. CASE l.oam[n].x >= Width + Tile \/ l.oam[n].x = 0
  <2>1. ~ Puts(l, n, x, solid, above)
    BY <1>2, <1>3, Zenon DEF Puts
  <2>2. Overlay(l, n, buf, solid, above) = buf
    BY <1>3, Zenon DEF Overlay
  <2>. QED
    BY <2>1, <2>2, Zenon
<1>4. CASE ~ (l.oam[n].x >= Width + Tile \/ l.oam[n].x = 0)
  <2>1. Puts(l, n, x, solid, above) <=> Shows(l, l.oam[n], x, solid, above)
    BY <1>2, <1>4, Zenon DEF Puts
  <2>2. Overlay(l, n, buf, solid, above) =
          [i \in Cells |-> IF Shows(l, l.oam[n], i, solid, above)
                           THEN <<"obj", n, ObjRow(l, l.oam[n]), ObjCol(l.oam[n], i)>> ELSE buf[i]]
    BY <1>4, Zenon DEF Overlay
  <2>. QED
    BY <2>1, <2>2, Zenon DEF ObjPixel
<1>. QED
  BY <1>3, <1>4

\* ... is a line again.
LEMMA OverlayType ==
  ASSUME NEW l \in LineStates, NEW n \in 1 .. Len(l.oam), NEW P, NEW buf \in [Cells -> P],
         NEW solid, NEW above, \A i \in Cells : ObjPixel(l, n, i) \in P
  PROVE  Overlay(l, n, buf, solid, above) \in [Cells -> P]
<1>1. CASE l.oam[n].x >= Width + Tile \/ l.oam[n].x = 0
  <2>2. Overlay(l, n, buf, solid, above) = buf
    BY <1>1, Zenon DEF Overlay
  <2>. QED
    BY <2>2
<1>2. CASE ~ (l.oam[n].x >= Width + Tile \/ l.oam[n].x = 0)
  <2>2. Overlay(l, n, buf, solid, above) =
          [i \in Cells |-> IF Shows(l, l.oam[n], i, solid, above) THEN ObjPixel(l, n, i) ELSE buf[i]]
    BY <1>2, Zenon DEF Overlay, ObjPixel
  <2>. QED
    BY <2>2
<1>. QED
  BY <1>1, <1>2

IsPainted(l, v, layers, solid, above, g) ==
  g = [k \in 0 .. Len(v) |-> IF k = 0 THEN layers
                             ELSE Overlay(l, v[Len(v) + 1 - k], g[k - 1], solid, above)]

\* What the cells can hold.
Colours(l, layers) ==
  {layers[i] : i \in Cells} \cup {ObjPixel(l, p[1], p[2]) : p \in (1 .. Len(l.oam)) \X Cells}

\* The loop over the sprites comes to an end.
LEMMA PaintedExists ==
  ASSUME NEW l \in LineStates, NEW v \in Seq(1 .. Len(l.oam)), NEW solid, NEW above,
         NEW layers, layers \in [Cells -> Colours(l, layers)]
  PROVE  \E g \in [0 .. Len(v) -> [Cells -> Colours(l, layers)]] :
           IsPainted(l, v, layers, solid, above, g)
<1>. DEFINE N == Len(l.oam)
            V == [Cells -> Colours(l, layers)]
            M == Len(v)
            step == [p \in (1 .. M) \X V |-> Overlay(l, v[M + 1 - p[1]], p[2], solid, above)]
<1>1. M \in Nat /\ \A k \in 1 .. M : M + 1 - k \in 1 .. M /\ v[M + 1 - k] \in 1 .. N
  OBVIOUS
<1>2. layers \in V
  OBVIOUS
<1>3. step \in [(1 .. M) \X V -> V]
  <2>1. ASSUME NEW buf \in V, NEW n \in 1 .. N PROVE Overlay(l, n, buf, solid, above) \in V
    <3>1. \A i \in Cells : ObjPixel(l, n, i) \in Colours(l, layers)
      <4>1. \A i \in Cells : <<n, i>> \in (1 .. Len(l.oam)) \X Cells
        BY <2>1
      <4>2. ASSUME NEW i \in Cells PROVE ObjPixel(l, n, i) \in Colours(l, layers)
        <5>1. <<n, i>> \in (1 .. Len(l.oam)) \X Cells /\ <<n, i>>[1] = n /\ <<n, i>>[2] = i
          BY <4>1
        <5>2. \E p \in (1 .. Len(l.oam)) \X Cells : ObjPixel(l, n, i) = ObjPixel(l, p[1], p[2])
          BY <5>1
        <5>. QED
          BY <5>2 DEF Colours
      <4>. QED
        BY <4>2
    <3>. QED
      BY <3>1, OverlayType
  <2>. HIDE DEF V, M, N
  <2>. QED
    BY <1>1, <2>1
<1>. HIDE DEF step, M
<1>4. PICK g \in [0 .. M -> V] : Computed(M, layers, step, g)
  <2>. HIDE DEF V
  <2>. QED
    BY <1>1, <1>2, <1>3, Recursion
<1>5. ASSUME NEW k \in 1 .. M PROVE g[k] = Overlay(l, v[M + 1 - k], g[k - 1], solid, above)
  <2>1. k - 1 \in 0 .. M
    BY <1>1
  <2>2. <<k, g[k - 1]>> \in (1 .. M) \X V
    BY <2>1
  <2>. HIDE DEF V
  <2>. QED
    BY <1>4, <2>2 DEF step, Computed
<1>6. g = [k \in 0 .. M |-> IF k = 0 THEN layers ELSE Overlay(l, v[M + 1 - k], g[k - 1], solid, above)]
  <2>1. \A k \in 0 .. M : k # 0 => k \in 1 .. M
    BY <1>1
  <2>2. \A k \in 0 .. M : g[k] = IF k = 0 THEN layers ELSE Overlay(l, v[M + 1 - k], g[k - 1], solid, above)
    BY <1>4, <1>5, <2>1 DEF Computed
  <2>. QED
    BY <2>2
<1>. QED
  BY <1>6 DEF IsPainted, M

\* Of the sprites from place p on, the first that has a pixel on x shows there.
FirstShows(l, v, p, x, solid, above, pixel, below) ==
  \/ pixel = below /\ \A j \in p .. Len(v) : ~ Puts(l, v[j], x, solid, above)
  \/ \E j \in p .. Len(v) :
       /\ pixel = ObjPixel(l, v[j], x) /\ Puts(l, v[j], x, solid, above)
       /\ \A i \in p .. j - 1 : ~ Puts(l, v[i], x, solid, above)

\* ... and with the one before it.
LEMMA FirstShowsNext ==
  ASSUME NEW l \in LineStates, NEW v \in Seq(1 .. Len(l.oam)), NEW x \in Cells, NEW solid, NEW above,
         NEW p \in 1 .. Len(v), NEW buf, NEW below,
         FirstShows(l, v, p + 1, x, solid, above, buf[x], below)
  PROVE  FirstShows(l, v, p, x, solid, above, Overlay(l, v[p], buf, solid, above)[x], below)
<1>. DEFINE new == Overlay(l, v[p], buf, solid, above)[x]
            On(j) == Puts(l, v[j], x, solid, above)
<1>1. Len(v) \in Nat /\ p \in Nat /\ v[p] \in 1 .. Len(l.oam)
  OBVIOUS
<1>2. new = IF On(p) THEN ObjPixel(l, v[p], x) ELSE buf[x]
  BY <1>1, OverlayIs
<1>. HIDE DEF new, On
<1>3. CASE On(p)
  <2>1. new = ObjPixel(l, v[p], x)
    BY <1>2, <1>3
  <2>2. p \in p .. Len(v) /\ p .. p - 1 = {}
    BY <1>1
  <2>. QED
    BY <1>3, <2>1, <2>2 DEF FirstShows, new, On
<1>4. CASE ~ On(p)
  <2>1. new = buf[x]
    BY <1>2, <1>4
  <2>2. \A j : j \in p .. Len(v) => j = p \/ j \in p + 1 .. Len(v)
    BY <1>1
  <2>3. CASE buf[x] = below /\ \A j \in p + 1 .. Len(v) : ~ On(j)
    <3>1. \A j \in p .. Len(v) : ~ On(j)
      BY <1>4, <2>2, <2>3, Zenon
    <3>. QED
      BY <2>1, <2>3, <3>1 DEF FirstShows, new, On
  <2>4. ASSUME NEW j \in p + 1 .. Len(v), buf[x] = ObjPixel(l, v[j], x), On(j),
               \A i \in p + 1 .. j - 1 : ~ On(i)
        PROVE  FirstShows(l, v, p, x, solid, above, new, below)
    <3>1. j \in p .. Len(v)
      BY <1>1
    <3>2. \A i : i \in p .. j - 1 => i = p \/ i \in p + 1 .. j - 1
      BY <1>1
    <3>3. \A i \in p .. j - 1 : ~ On(i)
      BY <1>4, <2>4, <3>2, Zenon
    <3>. QED
      BY <2>1, <2>4, <3>1, <3>3 DEF FirstShows, On
  <2>. QED
    BY <2>3, <2>4 DEF FirstShows, On, new
<1>. QED
  BY <1>3, <1>4 DEF new

\* The loop over the sprites leaves the first of them on every cell.
LEMMA FirstIsSeen ==
  ASSUME NEW l \in LineStates, NEW solid, NEW above, NEW x \in Cells,
         NEW layers, layers \in [Cells -> Colours(l, layers)]
  PROVE  FirstShows(l, VS(l), 1, x, solid, above, WithSprites(l, layers, solid, above)[x], layers[x])
<1>. DEFINE v == VS(l)
            M == Len(v)
            g == CHOOSE g : IsPainted(l, v, layers, solid, above, g)
            S == {k \in Nat : k <= M =>
                    FirstShows(l, v, M + 1 - k, x, solid, above, g[k][x], layers[x])}
<1>1. WithSprites(l, layers, solid, above) = g[M]
  BY DEF WithSprites, IsPainted
<1>2. v \in Seq(1 .. Len(l.oam)) /\ M \in Nat
  BY SpritesInOrder
<1>. HIDE DEF v
<1>3. IsPainted(l, v, layers, solid, above, g)
  <2>1. \E h : IsPainted(l, v, layers, solid, above, h)
    BY <1>2, PaintedExists
  <2>. QED
    BY <2>1
<1>. HIDE DEF g
<1>4. 0 \in S
  <2>1. g[0] = layers
    BY <1>2, <1>3 DEF IsPainted
  <2>2. M + 1 - 0 .. Len(v) = {}
    BY <1>2
  <2>3. FirstShows(l, v, M + 1 - 0, x, solid, above, layers[x], layers[x])
    BY <2>2 DEF FirstShows
  <2>. QED
    BY <2>1, <2>3
<1>5. ASSUME NEW k \in Nat, k \in S PROVE k + 1 \in S
  <2>1. SUFFICES ASSUME k + 1 <= M
                 PROVE  FirstShows(l, v, M + 1 - (k + 1), x, solid, above, g[k + 1][x], layers[x])
    OBVIOUS
  <2>2. /\ k + 1 \in 0 .. M /\ k + 1 # 0 /\ (k + 1) - 1 = k /\ k <= M
        /\ M + 1 - (k + 1) = M - k /\ M - k \in 1 .. Len(v) /\ (M - k) + 1 = M + 1 - k
    BY <1>2, <2>1
  <2>3. g[k + 1] = Overlay(l, v[M - k], g[k], solid, above)
    <3>1. g[k + 1] = Overlay(l, v[M + 1 - (k + 1)], g[(k + 1) - 1], solid, above)
      BY <1>3, <2>2 DEF IsPainted
    <3>. QED
      BY <2>2, <3>1
  <2>4. FirstShows(l, v, (M - k) + 1, x, solid, above, g[k][x], layers[x])
    BY <1>5, <2>2
  <2>5. FirstShows(l, v, M - k, x, solid, above, Overlay(l, v[M - k], g[k], solid, above)[x], layers[x])
    BY <1>2, <2>2, <2>4, FirstShowsNext
  <2>. QED
    BY <2>2, <2>3, <2>5
<1>. HIDE DEF S
<1>6. M \in S
  BY <1>2, <1>4, <1>5, NatInd
<1>7. M + 1 - M = 1
  BY <1>2
<1>. QED
  BY <1>1, <1>2, <1>6, <1>7 DEF S, v
-----------------------------------------------------------------------------
\* A sprite puts a pixel where the one that competes for it is meant to.
LEMMA PutsWhereItCompetes ==
  ASSUME NEW l \in LineStates, NEW x \in 0 .. Width - 1, ~ Stale(l, x), ~ Shifted(l, x),
         solid_buf \in [Cells -> BOOLEAN], NEW n \in FirstFew(l)
  PROVE  Puts(l, n, x, SolidAfter(l), AboveAfter(l)) <=> n \in Competing(l, x)
<1>. DEFINE o == l.oam[n]
            below == UnderSprites(l, x)
<1>1. n \in 1 .. Len(l.oam) /\ DOMAIN l.oam = 1 .. Len(l.oam)
  BY LineIs DEF FirstFew, Reaching
<1>2. /\ o.x \in Nat /\ o.behind \in BOOLEAN /\ o.mirrored \in BOOLEAN /\ l.cgb \in BOOLEAN
      /\ Width \in Nat /\ Tile \in Nat \ {0} /\ x \in Int /\ 0 <= x /\ x < Width
  BY <1>1, ObjectIs, LineIs, ScanSizes
<1>3. SolidAfter(l)[x] <=> IsSolid(below)
  BY SolidAsAsked
<1>4. ASSUME l.cgb, ~ o.behind, x \in o.x - Tile .. o.x - 1
      PROVE  AboveAfter(l)[AttrCell(o, x)] <=> IsAbove(below)
  <2>1. CASE o.mirrored /\ x > o.x - Tile
    <3>1. x \in o.x - Tile + 1 .. o.x - 1
      BY <1>2, <1>4, <2>1
    <3>2. x % Tile # (IF WX(l) <= x THEN WX(l) ELSE 0 - l.scx) % Tile
      BY <1>1, <1>4, <2>1, <3>1 DEF Shifted
    <3>3. AttrCell(o, x) = x - 1
      BY <2>1 DEF AttrCell
    <3>. QED
      BY <1>4, <3>2, <3>3, AboveAsAsked
  <2>2. CASE ~ (o.mirrored /\ x > o.x - Tile)
    <3>1. AttrCell(o, x) = x
      BY <2>2, Zenon DEF AttrCell
    <3>. QED
      BY <1>4, <3>1, AboveAsAsked
  <2>. QED
    BY <2>1, <2>2
<1>5. x \in o.x - Tile .. o.x - 1 => o.x < Width + Tile /\ o.x # 0
  BY <1>2
<1>6. n \in Competing(l, x) <=>
        /\ x \in o.x - Tile .. o.x - 1 /\ ObjCol(o, x) \in o.pattern
        /\ IF o.behind THEN ~ IsSolid(below) ELSE l.cgb /\ IsAbove(below) => ~ IsSolid(below)
  BY DEF Competing, FirstFew, Reaching
<1>7. Puts(l, n, x, SolidAfter(l), AboveAfter(l)) <=>
        /\ o.x < Width + Tile /\ o.x # 0
        /\ x \in o.x - Tile .. o.x - 1 /\ ObjCol(o, x) \in o.pattern
        /\ IF o.behind THEN ~ SolidAfter(l)[x]
           ELSE l.cgb => ~ SolidAfter(l)[x] \/ ~ AboveAfter(l)[AttrCell(o, x)]
  BY DEF Puts, Shows
<1>. DEFINE near == x \in o.x - Tile .. o.x - 1
            wide == o.x < Width + Tile /\ o.x # 0
<1>. HIDE DEF o, below, near, wide
<1>8. /\ n \in Competing(l, x) <=>
           /\ near /\ ObjCol(o, x) \in o.pattern
           /\ IF o.behind THEN ~ IsSolid(below) ELSE l.cgb /\ IsAbove(below) => ~ IsSolid(below)
      /\ Puts(l, n, x, SolidAfter(l), AboveAfter(l)) <=>
           /\ wide /\ near /\ ObjCol(o, x) \in o.pattern
           /\ IF o.behind THEN ~ SolidAfter(l)[x]
              ELSE l.cgb => ~ SolidAfter(l)[x] \/ ~ AboveAfter(l)[AttrCell(o, x)]
      /\ near => wide
      /\ l.cgb /\ ~ o.behind /\ near => (AboveAfter(l)[AttrCell(o, x)] <=> IsAbove(below))
  BY <1>4, <1>5, <1>6, <1>7, Zenon DEF near, wide
<1>. QED
  BY <1>3, <1>8, Zenon

\* ... and the row of it that is meant.
LEMMA PixelIsMeant ==
  ASSUME NEW l \in LineStates, NEW n \in FirstFew(l), NEW x
  PROVE  LET o == l.oam[n]
         IN  ObjPixel(l, n, x) =
               <<"obj", n, IF o.upside THEN Height(l) - 1 - Row(l, o) ELSE Row(l, o), ObjCol(o, x)>>
<1>. DEFINE o == l.oam[n]
<1>1. n \in 1 .. Len(l.oam)
  BY LineIs DEF FirstFew, Reaching
<1>2. o.y \in Nat /\ o.upside \in BOOLEAN /\ l.L \in Nat /\ l.tall \in BOOLEAN /\ Tile \in Nat
  BY <1>1, ObjectIs, LineIs, ScanSizes
<1>. HIDE DEF o
<1>3. ObjRow(l, o) = IF o.upside THEN Height(l) - 1 - Row(l, o) ELSE Row(l, o)
  BY <1>2 DEF ObjRow, Height, Row
<1>. QED
  BY <1>3 DEF ObjPixel, o

\* The first sprite in the list is the one that is meant to be seen.
LEMMA FirstIsMeant ==
  ASSUME NEW l \in LineStates, NEW x \in 0 .. Width - 1, ~ Stale(l, x), ~ Shifted(l, x),
         solid_buf \in [Cells -> BOOLEAN], NEW pixel,
         FirstShows(l, VS(l), 1, x, SolidAfter(l), AboveAfter(l), pixel, UnderSprites(l, x))
  PROVE  pixel = Seen(l, x)
<1>. DEFINE v == VS(l)
            C == Competing(l, x)
            On(n) == Puts(l, n, x, SolidAfter(l), AboveAfter(l))
<1>1. v \in Seq(1 .. Len(l.oam)) /\ Ordered(l, v) /\ Members(v) = FirstFew(l)
  BY SpritesInOrder
<1>. HIDE DEF v
<1>2. Len(v) \in Nat /\ \A i \in 1 .. Len(v) : v[i] \in FirstFew(l) /\ v[i] \in 1 .. Len(l.oam)
  BY <1>1 DEF Members
<1>3. \A n \in FirstFew(l) : On(n) <=> n \in C
  BY PutsWhereItCompetes
<1>4. C \subseteq FirstFew(l)
  BY DEF Competing, FirstFew, Reaching
<1>5. ASSUME NEW k \in C PROVE \E i \in 1 .. Len(v) : v[i] = k
  BY <1>1, <1>4 DEF Members
<1>. HIDE DEF C, On
<1>6. CASE pixel = UnderSprites(l, x) /\ \A j \in 1 .. Len(v) : ~ On(v[j])
  <2>1. C = {}
    BY <1>2, <1>3, <1>4, <1>5, <1>6
  <2>. QED
    BY <1>6, <2>1 DEF Seen, C
<1>7. ASSUME NEW j \in 1 .. Len(v), pixel = ObjPixel(l, v[j], x), On(v[j]),
             \A i \in 1 .. j - 1 : ~ On(v[i])
      PROVE  pixel = Seen(l, x)
  <2>1. v[j] \in C
    BY <1>2, <1>3, <1>7
  <2>2. ASSUME NEW k \in C PROVE k = v[j] \/ Before(l, v[j], k)
    <3>1. PICK i \in 1 .. Len(v) : v[i] = k
      BY <1>5, <2>2
    <3>2. i \notin 1 .. j - 1
      BY <1>2, <1>3, <1>7, <2>2, <3>1
    <3>3. i = j \/ j < i
      BY <1>2, <3>2
    <3>. QED
      BY <1>1, <3>1, <3>3 DEF Ordered
  <2>3. ASSUME NEW m \in C, \A k \in C : k = m \/ Before(l, m, k) PROVE m = v[j]
    <3>1. SUFFICES ASSUME m # v[j] PROVE FALSE
      OBVIOUS
    <3>2. Before(l, m, v[j]) /\ Before(l, v[j], m)
      BY <2>1, <2>2, <2>3, <3>1
    <3>3. m \in 1 .. Len(l.oam) /\ v[j] \in 1 .. Len(l.oam)
      BY <1>2, <1>5, <2>3
    <3>4. m # m
      BY <3>2, <3>3, BeforeAgain
    <3>. QED
      BY <3>4
  <2>4. (CHOOSE m \in C : \A k \in C : k = m \/ Before(l, m, k)) = v[j]
    BY <2>1, <2>2, <2>3
  <2>5. C # {}
    BY <2>1
  <2>6. Seen(l, x) = LET n == CHOOSE m \in C : \A k \in C : k = m \/ Before(l, m, k)
                         o == l.oam[n]
                     IN <<"obj", n, IF o.upside THEN Height(l) - 1 - Row(l, o) ELSE Row(l, o), ObjCol(o, x)>>
    BY <2>5, Zenon DEF Seen, C
  <2>7. Seen(l, x) = LET o == l.oam[v[j]]
                     IN <<"obj", v[j], IF o.upside THEN Height(l) - 1 - Row(l, o) ELSE Row(l, o), ObjCol(o, x)>>
    BY <2>4, <2>6, Zenon
  <2>. QED
    BY <1>2, <1>7, <2>7, PixelIsMeant
<1>. QED
  BY <1>6, <1>7 DEF FirstShows, On, v
-----------------------------------------------------------------------------
ScanInv == solid_buf \in [Cells -> BOOLEAN] /\ LineAsAsked

\* Drawing a line.
LEMMA LineDrawn ==
  ASSUME NEW l \in LineStates, solid_buf \in [Cells -> BOOLEAN], DrawLine(l)
  PROVE  ScanInv'
<1>. DEFINE layers == [i \in Cells |-> Layers(l, i)]
<1>1. SolidAfter(l) \in [Cells -> BOOLEAN]
  BY DEF SolidAfter
<1>2. solid_buf' \in [Cells -> BOOLEAN]
  BY <1>1, Zenon DEF DrawLine
<1>3. dest' = WithSprites(l, layers, SolidAfter(l), AboveAfter(l))
  BY Zenon DEF DrawLine
<1>4. layers \in [Cells -> Colours(l, layers)]
  <2>. HIDE DEF layers
  <2>1. \A i \in Cells : layers[i] \in Colours(l, layers)
    BY DEF Colours
  <2>2. layers = [i \in Cells |-> layers[i]]
    BY DEF layers
  <2>. QED
    BY <2>1, <2>2
<1>5. ASSUME NEW x \in 0 .. Width - 1, ~ Stale(l, x), ~ Shifted(l, x)
      PROVE  dest'[x] = Seen(l, x)
  <2>1. x \in Cells
    BY ScanSizes DEF Cells
  <2>2. layers[x] = UnderSprites(l, x)
    BY <2>1, LayersAsAsked
  <2>. HIDE DEF layers
  <2>3. FirstShows(l, VS(l), 1, x, SolidAfter(l), AboveAfter(l), dest'[x], UnderSprites(l, x))
    BY <1>3, <1>4, <2>1, <2>2, FirstIsSeen
  <2>. QED
    BY <1>5, <2>3, FirstIsMeant
<1>6. BgCells(l) \cup WndCells(l) \subseteq Cells
  BY BgCovers, WindowCovers
<1>7. last' = {l}
  BY Zenon DEF DrawLine
<1>8. LineAsAsked'
  BY <1>5, <1>6, <1>7 DEF LineAsAsked
<1>. QED
  BY <1>2, <1>8 DEF ScanInv

\* Every pixel of a line is the one the game's registers, maps and objects ask
\* for, for every screen and map, every line and whatever was drawn before.
THEOREM LinesAreAsAsked == ScanlineSpec => []LineAsAsked
<1>1. ScanlineInit => ScanInv
  BY DEF ScanlineInit, ScanInv, LineAsAsked
<1>2. ScanInv /\ [ScanlineNext]_scanlineVars => ScanInv'
  <2>1. ASSUME ScanInv, ScanlineNext PROVE ScanInv'
    BY <2>1, LineDrawn DEF ScanInv, ScanlineNext
  <2>2. ASSUME ScanInv, UNCHANGED scanlineVars PROVE ScanInv'
    BY <2>2 DEF ScanInv, LineAsAsked, scanlineVars
  <2>. QED
    BY <2>1, <2>2
<1>3. ScanInv => LineAsAsked
  BY DEF ScanInv
<1>. QED
  BY <1>1, <1>2, <1>3, PTL DEF ScanlineSpec
-----------------------------------------------------------------------------
\* The names of a directory that are not skipped, after one name more.
WithName(dir, skipped, names, n) ==
  IF dir[n] \in skipped THEN names ELSE Append(names, dir[n])

IsAmong(dir, skipped, n, g) ==
  g = [k \in 0 .. n |-> IF k = 0 THEN <<>> ELSE WithName(dir, skipped, g[k - 1], k)]

\* The loop over a directory ends with a list of names.
LEMMA AmongExists ==
  ASSUME NEW dir, NEW skipped, NEW n \in Nat
  PROVE  \E g : IsAmong(dir, skipped, n, g)
<1>. DEFINE S == {k \in Nat : \E g : IsAmong(dir, skipped, k, g)}
<1>1. 0 \in S
  <2>1. IsAmong(dir, skipped, 0, [k \in 0 .. 0 |-> <<>>])
    BY DEF IsAmong
  <2>. QED
    BY <2>1
<1>2. ASSUME NEW k \in Nat, k \in S PROVE k + 1 \in S
  <2>1. PICK g : IsAmong(dir, skipped, k, g)
    BY <1>2
  <2>. DEFINE h == [i \in 0 .. k + 1 |-> IF i = k + 1 THEN WithName(dir, skipped, g[k], k + 1)
                                         ELSE g[i]]
  <2>2. ASSUME NEW i \in 0 .. k + 1
        PROVE  h[i] = IF i = 0 THEN <<>> ELSE WithName(dir, skipped, h[i - 1], i)
    <3>1. CASE i = k + 1
      BY <3>1
    <3>2. CASE i # k + 1
      <4>1. i \in 0 .. k /\ (i # 0 => i - 1 \in 0 .. k /\ i - 1 # k + 1)
        BY <3>2
      <4>2. h[i] = g[i] /\ (i # 0 => h[i - 1] = g[i - 1])
        BY <4>1
      <4>3. g[i] = IF i = 0 THEN <<>> ELSE WithName(dir, skipped, g[i - 1], i)
        BY <2>1, <4>1 DEF IsAmong
      <4>. QED
        BY <4>2, <4>3
    <3>. QED
      BY <3>1, <3>2
  <2>3. IsAmong(dir, skipped, k + 1, h)
    BY <2>2 DEF IsAmong
  <2>. QED
    BY <2>3
<1>. HIDE DEF S
<1>3. n \in S
  BY <1>1, <1>2, NatInd
<1>. QED
  BY <1>3 DEF S

\* A list read from a directory holds names of the directory that are not skipped.
LEMMA WithoutType ==
  ASSUME NEW T, NEW dir \in Seq(T), NEW skipped
  PROVE  Without(dir, skipped) \in Seq(T \ skipped)
<1>. DEFINE g == CHOOSE g : IsAmong(dir, skipped, Len(dir), g)
            S == {k \in Nat : k <= Len(dir) => g[k] \in Seq(T \ skipped)}
<1>1. Len(dir) \in Nat
  OBVIOUS
<1>2. Without(dir, skipped) = g[Len(dir)]
  BY DEF Without, IsAmong, WithName
<1>3. IsAmong(dir, skipped, Len(dir), g)
  BY <1>1, AmongExists
<1>. HIDE DEF g
<1>4. 0 \in S
  BY <1>1, <1>3 DEF IsAmong
<1>5. ASSUME NEW k \in Nat, k \in S PROVE k + 1 \in S
  <2>1. SUFFICES ASSUME k + 1 <= Len(dir) PROVE g[k + 1] \in Seq(T \ skipped)
    OBVIOUS
  <2>2. k \in 0 .. Len(dir) /\ k + 1 \in 0 .. Len(dir) /\ k + 1 # 0 /\ (k + 1) - 1 = k
    BY <1>1, <2>1
  <2>3. g[k + 1] = WithName(dir, skipped, g[k], k + 1)
    BY <1>3, <2>2 DEF IsAmong
  <2>4. g[k] \in Seq(T \ skipped) /\ dir[k + 1] \in T
    BY <1>5, <2>1, <2>2
  <2>. QED
    BY <2>3, <2>4 DEF WithName
<1>. HIDE DEF S
<1>6. Len(dir) \in S
  BY <1>1, <1>4, <1>5, NatInd
<1>. QED
  BY <1>1, <1>2, <1>6 DEF S
-----------------------------------------------------------------------------
\* Nothing has gone while the player is still marking.
GoneLater == pc = "pad" => gone = {}

SavesInv == SavesTypeOK /\ CursorShown /\ MarkFollowsCursor /\ OnlySelectedGo /\ GoneLater

\* The menu before it is opened.
LEMMA SavesBegin == SavesInit => SavesInv
<1>. SUFFICES ASSUME SavesInit PROVE SavesInv
  OBVIOUS
<1>1. card \in Seq(Own \cup Foreign)
  BY VmuMenuAssumption DEF SavesInit, VmuMenuAssumption
<1>2. Rows \in Nat \ {0}
  BY VmuMenuAssumption DEF VmuMenuAssumption
<1>3. items = <<>> /\ items \in Seq(Own) /\ Len(items) = 0
  BY DEF SavesInit
<1>4. SavesTypeOK
  <2>1. next \in 0 .. Len(items)
    BY <1>3 DEF SavesInit
  <2>2. pc \in {"main", "pad", "remove"} /\ cur \in Nat /\ base \in Nat /\ selected = {}
        /\ pulling \in BOOLEAN /\ mode \in BOOLEAN /\ gone = {}
    BY DEF SavesInit
  <2>. QED
    BY <1>1, <1>3, <2>1, <2>2, Zenon DEF SavesTypeOK
<1>5. CursorShown
  BY <1>2 DEF SavesInit, CursorShown
<1>6. MarkFollowsCursor /\ OnlySelectedGo /\ GoneLater
  BY DEF SavesInit, MarkFollowsCursor, OnlySelectedGo, GoneLater
<1>. QED
  BY <1>4, <1>5, <1>6 DEF SavesInv

\* What the loop of the menu works on.
Views == [cur : Nat, base : Nat, pulling : BOOLEAN, mode : BOOLEAN, selected : SUBSET (Places \cup {0})]

\* A cursor on the list, inside the window, that carries its mark along.
Sane(v) ==
  /\ v \in Views
  /\ v.cur \in Places \cup {0} /\ v.base <= v.cur /\ v.cur < v.base + Rows
  /\ v.pulling => (v.cur \in v.selected <=> v.mode)

\* The buttons keep the view sane.
LEMMA MarkOnSane ==
  ASSUME NEW v \in Views,
         v.cur \in Places \cup {0}, v.base <= v.cur, v.cur < v.base + Rows
  PROVE  Sane(MarkOn(v))
<1>1. CASE ~ v.pulling
  BY <1>1 DEF MarkOn, Sane, Views
<1>2. CASE v.pulling /\ v.mode
  BY <1>2 DEF MarkOn, Sane, Views
<1>3. CASE v.pulling /\ ~ v.mode
  BY <1>3 DEF MarkOn, Sane, Views
<1>. QED
  BY <1>1, <1>2, <1>3

\* The number of files of the list.
LEMMA PlacesAre ==
  ASSUME SavesTypeOK
  PROVE  /\ Len(items) \in Nat /\ Rows \in Nat \ {0}
         /\ \A i : i \in Places <=> i \in Nat /\ i < Len(items)
<1>1. Len(items) \in Nat
  BY DEF SavesTypeOK
<1>. QED
  BY <1>1, VmuMenuAssumption DEF VmuMenuAssumption, Places

\* The same upwards, as far as the list and the window go.
LEMMA UpSane ==
  ASSUME SavesTypeOK, NEW v, Sane(v)
  PROVE  Sane(Up(v))
<1>. DEFINE u == IF v.cur > 0
                 THEN [v EXCEPT !.base = IF v.cur = @ THEN @ - 1 ELSE @, !.cur = @ - 1]
                 ELSE v
<1>1. v \in Views /\ v.cur \in Nat /\ v.base \in Nat /\ v.base <= v.cur /\ v.cur < v.base + Rows
  BY DEF Sane, Views
<1>2. Up(v) = MarkOn(u)
  BY DEF Up
<1>3. u \in Views /\ u.cur \in Places \cup {0} /\ u.base <= u.cur /\ u.cur < u.base + Rows
  <2>1. CASE v.cur > 0
    <3>. DEFINE c == v.cur - 1
                b == IF v.cur = v.base THEN v.base - 1 ELSE v.base
    <3>0. c \in Nat /\ b \in Nat
      BY <1>1, <2>1
    <3>1. u \in Views /\ u.cur = c /\ u.base = b
      <4>1. u = [v EXCEPT !.base = b, !.cur = c]
        BY <2>1
      <4>. HIDE DEF u, b, c
      <4>. QED
        BY <1>1, <3>0, <4>1 DEF Views
    <3>2. v.cur \in Places
      BY <2>1 DEF Sane
    <3>3. v.cur - 1 \in Places
      BY <1>1, <2>1, <3>2, PlacesAre
    <3>. HIDE DEF u
    <3>4. u.base <= u.cur /\ u.cur < u.base + Rows
      BY <1>1, <2>1, <3>1, PlacesAre
    <3>. QED
      BY <3>1, <3>3, <3>4
  <2>2. CASE ~ (v.cur > 0)
    BY <1>1, <2>2 DEF Sane
  <2>. QED
    BY <2>1, <2>2
<1>. HIDE DEF u
<1>. QED
  BY <1>2, <1>3, MarkOnSane

\* The same downwards, as far as the list and the window go.
LEMMA DownSane ==
  ASSUME SavesTypeOK, NEW v, Sane(v)
  PROVE  Sane(Down(v))
<1>. DEFINE u == IF v.cur < Len(items) - 1
                 THEN [v EXCEPT !.base = IF v.cur = @ + Rows - 1 THEN @ + 1 ELSE @, !.cur = @ + 1]
                 ELSE v
<1>1. v \in Views /\ v.cur \in Nat /\ v.base \in Nat /\ v.base <= v.cur /\ v.cur < v.base + Rows
  BY DEF Sane, Views
<1>2. Down(v) = MarkOn(u)
  BY DEF Down
<1>3. u \in Views /\ u.cur \in Places \cup {0} /\ u.base <= u.cur /\ u.cur < u.base + Rows
  <2>1. CASE v.cur < Len(items) - 1
    <3>. DEFINE c == v.cur + 1
                b == IF v.cur = v.base + Rows - 1 THEN v.base + 1 ELSE v.base
    <3>0. c \in Nat /\ b \in Nat
      BY <1>1
    <3>1. u \in Views /\ u.cur = c /\ u.base = b
      <4>1. u = [v EXCEPT !.base = b, !.cur = c]
        BY <2>1
      <4>. HIDE DEF u, b, c
      <4>. QED
        BY <1>1, <3>0, <4>1 DEF Views
    <3>2. v.cur + 1 \in Places
      BY <1>1, <2>1, PlacesAre
    <3>. HIDE DEF u
    <3>3. u.base <= u.cur /\ u.cur < u.base + Rows
      BY <1>1, <2>1, <3>1, PlacesAre, SMTT(30)
    <3>. QED
      BY <3>1, <3>2, <3>3
  <2>2. CASE ~ (v.cur < Len(items) - 1)
    BY <1>1, <2>2 DEF Sane
  <2>. QED
    BY <2>1, <2>2
<1>. HIDE DEF u
<1>. QED
  BY <1>2, <1>3, MarkOnSane

\* Marking makes the cursor carry the mark it has just made.
LEMMA MarkSane ==
  ASSUME SavesTypeOK, NEW v, Sane(v)
  PROVE  Sane(Mark(v))
<1>1. CASE v.pulling
  BY <1>1 DEF Mark
<1>2. CASE ~ v.pulling
  BY <1>2 DEF Mark, Sane, Views, Toggle
<1>. QED
  BY <1>1, <1>2

\* A whole turn of the loop, up to the question whether the player is done.
LEMMA MovedSane ==
  ASSUME SavesTypeOK, CursorShown, MarkFollowsCursor, NEW pressed
  PROVE  Sane(Moved(pressed))
<1>1. Sane(Now)
  BY DEF Sane, Now, Views, SavesTypeOK, CursorShown, MarkFollowsCursor
<1>2. Sane(IF "up" \in pressed THEN Up(Now) ELSE Now)
  BY <1>1, UpSane
<1>. QED
  BY <1>2, DownSane DEF Moved

\* What the loop leaves in the program's variables.
LEMMA BecomesSane ==
  ASSUME SavesTypeOK, NEW v, Sane(v), Becomes(v), items' = items
  PROVE  /\ cur' \in Nat /\ base' \in Nat /\ pulling' \in BOOLEAN /\ mode' \in BOOLEAN
         /\ Places' = Places /\ selected' \subseteq Places \cup {0}
         /\ CursorShown' /\ MarkFollowsCursor'
<1>1. Places' = Places
  BY DEF Places
<1>2. /\ cur' = v.cur /\ base' = v.base /\ pulling' = v.pulling /\ mode' = v.mode
      /\ selected' = v.selected
  BY DEF Becomes
<1>3. /\ v.cur \in Nat /\ v.base \in Nat /\ v.pulling \in BOOLEAN /\ v.mode \in BOOLEAN
      /\ v.selected \subseteq Places \cup {0}
  BY DEF Sane, Views
<1>4. CursorShown'
  BY <1>1, <1>2 DEF Sane, CursorShown
<1>5. MarkFollowsCursor'
  BY <1>2, Zenon DEF Sane, MarkFollowsCursor
<1>. QED
  BY <1>1, <1>2, <1>3, <1>4, <1>5

\* Opening the menu reads the list anew.
LEMMA OpenSteps ==
  ASSUME SavesInv, NEW skipped \in SUBSET Own, Open(skipped)
  PROVE  SavesInv'
<1>1. items' \in Seq(Own)
  <2>1. card \in Seq(Own \cup Foreign)
    BY DEF SavesInv, SavesTypeOK
  <2>2. OwnFiles(skipped) \in Seq((Own \cup Foreign) \ (Foreign \cup skipped))
    BY <2>1, WithoutType DEF OwnFiles
  <2>3. (Own \cup Foreign) \ (Foreign \cup skipped) \subseteq Own
    OBVIOUS
  <2>4. OwnFiles(skipped) \in Seq(Own)
    BY <2>2, <2>3
  <2>. QED
    BY <2>4 DEF Open
<1>2. Rows \in Nat \ {0} /\ Len(items') \in Nat
  BY <1>1, VmuMenuAssumption DEF VmuMenuAssumption
<1>3. SavesTypeOK'
  <2>1. next' \in 0 .. Len(items')
    BY <1>2 DEF Open
  <2>2. /\ pc' \in {"main", "pad", "remove"} /\ cur' \in Nat /\ base' \in Nat /\ selected' = {}
        /\ pulling' \in BOOLEAN /\ mode' \in BOOLEAN /\ gone' = {} /\ card' = card
    BY DEF Open
  <2>3. card \in Seq(Own \cup Foreign)
    BY DEF SavesInv, SavesTypeOK
  <2>. QED
    BY <1>1, <2>1, <2>2, <2>3, Zenon DEF SavesTypeOK
<1>4. CursorShown'
  BY <1>2 DEF Open, CursorShown
<1>5. MarkFollowsCursor' /\ OnlySelectedGo' /\ GoneLater'
  BY DEF Open, MarkFollowsCursor, OnlySelectedGo, GoneLater
<1>. QED
  BY <1>3, <1>4, <1>5 DEF SavesInv

\* The pad moves the cursor and the marks.
LEMMA PollSteps ==
  ASSUME SavesInv, NEW pressed, Poll(pressed)
  PROVE  SavesInv'
<1>1. SavesTypeOK /\ CursorShown /\ MarkFollowsCursor /\ OnlySelectedGo /\ GoneLater
  BY DEF SavesInv
<1>2. Sane(Moved(pressed))
  BY <1>1, MovedSane
<1>3. PICK v : Sane(v) /\ Becomes(v)
  <2>. DEFINE v == Moved(pressed)
  <2>1. Sane(v)
    BY <1>2
  <2>2. Sane(Mark(v))
    BY <1>1, <2>1, MarkSane
  <2>3. Sane([v EXCEPT !.pulling = FALSE])
    <3>. HIDE DEF v
    <3>. QED
      BY <2>1 DEF Sane, Views
  <2>4. Becomes(v) \/ Becomes(Mark(v)) \/ Becomes([v EXCEPT !.pulling = FALSE])
    <3>. HIDE DEF v
    <3>1. \/ Becomes(v)
          \/ Becomes(IF "l" \in pressed THEN Mark(v) ELSE [v EXCEPT !.pulling = FALSE])
      BY Zenon DEF Poll, v
    <3>. QED
      BY <3>1
  <2>. HIDE DEF v
  <2>. QED
    BY <2>1, <2>2, <2>3, <2>4
<1>4. /\ pc = "pad" /\ pc' \in {"main", "pad", "remove"}
      /\ card' = card /\ items' = items /\ next' = next /\ gone' = gone
  BY DEF Poll
<1>5. /\ cur' \in Nat /\ base' \in Nat /\ pulling' \in BOOLEAN /\ mode' \in BOOLEAN
      /\ Places' = Places /\ selected' \subseteq Places \cup {0}
      /\ CursorShown' /\ MarkFollowsCursor'
  BY <1>1, <1>3, <1>4, BecomesSane
<1>6. SavesTypeOK'
  BY <1>1, <1>4, <1>5, Zenon DEF SavesTypeOK
<1>7. OnlySelectedGo' /\ GoneLater'
  BY <1>1, <1>4 DEF OnlySelectedGo, GoneLater
<1>. QED
  BY <1>5, <1>6, <1>7 DEF SavesInv

\* A sequence from which one element was removed.
LEMMA RemoveFirstType ==
  ASSUME NEW T, NEW s \in Seq(T), NEW x
  PROVE  RemoveFirst(s, x) \in Seq(T)
<1>. DEFINE I == {i \in 1 .. Len(s) : s[i] = x}
            k == Min(I)
<1>1. I # {} => k \in 1 .. Len(s)
  <2>1. I \in SUBSET Nat
    OBVIOUS
  <2>. QED
    BY <2>1, NatMin DEF Min
<1>2. RemoveFirst(s, x) = IF I # {} THEN SubSeq(s, 1, k - 1) \o SubSeq(s, k + 1, Len(s)) ELSE s
  BY DEF RemoveFirst, RemoveAt, SelectInSeq
<1>. HIDE DEF I, k
<1>3. ASSUME I # {} PROVE SubSeq(s, 1, k - 1) \o SubSeq(s, k + 1, Len(s)) \in Seq(T)
  <2>1. SubSeq(s, 1, k - 1) \in Seq(T) /\ SubSeq(s, k + 1, Len(s)) \in Seq(T)
    BY <1>1, <1>3
  <2>. QED
    BY <2>1
<1>. QED
  BY <1>2, <1>3

\* One marked file goes, if it is on the card.
LEMMA RemoveSteps ==
  ASSUME SavesInv, NEW ok \in BOOLEAN, RemoveNext(ok)
  PROVE  SavesInv'
<1>1. SavesTypeOK /\ CursorShown /\ MarkFollowsCursor /\ OnlySelectedGo
  BY DEF SavesInv
<1>. DEFINE n == items[next + 1]
            hit == next \in selected /\ ok /\ Contains(card, n)
<1>2. /\ pc = "remove" /\ pc' = pc /\ next < Len(items) /\ next' = next + 1
      /\ card' = IF hit THEN RemoveFirst(card, n) ELSE card
      /\ gone' = IF hit THEN gone \cup {n} ELSE gone
      /\ items' = items /\ selected' = selected /\ cur' = cur /\ base' = base
      /\ pulling' = pulling /\ mode' = mode
  BY DEF RemoveNext, menu
<1>3. next \in Places /\ next \in Nat /\ next + 1 \in 0 .. Len(items) /\ n \in Own
  <2>1. items \in Seq(Own) /\ next \in 0 .. Len(items)
    BY <1>1 DEF SavesTypeOK
  <2>. QED
    BY <1>2, <2>1 DEF Places
<1>4. card' \in Seq(Own \cup Foreign)
  <2>1. card \in Seq(Own \cup Foreign)
    BY <1>1 DEF SavesTypeOK
  <2>2. RemoveFirst(card, n) \in Seq(Own \cup Foreign)
    BY <2>1, RemoveFirstType
  <2>. QED
    BY <1>2, <2>1, <2>2
<1>5. hit => n \in {items[i + 1] : i \in selected \cap Places}
  BY <1>3
<1>6. Places' = Places
  BY <1>2 DEF Places
<1>. HIDE DEF hit, n
<1>7. gone' \subseteq Own \cup Foreign
  BY <1>1, <1>2, <1>3 DEF SavesTypeOK
<1>8. OnlySelectedGo'
  BY <1>1, <1>2, <1>5, <1>6 DEF OnlySelectedGo
<1>9. SavesTypeOK'
  BY <1>1, <1>2, <1>3, <1>4, <1>6, <1>7 DEF SavesTypeOK
<1>10. CursorShown' /\ MarkFollowsCursor' /\ GoneLater'
  BY <1>1, <1>2, <1>6 DEF CursorShown, MarkFollowsCursor, GoneLater
<1>. QED
  BY <1>8, <1>9, <1>10 DEF SavesInv

\* Every step keeps what the menu of saves promises.
LEMMA SavesSteps == SavesInv /\ [SavesNext]_savesVars => SavesInv'
<1>. SUFFICES ASSUME SavesInv, [SavesNext]_savesVars PROVE SavesInv'
  OBVIOUS
<1>1. ASSUME NEW skipped \in SUBSET Own, Open(skipped) PROVE SavesInv'
  BY <1>1, OpenSteps
<1>2. ASSUME NEW pressed \in Presses, Poll(pressed) PROVE SavesInv'
  BY <1>2, PollSteps
<1>3. ASSUME NEW ok \in BOOLEAN, RemoveNext(ok) PROVE SavesInv'
  BY <1>3, RemoveSteps
<1>. USE DEF SavesInv, SavesTypeOK, CursorShown, MarkFollowsCursor, OnlySelectedGo, GoneLater, Places,
             menu
<1>4. CASE RemoveEnds
  BY <1>4 DEF RemoveEnds
<1>5. ASSUME NEW c \in Cards, ExchangeCard(c) PROVE SavesInv'
  <2>1. c \in Seq(Own \cup Foreign)
    BY VmuMenuAssumption DEF VmuMenuAssumption
  <2>. QED
    BY <1>5, <2>1 DEF ExchangeCard
<1>6. CASE UNCHANGED savesVars
  BY <1>6 DEF savesVars
<1>. QED
  BY <1>1, <1>2, <1>3, <1>4, <1>5, <1>6 DEF SavesNext

\* In the menu of saves (do_vmu_menu) the cursor stays on the list and in the
\* window and carries its mark along, and on whatever card is in the slot by then
\* only files that were listed and are marked are removed.
THEOREM OnlyMarkedGo == SavesSpec => []SeenMarkedGone
<1>1. SavesInv => SeenMarkedGone
  BY DEF SavesInv, SeenMarkedGone
<1>. QED
  BY SavesBegin, SavesSteps, <1>1, PTL DEF SavesSpec
-----------------------------------------------------------------------------
\* What is assumed of the directories and of the window.
LEMMA MenuSizes ==
  /\ FileRows \in Nat \ {0} /\ MaxFiles \in Nat \ {0} /\ MaxStatus \in Nat \ {0}
  /\ Root \in Dirs /\ \A q \in Dirs : Parent[q] \in Dirs
  /\ IsFiniteSet(Dirs) /\ FileCounts \subseteq Nat
BY FileMenuAssumption DEF FileMenuAssumption

\* A directory that is in the table is found in it.
LEMMA KnownIs ==
  ASSUME dirstat \in Seq(Status), NEW p
  PROVE  /\ KnownAt(p) \in 0 .. Len(dirstat)
         /\ KnownAt(p) # 0 => dirstat[KnownAt(p)].path = p
         /\ KnownAt(p) = 0 => \A i \in 1 .. Len(dirstat) : dirstat[i].path # p
<1>. DEFINE I == {i \in 1 .. Len(dirstat) : dirstat[i].path = p}
<1>1. KnownAt(p) = IF I # {} THEN Min(I) ELSE 0
  BY DEF KnownAt, SelectInSeq
<1>2. Len(dirstat) \in Nat /\ I \in SUBSET Nat
  OBVIOUS
<1>3. CASE I # {}
  <2>1. \E x \in I : \A y \in I : x <= y
    BY <1>2, <1>3, NatMin
  <2>2. Min(I) \in I
    BY <2>1 DEF Min
  <2>. QED
    BY <1>1, <1>2, <1>3, <2>2
<1>4. CASE I = {}
  BY <1>1, <1>2, <1>4
<1>. QED
  BY <1>3, <1>4

\* The subdirectories of a directory, in an order of the disc's.
LEMMA SubdirsType == ASSUME NEW p PROVE Subdirs(p) \in Seq(Dirs)
<1>. DEFINE S == {q \in Dirs \ {Root} : Parent[q] = p}
<1>1. IsFiniteSet(S)
  BY MenuSizes, FS_Subset
<1>2. Cardinality(S) \in Nat /\ ExistsBijection(1 .. Cardinality(S), S)
  BY <1>1, FS_CardinalityType
<1>3. \E f \in [1 .. Cardinality(S) -> S] : IsInjective(f)
  BY <1>2 DEF ExistsBijection, Bijection, Injection, Surjection, IsInjective
<1>4. Subdirs(p) \in [1 .. Cardinality(S) -> S]
  BY <1>3 DEF Subdirs, SetToSeq
<1>. HIDE DEF S
<1>5. Subdirs(p) \in Seq(S)
  BY <1>2, <1>4
<1>6. S \subseteq Dirs
  BY DEF S
<1>. QED
  BY <1>5, <1>6

\* The entries of a directory that are read.
LEMMA EntriesType ==
  ASSUME NEW p, NEW n \in Nat
  PROVE  Entries(p, n) \in Seq(Dirs \cup {File}) /\ Len(Entries(p, n)) \in 0 .. MaxFiles
<1>. DEFINE files == [i \in 1 .. n |-> File]
            all == Subdirs(p) \o files
            m == IF Len(all) < MaxFiles THEN Len(all) ELSE MaxFiles
<1>1. Subdirs(p) \in Seq(Dirs \cup {File})
  BY SubdirsType
<1>2. files \in Seq(Dirs \cup {File})
  OBVIOUS
<1>3. Entries(p, n) = SubSeq(all, 1, m)
  BY DEF Entries
<1>. HIDE DEF files
<1>4. all \in Seq(Dirs \cup {File}) /\ Len(all) \in Nat
  BY <1>1, <1>2
<1>. HIDE DEF all
<1>5. m \in 0 .. Len(all) /\ m \in 0 .. MaxFiles
  BY <1>4, MenuSizes
<1>. HIDE DEF m
<1>. QED
  BY <1>3, <1>4, <1>5

\* A remembered cursor is on an entry, or the directory is empty.
Listed(s) ==
  /\ Place(s) < s.num \/ (s.num = 0 /\ Place(s) = 0)
  /\ s.base > 0 => s.base + FileRows <= s.num

\* Another cursor of the same list.
Same(u, s) == u \in Status /\ Listed(u) /\ u.path = s.path /\ u.num = s.num

\* A status is changed field by field.
LEMMA StatusFields ==
  ASSUME NEW s \in Status
  PROVE  /\ s.base \in Nat /\ s.row \in 0 .. FileRows - 1 /\ s.num \in 0 .. MaxFiles
         /\ \A r \in 0 .. FileRows - 1 : LET u == [s EXCEPT !.row = r]
              IN u \in Status /\ u.row = r /\ u.base = s.base /\ u.num = s.num /\ u.path = s.path
         /\ \A b \in Nat : LET u == [s EXCEPT !.base = b]
              IN u \in Status /\ u.base = b /\ u.row = s.row /\ u.num = s.num /\ u.path = s.path
BY DEF Status

\* A line up, or the window with it.
LEMMA FileUpSame ==
  ASSUME NEW s \in Status, Listed(s)
  PROVE  Same(FileUp(s), s)
<1>1. s.base \in Nat /\ s.row \in 0 .. FileRows - 1 /\ s.num \in Nat /\ FileRows \in Nat \ {0}
  BY StatusFields, MenuSizes
<1>2. CASE s.row > 0
  <2>. DEFINE r == s.row - 1
  <2>1. r \in 0 .. FileRows - 1 /\ r <= s.row
    BY <1>1, <1>2
  <2>2. FileUp(s) = [s EXCEPT !.row = r]
    BY <1>2 DEF FileUp
  <2>. HIDE DEF r
  <2>. QED
    BY <1>1, <2>1, <2>2, StatusFields DEF Same, Listed, Place
<1>3. CASE ~ (s.row > 0)
  <2>. DEFINE b == AtLeastZero(s.base - 1)
  <2>1. b \in Nat /\ b <= s.base
    BY <1>1 DEF AtLeastZero
  <2>2. FileUp(s) = [s EXCEPT !.base = b]
    BY <1>3 DEF FileUp
  <2>. HIDE DEF b
  <2>. QED
    BY <1>1, <2>1, <2>2, StatusFields DEF Same, Listed, Place
<1>. QED
  BY <1>2, <1>3

\* A page up, as far as the first line.
LEMMA PageUpSame ==
  ASSUME NEW s \in Status, Listed(s)
  PROVE  Same(PageUp(s), s)
<1>1. s.base \in Nat /\ s.row \in 0 .. FileRows - 1 /\ s.num \in Nat /\ FileRows \in Nat \ {0}
  BY StatusFields, MenuSizes
<1>. DEFINE b == AtLeastZero(s.base - FileRows)
<1>2. b \in Nat /\ b <= s.base
  BY <1>1 DEF AtLeastZero
<1>3. PageUp(s) = [s EXCEPT !.base = b]
  BY DEF PageUp
<1>. HIDE DEF b
<1>. QED
  BY <1>1, <1>2, <1>3, StatusFields DEF Same, Listed, Place

\* A line down, or the window with it.
LEMMA FileDownSame ==
  ASSUME NEW s \in Status, Listed(s)
  PROVE  Same(FileDown(s), s)
<1>1. s.base \in Nat /\ s.row \in 0 .. FileRows - 1 /\ s.num \in Nat /\ FileRows \in Nat \ {0}
  BY StatusFields, MenuSizes
<1>2. CASE s.row < FileRows - 1 /\ Place(s) < s.num - 1
  <2>. DEFINE r == s.row + 1
  <2>1. r \in 0 .. FileRows - 1 /\ s.base + r < s.num
    BY <1>1, <1>2 DEF Place
  <2>2. ~ (s.row = FileRows - 1)
    BY <1>1, <1>2
  <2>3. FileDown(s) = [s EXCEPT !.row = r]
    BY <1>2, <2>2 DEF FileDown
  <2>. HIDE DEF r
  <2>. QED
    BY <1>1, <2>1, <2>3, StatusFields DEF Same, Listed, Place
<1>3. CASE s.row = FileRows - 1 /\ s.base + FileRows < s.num
  <2>. DEFINE b == s.base + 1
  <2>1. b \in Nat /\ b + FileRows <= s.num /\ b + s.row < s.num
    BY <1>1, <1>3
  <2>2. FileDown(s) = [s EXCEPT !.base = b]
    BY <1>1, <1>3 DEF FileDown
  <2>. HIDE DEF b
  <2>. QED
    BY <1>1, <2>1, <2>2, StatusFields DEF Same, Listed, Place
<1>4. CASE /\ ~ (s.row < FileRows - 1 /\ Place(s) < s.num - 1)
           /\ ~ (s.row = FileRows - 1 /\ s.base + FileRows < s.num)
  BY <1>4 DEF FileDown, Same
<1>. QED
  BY <1>2, <1>3, <1>4

\* A page down, as far as the last line.
LEMMA PageDownSame ==
  ASSUME NEW s \in Status, Listed(s)
  PROVE  Same(PageDown(s), s)
<1>1. s.base \in Nat /\ s.row \in 0 .. FileRows - 1 /\ s.num \in Nat /\ FileRows \in Nat \ {0}
  BY StatusFields, MenuSizes
<1>2. CASE s.base + FileRows < s.num
  <2>. DEFINE b == IF s.base + 2 * FileRows <= s.num THEN s.base + FileRows ELSE s.num - FileRows
  <2>1. b \in Nat /\ b + FileRows <= s.num /\ b + s.row < s.num
    BY <1>1, <1>2
  <2>2. PageDown(s) = [s EXCEPT !.base = b]
    BY <1>2 DEF PageDown
  <2>. HIDE DEF b
  <2>. QED
    BY <1>1, <2>1, <2>2, StatusFields DEF Same, Listed, Place
<1>3. CASE ~ (s.base + FileRows < s.num)
  BY <1>3 DEF PageDown, Same
<1>. QED
  BY <1>2, <1>3

\* Whatever is pressed, the cursor stays one of the list it was of.
LEMMA CursorSame ==
  ASSUME Current \in Status, Listed(Current), NEW pressed
  PROVE  Same(CursorMoved(pressed), Current)
<1>. DEFINE u1 == IF "up" \in pressed THEN FileUp(Current) ELSE Current
            u2 == IF "down" \in pressed THEN FileDown(u1) ELSE u1
            u3 == IF "left" \in pressed THEN PageUp(u2) ELSE u2
            u4 == IF "right" \in pressed THEN PageDown(u3) ELSE u3
<1>0. CursorMoved(pressed) = u4
  BY DEF CursorMoved, If
<1>1. Same(u1, Current)
  BY FileUpSame DEF Same
<1>. HIDE DEF u1
<1>2. Same(u2, Current)
  BY <1>1, FileDownSame DEF Same
<1>. HIDE DEF u2
<1>3. Same(u3, Current)
  BY <1>2, PageUpSame DEF Same
<1>. HIDE DEF u3
<1>4. Same(u4, Current)
  BY <1>3, PageDownSame DEF Same
<1>. QED
  BY <1>0, <1>4
-----------------------------------------------------------------------------
\* The table of cursors, directory by directory.
Table(ds) ==
  /\ ds \in Seq(Status) /\ Len(ds) <= MaxStatus
  /\ \A i \in 1 .. Len(ds) : Listed(ds[i])
  /\ \A i, j \in 1 .. Len(ds) : ds[i].path = ds[j].path => i = j

\* That is what is promised of it.
LEMMA TableIs ==
  /\ FilesTypeOK /\ CursorListed /\ StatusOfList => Table(dirstat)
  /\ Table(dirstat) => CursorListed /\ IsInjective([i \in DOMAIN dirstat |-> dirstat[i].path])
<1>1. ASSUME dirstat \in Seq(Status)
      PROVE  /\ DOMAIN dirstat = 1 .. Len(dirstat)
             /\ CursorListed <=> \A i \in 1 .. Len(dirstat) : Listed(dirstat[i])
             /\ IsInjective([i \in DOMAIN dirstat |-> dirstat[i].path])
                  <=> \A i, j \in 1 .. Len(dirstat) : dirstat[i].path = dirstat[j].path => i = j
  <2>1. DOMAIN dirstat = 1 .. Len(dirstat)
    BY <1>1
  <2>2. ToSet(dirstat) = {dirstat[i] : i \in 1 .. Len(dirstat)}
    BY <2>1 DEF ToSet
  <2>3. CursorListed <=> \A i \in 1 .. Len(dirstat) : Listed(dirstat[i])
    BY <2>2 DEF CursorListed, Listed
  <2>. QED
    BY <2>1, <2>3 DEF IsInjective
<1>. QED
  BY <1>1 DEF FilesTypeOK, StatusOfList, Table

\* A place of the table is changed, or one is added; the directory is in no other.
LEMMA TableStays ==
  ASSUME Table(dirstat), NEW i \in 1 .. Len(dirstat) + 1, i <= MaxStatus,
         NEW s \in Status, Listed(s),
         \A j \in 1 .. Len(dirstat) : j # i => dirstat[j].path # s.path
  PROVE  /\ Table(PutAt(i, s)) /\ i \in 1 .. Len(PutAt(i, s)) /\ PutAt(i, s)[i] = s
<1>. DEFINE ds == PutAt(i, s)
<1>1. dirstat \in Seq(Status) /\ Len(dirstat) \in Nat /\ Len(dirstat) <= MaxStatus
  BY DEF Table
<1>2. CASE i <= Len(dirstat)
  <2>1. ds = [dirstat EXCEPT ![i] = s]
    BY <1>2 DEF PutAt
  <2>. HIDE DEF ds
  <2>2. ds \in Seq(Status) /\ Len(ds) = Len(dirstat)
        /\ \A j \in 1 .. Len(ds) : ds[j] = IF j = i THEN s ELSE dirstat[j]
    BY <1>1, <1>2, <2>1
  <2>3. \A j \in 1 .. Len(ds) : Listed(ds[j])
    BY <2>2 DEF Table
  <2>4. \A j, k \in 1 .. Len(ds) : ds[j].path = ds[k].path => j = k
    BY <2>2 DEF Table
  <2>5. i \in 1 .. Len(ds) /\ ds[i] = s
    BY <1>2, <2>2
  <2>. QED
    BY <1>1, <2>2, <2>3, <2>4, <2>5 DEF Table, ds
<1>3. CASE ~ (i <= Len(dirstat))
  <2>1. ds = Append(dirstat, s) /\ i = Len(dirstat) + 1
    BY <1>1, <1>3 DEF PutAt
  <2>. HIDE DEF ds
  <2>2. ds \in Seq(Status) /\ Len(ds) = i
        /\ \A j \in 1 .. Len(ds) : ds[j] = IF j = i THEN s ELSE dirstat[j]
    BY <1>1, <2>1
  <2>2a. \A j \in 1 .. Len(ds) : j # i => j \in 1 .. Len(dirstat)
    BY <1>1, <2>1, <2>2
  <2>3. \A j \in 1 .. Len(ds) : Listed(ds[j])
    BY <2>2, <2>2a DEF Table
  <2>4. \A j, k \in 1 .. Len(ds) : ds[j].path = ds[k].path => j = k
    BY <2>2, <2>2a DEF Table
  <2>5. i \in 1 .. Len(ds) /\ ds[i] = s
    BY <1>1, <2>1, <2>2
  <2>. QED
    BY <1>1, <2>2, <2>3, <2>4, <2>5 DEF Table, ds
<1>. QED
  BY <1>2, <1>3

\* While the list is shown its cursor is in the table.
Showing == stage = "pad" => KnownAt(path) # 0 /\ Current.num = Len(list)

FilesInv == FilesTypeOK /\ Table(dirstat) /\ Showing

\* A directory that stands in the table is known there.
LEMMA KnownWhere ==
  ASSUME Table(dirstat), NEW i \in 1 .. Len(dirstat), NEW p, dirstat[i].path = p
  PROVE  KnownAt(p) = i
<1>1. dirstat \in Seq(Status) /\ Len(dirstat) \in Nat
  BY DEF Table
<1>2. KnownAt(p) # 0 /\ KnownAt(p) \in 1 .. Len(dirstat) /\ dirstat[KnownAt(p)].path = p
  BY <1>1, KnownIs
<1>. QED
  BY <1>2 DEF Table

\* The menu before the first directory is read.
LEMMA FilesBegin == FilesInit => FilesInv
<1>. SUFFICES ASSUME FilesInit PROVE FilesInv
  OBVIOUS
<1>1. dirstat = <<>> /\ dirstat \in Seq(Status) /\ Len(dirstat) = 0
  BY DEF FilesInit
<1>2. list \in Seq(Dirs \cup {File}) /\ Len(list) = 0
  BY DEF FilesInit
<1>3. FilesTypeOK
  BY <1>1, <1>2, MenuSizes DEF FilesInit, FilesTypeOK
<1>4. Table(dirstat)
  BY <1>1, MenuSizes DEF Table
<1>. QED
  BY <1>3, <1>4 DEF FilesInv, Showing, FilesInit

\* A directory is read, and its cursor kept or begun anew.
LEMMA ReadSteps ==
  ASSUME FilesInv, NEW n \in FileCounts, Read(n)
  PROVE  FilesInv'
<1>. DEFINE len == Len(list')
            s == Remembered(path, len)
            i == Slot(path)
<1>1. /\ Table(dirstat) /\ dirstat \in Seq(Status) /\ Len(dirstat) \in Nat
      /\ Len(dirstat) <= MaxStatus /\ path \in Dirs /\ result \in Dirs
  BY DEF FilesInv, FilesTypeOK
<1>2. /\ stage' = "pad" /\ list' = Entries(path, n) /\ dirstat' = PutAt(i, s)
      /\ path' = path /\ result' = result
  BY DEF Read
<1>3. list' \in Seq(Dirs \cup {File}) /\ len \in 0 .. MaxFiles
  BY <1>2, EntriesType, MenuSizes
<1>. HIDE DEF len
<1>4. s \in Status /\ Listed(s) /\ s.path = path /\ s.num = len
  <2>1. CASE KnownAt(path) # 0 /\ dirstat[KnownAt(path)].num = len
    <3>1. KnownAt(path) \in 1 .. Len(dirstat) /\ dirstat[KnownAt(path)].path = path
      BY <1>1, <2>1, KnownIs
    <3>. QED
      BY <1>1, <2>1, <3>1 DEF Remembered, Table
  <2>2. CASE ~ (KnownAt(path) # 0 /\ dirstat[KnownAt(path)].num = len)
    <3>1. s = NewStatus(path, len)
      BY <2>2 DEF Remembered
    <3>2. 0 \in 0 .. FileRows - 1
      BY MenuSizes
    <3>. QED
      BY <1>1, <1>3, <3>1, <3>2 DEF NewStatus, Status, Listed, Place
  <2>. QED
    BY <2>1, <2>2
<1>5. /\ i \in 1 .. Len(dirstat) + 1 /\ i <= MaxStatus
      /\ \A j \in 1 .. Len(dirstat) : j # i => dirstat[j].path # path
  <2>1. KnownAt(path) \in 0 .. Len(dirstat)
    BY <1>1, KnownIs
  <2>2. CASE KnownAt(path) # 0
    <3>1. i = KnownAt(path)
      BY <2>2 DEF Slot
    <3>2. \A j \in 1 .. Len(dirstat) : dirstat[j].path = path => j = i
      BY <1>1, <3>1, KnownWhere
    <3>3. i \in 1 .. Len(dirstat) + 1 /\ i <= MaxStatus
      <4>. HIDE DEF i
      <4>1. i \in 0 .. Len(dirstat) /\ i # 0
        BY <2>1, <2>2, <3>1
      <4>. QED
        BY <1>1, <4>1, MenuSizes
    <3>. QED
      BY <3>2, <3>3, Zenon
  <2>3. CASE KnownAt(path) = 0
    <3>1. i = 1 \/ (Len(dirstat) # MaxStatus /\ i = Len(dirstat) + 1)
      BY <2>3 DEF Slot
    <3>2. \A j \in 1 .. Len(dirstat) : dirstat[j].path # path
      BY <1>1, <2>3, KnownIs
    <3>. QED
      BY <1>1, <3>1, <3>2, MenuSizes
  <2>. QED
    BY <2>2, <2>3
<1>. HIDE DEF s, i
<1>6. Table(dirstat') /\ i \in 1 .. Len(dirstat') /\ dirstat'[i] = s
  BY <1>1, <1>2, <1>4, <1>5, TableStays
<1>7. FilesTypeOK'
  BY <1>1, <1>2, <1>3, <1>6 DEF FilesTypeOK, Table, len
<1>8. KnownAt(path)' = i
  <2>. DEFINE I == {j \in 1 .. Len(dirstat') : dirstat'[j].path = path'}
  <2>1. KnownAt(path)' = IF I # {} THEN Min(I) ELSE 0
    BY DEF KnownAt, SelectInSeq
  <2>2. I = {i}
    BY <1>2, <1>4, <1>6 DEF Table
  <2>. HIDE DEF I
  <2>3. Min({i}) = i
    BY <1>5 DEF Min
  <2>. QED
    BY <2>1, <2>2, <2>3
<1>9. Showing'
  BY <1>2, <1>4, <1>5, <1>6, <1>8 DEF Showing, Current, len
<1>. QED
  BY <1>6, <1>7, <1>9 DEF FilesInv

\* The pad moves the cursor of the list that is shown, and may lead elsewhere.
LEMMA PollFilesSteps ==
  ASSUME FilesInv, NEW pressed, PollFiles(pressed)
  PROVE  FilesInv'
<1>. DEFINE s == CursorMoved(pressed)
            entry == EntryAt(s)
            answer == Answer(pressed, entry)
            i == KnownAt(path)
<1>1. /\ FilesTypeOK /\ Table(dirstat) /\ dirstat \in Seq(Status) /\ Len(dirstat) \in Nat
      /\ Len(dirstat) <= MaxStatus /\ path \in Dirs /\ result \in Dirs
  BY DEF FilesInv, FilesTypeOK
<1>2. /\ stage = "pad" /\ list' = list
      /\ dirstat' = [dirstat EXCEPT ![i] = s]
      /\ stage' = CASE answer \in {"choose", "leave"} -> "main"
                    [] answer \in {"enter", "back"} -> "read"
                    [] OTHER -> "pad"
      /\ path' = CASE answer = "enter" -> entry
                   [] answer = "back" -> Parent[path]
                   [] OTHER -> path
      /\ result' = IF answer = "choose" THEN path ELSE result
  BY DEF PollFiles
<1>3. i \in 1 .. Len(dirstat) /\ dirstat[i].path = path /\ Current = dirstat[i]
      /\ Current.num = Len(list)
  <2>1. KnownAt(path) # 0 /\ Current.num = Len(list)
    BY <1>2 DEF FilesInv, Showing
  <2>. QED
    BY <1>1, <2>1, KnownIs DEF Current
<1>4. Current \in Status /\ Listed(Current)
  <2>. HIDE DEF i
  <2>. QED
    BY <1>1, <1>3 DEF Table
<1>5. Same(s, Current)
  BY <1>4, CursorSame
<1>6. s \in Status /\ Listed(s) /\ s.path = path /\ s.num = Len(list)
  <2>. HIDE DEF i, s
  <2>. QED
    BY <1>3, <1>5 DEF Same
<1>7. answer = "enter" => entry \in Dirs
  <2>. HIDE DEF s
  <2>. QED
    BY DEF Answer
<1>. HIDE DEF s, entry, answer, i
<1>8. \A j \in 1 .. Len(dirstat) : j # i => dirstat[j].path # s.path
  BY <1>1, <1>3, <1>6 DEF Table
<1>9. Table(dirstat') /\ Len(dirstat') = Len(dirstat) /\ dirstat'[i] = s
  <2>1. PutAt(i, s) = dirstat'
    BY <1>1, <1>2, <1>3 DEF PutAt
  <2>2. i \in 1 .. Len(dirstat) + 1 /\ i <= MaxStatus
    BY <1>1, <1>3, MenuSizes
  <2>3. Table(PutAt(i, s)) /\ PutAt(i, s)[i] = s
    BY <1>1, <1>6, <1>8, <2>2, TableStays
  <2>4. Len(dirstat') = Len(dirstat)
    BY <1>1, <1>2, <1>3
  <2>. QED
    BY <2>1, <2>3, <2>4
<1>10. FilesTypeOK'
  <2>1. stage' \in {"main", "read", "pad"}
    BY <1>2
  <2>2. path' \in Dirs
    BY <1>1, <1>2, <1>7, MenuSizes
  <2>3. result' \in Dirs
    BY <1>1, <1>2
  <2>. QED
    BY <1>1, <1>2, <1>9, <2>1, <2>2, <2>3 DEF FilesTypeOK, Table
<1>11. Showing'
  <2>1. SUFFICES ASSUME stage' = "pad" PROVE KnownAt(path)' # 0 /\ (Current.num = Len(list))'
    BY DEF Showing
  <2>2. ~ (answer \in {"choose", "leave"}) /\ ~ (answer \in {"enter", "back"})
    BY <1>2, <2>1
  <2>3. path' = path
    BY <1>2, <2>2
  <2>4. KnownAt(path)' = i
    <3>. DEFINE I == {j \in 1 .. Len(dirstat') : dirstat'[j].path = path'}
    <3>1. KnownAt(path)' = IF I # {} THEN Min(I) ELSE 0
      BY DEF KnownAt, SelectInSeq
    <3>2. I = {i}
      BY <1>3, <1>6, <1>9, <2>3 DEF Table
    <3>. HIDE DEF I
    <3>3. Min({i}) = i
      BY <1>3 DEF Min
    <3>. QED
      BY <3>1, <3>2, <3>3
  <2>. QED
    BY <1>2, <1>3, <1>6, <1>9, <2>4 DEF Current
<1>. QED
  BY <1>9, <1>10, <1>11 DEF FilesInv

\* Every step keeps the table of cursors in order.
LEMMA FilesSteps == FilesInv /\ [FilesNext]_filesVars => FilesInv'
<1>. SUFFICES ASSUME FilesInv, [FilesNext]_filesVars PROVE FilesInv'
  OBVIOUS
<1>1. CASE OpenFiles
  BY <1>1 DEF OpenFiles, FilesInv, FilesTypeOK, Showing
<1>2. CASE ReadFails
  BY <1>2, MenuSizes DEF ReadFails, Unreadable, FilesInv, FilesTypeOK, Showing
<1>3. ASSUME NEW n \in FileCounts, Read(n) PROVE FilesInv'
  BY <1>3, ReadSteps
<1>4. ASSUME NEW pressed \in FilePresses, PollFiles(pressed) PROVE FilesInv'
  BY <1>4, PollFilesSteps
<1>5. CASE UNCHANGED filesVars
  <2>1. KnownAt(path)' = KnownAt(path)
    BY <1>5 DEF filesVars, KnownAt, SelectInSeq
  <2>2. Showing'
    BY <1>5, <2>1 DEF filesVars, FilesInv, Showing, Current
  <2>. QED
    BY <1>5, <2>2 DEF filesVars, FilesInv, FilesTypeOK
<1>. QED
  BY <1>1, <1>2, <1>3, <1>4, <1>5 DEF FilesNext

\* In the menu of games (fm_do_body) every cursor that is used fits the list it is
\* used with, whatever the discs hold and whatever is pressed, and the table of
\* cursors (fm_find_dir_status) stays within its size with one place a directory.
THEOREM CursorsAlwaysFit == FilesSpec => []CursorsFit
<1>1. FilesInv => CursorsFit
  BY TableIs DEF FilesInv, Showing, CursorsFit, StatusOfList
<1>. QED
  BY FilesBegin, FilesSteps, <1>1, PTL DEF FilesSpec
-----------------------------------------------------------------------------
(* The way of a picture to the screen.                                     *)

(* The texture of the last submission, how many flips of the call have     *)
(* been submitted, how many flips ago a texture was written, and the       *)
(* pictures in the frame that is viewed next.                              *)
Latest == IF texture_index = 0 THEN Textures - 1 ELSE texture_index - 1
Submitted == call - togo
Ago(i) == IF i < texture_index THEN texture_index - 1 - i ELSE texture_index - 1 - i + Textures
Pending == IF rendering = {} THEN frame[1 - view_page] ELSE UNION {r.sees : r \in rendering}

(* The picture q was flipped with p or is the one after it.                *)
After(q, p) == q \in {p, Next1(p)}

(* The pictures of a frame: one, and perhaps the next; and the frames in   *)
(* their order.                                                            *)
Led(F, q) == q \in F /\ F \subseteq {q, Next1(q)}
Behind(V, F) == \E q \in F : Led(F, q) /\ \A p \in V : After(q, p)

(* The textures hold what the call's flips have copied.                    *)
Copied ==
  /\ \A i \in 0 .. Textures - 1 : Ago(i) < Submitted => texture[i] = screen
  /\ flipping \in {"wait", "submit"} => texture[texture_index] = screen

(* One scene at a time: a scene is submitted when the one before it is     *)
(* rendered, and the chip starts no other until that has ended.            *)
OneScene ==
  /\ registered = {} \/ registered = {Latest}
  /\ opb_completed => registered # {}
  /\ flip_completed => registered = {}
  /\ losses = 0 => /\ render_completed <=> rendering = {}
                   /\ flipping = "submit" => registered = {}
                   /\ rendering # {} => \E r \in rendering :
                          rendering = {r} /\ (registered = {} => r.texture = Latest)
  /\ losses > 0 => rendering = {} /\ ~ render_completed

(* While the chip goes on, each stage holds the picture of the stage       *)
(* before it or the picture after that.  Between a flip and the rendering  *)
(* of its scene no other picture is drawn.                                 *)
Stages ==
  /\ Behind(Viewed, Pending)
  /\ registered = {} => \A p \in Pending : After(screen, p)
  /\ registered # {} => /\ \A p \in Pending : After(texture[Latest], p)
                        /\ After(screen, texture[Latest])
                        /\ rendering # {} => screen = texture[Latest]

(* Two submissions of a picture push it into the pending frame and three   *)
(* to the screen.                                                          *)
Pushed ==
  /\ Submitted >= 2 \/ (Submitted >= 1 /\ registered = {}) => Pending = {screen}
  /\ Submitted >= 3 \/ (Submitted >= 2 /\ registered = {}) => Viewed = {screen}

FlipInv ==
  /\ FlipTypeOK /\ Copied /\ OneScene
  /\ losses = 0 => Stages /\ Pushed

Enough == Textures >= 2 /\ Fills >= 3 /\ Fills >= Textures

(* The arithmetic of the numbers of pictures, textures and flips.          *)
LEMMA PictureNumbers ==
  ASSUME NEW p \in 0 .. Pictures - 1
  PROVE  Next1(p) \in 0 .. Pictures - 1
BY FlipAssumption DEF Next1

(* The texture after the last one is the first.                            *)
LEMMA TextureNumbers ==
  ASSUME Textures >= 2, FlipTypeOK
  PROVE  /\ texture_index \in 0 .. Textures - 1 /\ Textures \in Nat
         /\ Latest \in 0 .. Textures - 1 /\ Latest # texture_index
         /\ NextTexture = IF texture_index = Textures - 1 THEN 0 ELSE texture_index + 1
<1>1. texture_index \in 0 .. Textures - 1 /\ Textures \in Nat
  BY FlipAssumption DEF FlipTypeOK
<1>2. texture_index + 1 < Textures => (texture_index + 1) % Textures = texture_index + 1
  BY <1>1
<1>3. texture_index + 1 = Textures => (texture_index + 1) % Textures = 0
  BY <1>1
<1>. QED
  BY <1>1, <1>2, <1>3 DEF Latest, NextTexture

LEMMA OneRegistered ==
  ASSUME NEW k \in 0 .. Textures - 1, NEW R, R = {} \/ R = {k}
  PROVE  R \subseteq 0 .. Textures - 1 /\ Cardinality(R) <= 1
<1>1. CASE R = {}
  <2>1. Cardinality(R) = 0
    BY <1>1, FS_EmptySet
  <2>. QED
    BY <1>1, <2>1
<1>2. CASE R = {k}
  <2>1. Cardinality(R) = 1
    BY <1>2, FS_Singleton
  <2>2. R \subseteq 0 .. Textures - 1
    BY <1>2
  <2>. QED
    BY <2>1, <2>2
<1>. QED
  BY <1>1, <1>2

LEMMA FlipsSubmitted ==
  ASSUME Enough, FlipTypeOK
  PROVE  /\ call \in Nat /\ togo \in Nat /\ togo <= call /\ Submitted \in Nat
         /\ flipping = "no" => Submitted = call /\ call >= 1
         /\ flipping # "no" => togo >= 1
<1>1. call \in Nat /\ call >= 1
  BY FlipAssumption DEF FlipTypeOK, Enough
<1>2. togo \in 0 .. call /\ (flipping = "no" <=> togo = 0)
  BY DEF FlipTypeOK
<1>. QED
  BY <1>1, <1>2 DEF Submitted

LEMMA FlipInitially == Enough /\ FlipInit => FlipInv
<1>. SUFFICES ASSUME Enough, FlipInit PROVE FlipInv
  OBVIOUS
<1>1. {Textures, Fills, Pictures} \subseteq Nat \ {0} /\ MaxLosses \in Nat
  BY FlipAssumption
<1>2. FlipTypeOK
  <2>1. Cardinality(registered) <= 1 /\ registered \subseteq 0 .. Textures - 1
    BY FS_EmptySet DEF FlipInit
  <2>2. texture \in [0 .. Textures - 1 -> 0 .. Pictures] /\ texture_index \in 0 .. Textures - 1
    BY <1>1 DEF FlipInit, Noise, Enough
  <2>3. frame \in [0 .. 1 -> SUBSET (0 .. Pictures)]
    BY <1>1 DEF FlipInit
  <2>4. call \in {1, Textures, Fills} /\ togo \in 0 .. call /\ togo # 0
    BY <1>1 DEF FlipInit
  <2>5. screen \in 0 .. Pictures - 1 /\ losses \in 0 .. MaxLosses /\ view_page \in 0 .. 1
    BY <1>1 DEF FlipInit
  <2>6. /\ rendering \subseteq [texture : 0 .. Textures - 1, sees : SUBSET (0 .. Pictures)]
        /\ {opb_completed, render_completed, flip_completed} \subseteq BOOLEAN
        /\ flipping \in {"no", "copy", "wait", "submit"} /\ flipping # "no"
    BY DEF FlipInit
  <2>. QED
    BY <2>1, <2>2, <2>3, <2>4, <2>5, <2>6 DEF FlipTypeOK
<1>3. Submitted = 0 /\ Pending = {0} /\ Viewed = {0}
  BY <1>1 DEF FlipInit, Submitted, Pending, Viewed
<1>4. Copied
  BY <1>1, <1>3 DEF FlipInit, Copied, Ago
<1>5. OneScene
  BY DEF FlipInit, OneScene
<1>6. Stages
  BY <1>3 DEF FlipInit, Stages, Behind, Led, After
<1>7. Pushed
  BY <1>3 DEF Pushed
<1>. QED
  BY <1>2, <1>4, <1>5, <1>6, <1>7 DEF FlipInv

(* What the program's steps leave alone on the screen.                     *)
LEMMA SameFrames ==
  ASSUME UNCHANGED <<rendering, view_page, frame>>
  PROVE  Viewed' = Viewed /\ Pending' = Pending
BY DEF Viewed, Pending

LEMMA NewPictureStep ==
  ASSUME Enough, FlipInv, NEW n \in {1, Textures, Fills}, NewPicture(n)
  PROVE  FlipInv' /\ Viewed' = Viewed
<1>1. Viewed' = Viewed /\ Pending' = Pending
  BY SameFrames DEF NewPicture, chipVars
<1>2. n \in Nat /\ n >= 1
  BY FlipAssumption DEF Enough
<1>3. Submitted' = 0 /\ Submitted >= 1 /\ Latest' = Latest
  BY <1>2, FlipsSubmitted DEF FlipInv, NewPicture, Submitted, Latest
<1>4. FlipTypeOK'
  <2>1. screen' \in 0 .. Pictures - 1
    BY PictureNumbers DEF FlipInv, FlipTypeOK, NewPicture
  <2>2. call' = n /\ togo' = n /\ togo' \in 0 .. call' /\ togo' # 0 /\ flipping' = "copy"
    BY <1>2 DEF NewPicture
  <2>. QED
    BY <2>1, <2>2 DEF FlipInv, FlipTypeOK, NewPicture, chipVars
<1>5. Copied'
  <2>1. \A i \in 0 .. Textures - 1 : Ago(i)' = Ago(i) /\ Ago(i) >= 0
    BY FlipAssumption DEF Ago, NewPicture, FlipInv, FlipTypeOK
  <2>2. \A i \in 0 .. Textures - 1 : Ago(i) \in Int
    BY FlipAssumption DEF Ago, FlipInv, FlipTypeOK
  <2>3. \A i \in 0 .. Textures - 1 : ~ (Ago(i)' < Submitted')
    BY <1>3, <2>1, <2>2
  <2>. QED
    BY <2>3 DEF NewPicture, Copied, chipVars
<1>6. OneScene'
  BY <1>3 DEF FlipInv, OneScene, NewPicture, chipVars
<1>7. ASSUME losses = 0 PROVE Stages'
  <2>1. Stages /\ Pushed
    BY <1>7 DEF FlipInv
  <2>2. rendering' = {} /\ registered' = registered /\ screen' = Next1(screen) /\ texture' = texture
    BY DEF NewPicture, chipVars
  <2>3. CASE registered = {}
    <3>1. Pending = {screen}
      BY <1>3, <2>1, <2>3 DEF Pushed
    <3>. QED
      BY <1>1, <2>1, <2>2, <2>3, <3>1 DEF Stages, Behind, Led, After
  <2>4. CASE registered # {}
    <3>1. screen = texture[Latest]
      <4>1. Ago(Latest) = 0 /\ Latest \in 0 .. Textures - 1
        BY TextureNumbers DEF FlipInv, Enough, Ago, Latest
      <4>2. Submitted \in Nat
        BY FlipsSubmitted DEF FlipInv
      <4>3. Ago(Latest) < Submitted
        BY <1>3, <4>1, <4>2
      <4>. QED
        BY <4>1, <4>3 DEF FlipInv, Copied
    <3>2. texture[Latest]' = texture[Latest]
      BY <1>3, <2>2
    <3>. QED
      BY <1>1, <2>1, <2>2, <2>4, <3>1, <3>2 DEF Stages, Behind, Led, After
  <2>. QED
    BY <2>3, <2>4
<1>8. Pushed'
  BY <1>3 DEF Pushed
<1>9. losses' = losses
  BY DEF NewPicture, chipVars
<1>. QED
  BY <1>1, <1>4, <1>5, <1>6, <1>7, <1>8, <1>9 DEF FlipInv

LEMMA SamePictureStep ==
  ASSUME Enough, FlipInv, NEW n \in {1, Textures, Fills}, SamePicture(n)
  PROVE  FlipInv' /\ Viewed' = Viewed
<1>1. Viewed' = Viewed /\ Pending' = Pending
  BY SameFrames DEF SamePicture, chipVars
<1>2. n \in Nat /\ n >= 1
  BY FlipAssumption DEF Enough
<1>3. Submitted' = 0 /\ Latest' = Latest
  BY <1>2 DEF SamePicture, Submitted, Latest
<1>4. FlipTypeOK'
  <2>1. call' = n /\ togo' = n /\ togo' \in 0 .. call' /\ togo' # 0 /\ flipping' = "copy"
    BY <1>2 DEF SamePicture
  <2>. QED
    BY <2>1 DEF FlipInv, FlipTypeOK, SamePicture, chipVars
<1>5. Copied'
  <2>1. \A i \in 0 .. Textures - 1 : Ago(i)' = Ago(i) /\ Ago(i) >= 0
    BY FlipAssumption DEF Ago, SamePicture, FlipInv, FlipTypeOK
  <2>2. \A i \in 0 .. Textures - 1 : Ago(i) \in Int
    BY FlipAssumption DEF Ago, FlipInv, FlipTypeOK
  <2>3. \A i \in 0 .. Textures - 1 : ~ (Ago(i)' < Submitted')
    BY <1>3, <2>1, <2>2
  <2>. QED
    BY <2>3 DEF SamePicture, Copied, chipVars
<1>6. OneScene'
  BY <1>3 DEF FlipInv, OneScene, SamePicture, chipVars
<1>7. Stages => Stages'
  BY <1>1, <1>3 DEF Stages, Behind, Led, After, SamePicture, chipVars
<1>8. Pushed'
  BY <1>3 DEF Pushed
<1>9. losses' = losses
  BY DEF SamePicture, chipVars
<1>. QED
  BY <1>1, <1>4, <1>5, <1>6, <1>7, <1>8, <1>9 DEF FlipInv

LEMMA CopyStep ==
  ASSUME Enough, FlipInv, Copy
  PROVE  FlipInv' /\ Viewed' = Viewed
<1>0. /\ texture_index \in 0 .. Textures - 1 /\ screen \in 0 .. Pictures - 1
      /\ rendering \subseteq [texture : 0 .. Textures - 1, sees : SUBSET (0 .. Pictures)]
      /\ texture' = [texture EXCEPT ![texture_index] = screen]
      /\ texture \in [0 .. Textures - 1 -> 0 .. Pictures]
  BY DEF FlipInv, FlipTypeOK, Copy
<1>1. Viewed' = Viewed /\ Submitted' = Submitted /\ Latest' = Latest /\ Latest # texture_index
      /\ Latest \in 0 .. Textures - 1 /\ screen' = screen /\ registered' = registered
      /\ losses' = losses /\ texture_index' = texture_index
  BY TextureNumbers DEF FlipInv, Enough, Copy, Viewed, Submitted, Latest
<1>2. \A i \in 0 .. Textures - 1 : texture'[i] = IF i = texture_index THEN screen ELSE texture[i]
  BY <1>0
<1>3. rendering = {} => rendering' = {}
  BY DEF Copy
<1>4. ASSUME NEW r, rendering = {r}
      PROVE  /\ r \in [texture : 0 .. Textures - 1, sees : SUBSET (0 .. Pictures)]
             /\ \/ r.texture # texture_index /\ rendering' = {r}
                \/ /\ r.texture = texture_index
                   /\ rendering' = {[r EXCEPT !.sees = @ \cup {screen}]}
  BY <1>0, <1>4 DEF Copy
<1>5. FlipTypeOK'
  <2>1. texture' \in [0 .. Textures - 1 -> 0 .. Pictures]
    BY <1>0, FlipAssumption
  <2>2. rendering' \subseteq [texture : 0 .. Textures - 1, sees : SUBSET (0 .. Pictures)]
    <3>1. CASE rendering = {}
      BY <1>3, <3>1
    <3>2. CASE rendering # {}
      <4>1. losses = 0
        BY <3>2, FlipAssumption DEF FlipInv, OneScene, FlipTypeOK
      <4>2. PICK r \in rendering : rendering = {r}
        BY <3>2, <4>1 DEF FlipInv, OneScene
      <4>3. screen \in 0 .. Pictures
        BY <1>0, FlipAssumption
      <4>4. [r EXCEPT !.sees = @ \cup {screen}]
              \in [texture : 0 .. Textures - 1, sees : SUBSET (0 .. Pictures)]
        BY <1>4, <4>2, <4>3
      <4>. QED
        BY <1>4, <4>2, <4>4
    <3>. QED
      BY <3>1, <3>2
  <2>. QED
    BY <2>1, <2>2 DEF FlipInv, FlipTypeOK, Copy
<1>6. Copied'
  <2>1. \A i \in 0 .. Textures - 1 : Ago(i)' = Ago(i)
    BY <1>1 DEF Ago
  <2>. QED
    BY <1>0, <1>1, <1>2, <2>1 DEF FlipInv, Copied
<1>7. OneScene'
  <2>1. CASE rendering = {}
    BY <1>1, <1>3, <2>1 DEF FlipInv, OneScene, Copy
  <2>2. CASE rendering # {}
    <3>1. losses = 0
      BY <2>2, FlipAssumption DEF FlipInv, OneScene, FlipTypeOK
    <3>2. PICK r \in rendering : rendering = {r} /\ (registered = {} => r.texture = Latest)
      BY <2>2, <3>1 DEF FlipInv, OneScene
    <3>3. \E q : rendering' = {q} /\ q.texture = r.texture
      <4>1. [r EXCEPT !.sees = @ \cup {screen}].texture = r.texture
        BY <1>4, <3>2
      <4>. QED
        BY <1>4, <3>2, <4>1
    <3>. QED
      BY <1>1, <2>2, <3>1, <3>2, <3>3 DEF FlipInv, OneScene, Copy
  <2>. QED
    BY <2>1, <2>2
<1>8. ASSUME losses = 0 PROVE Stages' /\ Pushed'
  <2>0. Stages /\ Pushed
    BY <1>8 DEF FlipInv
  <2>1. texture'[Latest] = texture[Latest]
    BY <1>1, <1>2
  <2>2. CASE Pending' = Pending /\ (rendering' # {} => rendering # {})
    BY <1>1, <2>0, <2>1, <2>2 DEF Stages, Pushed, Behind, Led
  <2>3. CASE ~ (Pending' = Pending /\ (rendering' # {} => rendering # {}))
    <3>1. rendering # {}
      BY <1>3, <2>3 DEF Pending, Copy
    <3>2. PICK r \in rendering : rendering = {r} /\ (registered = {} => r.texture = Latest)
      BY <1>8, <3>1 DEF FlipInv, OneScene
    <3>3. r.texture = texture_index /\ rendering' = {[r EXCEPT !.sees = @ \cup {screen}]}
      <4>1. rendering' = {r} => Pending' = Pending
        BY <3>2 DEF Pending
      <4>. QED
        BY <1>4, <2>3, <3>1, <3>2, <4>1
    <3>4. [r EXCEPT !.sees = @ \cup {screen}].sees = r.sees \cup {screen}
      BY <1>4, <3>2
    <3>5. Pending = r.sees /\ Pending' = r.sees \cup {screen}
      BY <3>2, <3>3, <3>4 DEF Pending
    <3>6. registered # {} /\ screen = texture[Latest]
      BY <1>1, <2>0, <3>1, <3>2, <3>3 DEF Stages
    <3>7. \A p \in Pending : After(screen, p)
      BY <2>0, <3>6 DEF Stages
    <3>8. PICK q \in Pending : Led(Pending, q) /\ \A p \in Viewed : After(q, p)
      BY <2>0 DEF Stages, Behind
    <3>9. Led(Pending', q)
      BY <3>5, <3>7, <3>8 DEF Led, After
    <3>10. Behind(Viewed', Pending')
      BY <1>1, <3>5, <3>8, <3>9 DEF Behind
    <3>11. Stages'
      BY <1>1, <2>0, <2>1, <3>5, <3>6, <3>7, <3>10 DEF Stages, After
    <3>12. Pushed'
      BY <1>1, <2>0, <3>5, <3>6 DEF Pushed
    <3>. QED
      BY <3>11, <3>12
  <2>. QED
    BY <2>2, <2>3
<1>. QED
  BY <1>1, <1>5, <1>6, <1>7, <1>8 DEF FlipInv

LEMMA WaitReadyStep ==
  ASSUME Enough, FlipInv, WaitReady
  PROVE  FlipInv' /\ Viewed' = Viewed
<1>1. /\ Viewed' = Viewed /\ Pending' = Pending /\ Submitted' = Submitted /\ Latest' = Latest
      /\ \A i : Ago(i)' = Ago(i)
  BY SameFrames DEF WaitReady, Submitted, Latest, Ago
<1>2. FlipTypeOK'
  BY DEF FlipInv, FlipTypeOK, WaitReady
<1>3. Copied'
  BY <1>1 DEF FlipInv, Copied, WaitReady
<1>4. OneScene'
  BY <1>1 DEF FlipInv, OneScene, WaitReady
<1>5. /\ Stages => Stages'
      /\ Pushed => Pushed'
      /\ losses' = losses
  BY <1>1 DEF Stages, Pushed, Behind, Led, WaitReady
<1>. QED
  BY <1>1, <1>2, <1>3, <1>4, <1>5 DEF FlipInv

LEMMA SubmitStep ==
  ASSUME Enough, FlipInv, Submit
  PROVE  FlipInv' /\ Viewed' = Viewed
<1>0. /\ texture_index \in 0 .. Textures - 1 /\ Textures \in Nat
      /\ Latest # texture_index
      /\ texture_index' = IF texture_index = Textures - 1 THEN 0 ELSE texture_index + 1
  BY TextureNumbers DEF FlipInv, Enough, Submit
<1>1. /\ Viewed' = Viewed /\ Pending' = Pending /\ screen' = screen /\ texture' = texture
      /\ losses' = losses /\ registered' = {texture_index} /\ Submitted' = Submitted + 1
      /\ call \in Nat /\ togo \in 1 .. call /\ Submitted \in Nat
  BY SameFrames, FlipsSubmitted DEF FlipInv, Submit, Submitted
<1>2. texture_index' \in 0 .. Textures - 1 /\ Latest' = texture_index
  BY <1>0 DEF Enough, Latest
<1>3. FlipTypeOK'
  <2>1. registered' \subseteq 0 .. Textures - 1 /\ Cardinality(registered') <= 1
    BY <1>0, <1>1, OneRegistered
  <2>2. call' = call /\ togo' \in 0 .. call' /\ (flipping' = "no" <=> togo' = 0)
        /\ flipping' \in {"no", "copy", "wait", "submit"}
    BY <1>1 DEF Submit
  <2>. QED
    BY <1>2, <2>1, <2>2 DEF FlipInv, FlipTypeOK, Submit
<1>4. texture[texture_index] = screen
  BY DEF FlipInv, Copied, Submit
<1>5. Copied'
  <2>1. \A i \in 0 .. Textures - 1 : i # texture_index => Ago(i) \in Int /\ Ago(i)' = Ago(i) + 1
    BY <1>0 DEF Ago
  <2>2. ASSUME NEW i \in 0 .. Textures - 1, Ago(i)' < Submitted', i # texture_index
        PROVE  texture[i] = screen
    <3>1. Ago(i) < Submitted
      BY <1>1, <2>1, <2>2
    <3>. QED
      BY <3>1 DEF FlipInv, Copied
  <2>3. flipping' \notin {"wait", "submit"}
    BY DEF Submit
  <2>. QED
    BY <1>1, <1>4, <2>2, <2>3 DEF Copied
<1>6. OneScene'
  BY <1>1, <1>2 DEF FlipInv, OneScene, Submit
<1>7. ASSUME losses = 0 PROVE Stages' /\ Pushed'
  <2>1. Stages /\ Pushed /\ registered = {}
    BY <1>7 DEF FlipInv, OneScene, Submit
  <2>2. texture[Latest]' = screen
    BY <1>1, <1>2, <1>4
  <2>3. Stages'
    BY <1>1, <2>1, <2>2 DEF Stages, Behind, Led, After
  <2>4. Pushed'
    BY <1>1, <2>1 DEF Pushed
  <2>. QED
    BY <2>3, <2>4
<1>. QED
  BY <1>1, <1>3, <1>5, <1>6, <1>7 DEF FlipInv

LEMMA OpaqueDoneStep ==
  ASSUME Enough, FlipInv, OpaqueDone
  PROVE  FlipInv' /\ Viewed' = Viewed
<1>1. /\ Viewed' = Viewed /\ Pending' = Pending /\ Submitted' = Submitted /\ Latest' = Latest
      /\ \A i : Ago(i)' = Ago(i)
  BY SameFrames DEF OpaqueDone, Submitted, Latest, Ago, programVars
<1>2. FlipTypeOK'
  BY DEF FlipInv, FlipTypeOK, OpaqueDone, programVars
<1>3. Copied'
  BY <1>1 DEF FlipInv, Copied, OpaqueDone, programVars
<1>4. OneScene'
  BY <1>1 DEF FlipInv, OneScene, OpaqueDone, programVars
<1>5. /\ Stages => Stages'
      /\ Pushed => Pushed'
      /\ losses' = losses
  BY <1>1 DEF Stages, Pushed, Behind, Led, OpaqueDone, programVars
<1>. QED
  BY <1>1, <1>2, <1>3, <1>4, <1>5 DEF FlipInv

(* What was being rendered is in the frame that is viewed next.            *)
LEMMA RenderStep ==
  ASSUME Enough, FlipInv, RenderDone \/ RenderDoneLost
  PROVE  FlipInv' /\ Viewed' = Viewed
<1>0. RenderEnds /\ rendering # {} /\ rendering' = {}
  BY DEF RenderDone, RenderDoneLost, RenderEnds
<1>1. losses = 0 /\ ~ render_completed
  BY <1>0, FlipAssumption DEF FlipInv, OneScene, FlipTypeOK
<1>2. PICK r \in rendering : rendering = {r}
  BY <1>0, <1>1 DEF FlipInv, OneScene
<1>3. /\ view_page \in 0 .. 1 /\ frame \in [0 .. 1 -> SUBSET (0 .. Pictures)]
      /\ r.sees \in SUBSET (0 .. Pictures)
      /\ frame' = [frame EXCEPT ![1 - view_page] = r.sees] /\ view_page' = view_page
  BY <1>0, <1>2 DEF FlipInv, FlipTypeOK, RenderEnds
<1>4. /\ frame' \in [0 .. 1 -> SUBSET (0 .. Pictures)]
      /\ frame'[1 - view_page] = r.sees /\ frame'[view_page] = frame[view_page]
  BY <1>3
<1>5. /\ Viewed' = Viewed /\ Pending' = Pending /\ Submitted' = Submitted /\ Latest' = Latest
      /\ \A i : Ago(i)' = Ago(i)
  <2>1. Viewed' = Viewed
    BY <1>3, <1>4 DEF Viewed
  <2>2. Pending = r.sees /\ Pending' = r.sees
    BY <1>0, <1>2, <1>3, <1>4 DEF Pending
  <2>3. UNCHANGED programVars
    BY <1>0 DEF RenderEnds
  <2>. QED
    BY <2>1, <2>2, <2>3 DEF Submitted, Latest, Ago, programVars
<1>6. \/ losses' = 0 /\ render_completed'
      \/ losses' = 1 /\ losses' <= MaxLosses /\ ~ render_completed'
  <2>1. losses < MaxLosses => 1 <= MaxLosses
    BY <1>1, FlipAssumption
  <2>2. CASE RenderDone
    BY <1>1, <2>2 DEF RenderDone
  <2>3. CASE RenderDoneLost
    BY <1>1, <2>1, <2>3 DEF RenderDoneLost
  <2>. QED
    BY <2>2, <2>3
<1>7. FlipTypeOK'
  <2>1. losses' \in 0 .. MaxLosses
    BY <1>6, FlipAssumption
  <2>2. render_completed' \in BOOLEAN
    BY DEF FlipInv, FlipTypeOK, RenderDone, RenderDoneLost
  <2>. QED
    BY <1>0, <1>3, <1>4, <2>1, <2>2 DEF FlipInv, FlipTypeOK, RenderEnds, programVars
<1>8. Copied'
  BY <1>5 DEF FlipInv, Copied, RenderEnds, programVars, RenderDone, RenderDoneLost
<1>9. OneScene'
  BY <1>0, <1>1, <1>5, <1>6 DEF FlipInv, OneScene, RenderEnds, programVars
<1>10. Stages' /\ Pushed'
  BY <1>0, <1>1, <1>5 DEF FlipInv, Stages, Pushed, Behind, Led, RenderEnds, programVars
<1>. QED
  BY <1>5, <1>7, <1>8, <1>9, <1>10 DEF FlipInv

LEMMA ScanIntStep ==
  ASSUME Enough, FlipInv, ScanInt
  PROVE  FlipInv' /\ InOrder
<1>0. losses = 0 /\ rendering = {} /\ registered = {Latest}
  <2>1. opb_completed /\ render_completed /\ OneScene
    BY DEF FlipInv, ScanInt
  <2>2. ~ (losses > 0) /\ registered = {Latest}
    BY <2>1, Zenon DEF OneScene
  <2>3. losses = 0
    BY <2>2, FlipAssumption DEF FlipInv, FlipTypeOK
  <2>4. rendering = {}
    BY <2>1, <2>3, Zenon DEF OneScene
  <2>. QED
    BY <2>2, <2>3, <2>4
<1>1. /\ texture \in [0 .. Textures - 1 -> 0 .. Pictures] /\ Latest \in 0 .. Textures - 1
      /\ view_page \in 0 .. 1 /\ view_page' = 1 - view_page /\ frame' = frame
      /\ texture' = texture /\ screen' = screen /\ losses' = 0 /\ registered' = {}
  BY <1>0, TextureNumbers DEF FlipInv, FlipTypeOK, Enough, ScanInt, programVars
<1>2. rendering' = {[texture |-> Latest, sees |-> {texture[Latest]}]}
  BY <1>0 DEF ScanInt
<1>3. Viewed' = Pending /\ Pending' = {texture[Latest]}
  BY <1>0, <1>1, <1>2 DEF Viewed, Pending
<1>4. Submitted' = Submitted /\ Latest' = Latest /\ \A i : Ago(i)' = Ago(i)
  BY DEF Submitted, Latest, Ago, ScanInt, programVars
<1>5. FlipTypeOK'
  <2>1. rendering' \subseteq [texture : 0 .. Textures - 1, sees : SUBSET (0 .. Pictures)]
    BY <1>1, <1>2
  <2>2. registered' \subseteq 0 .. Textures - 1 /\ Cardinality(registered') <= 1
    BY <1>1, OneRegistered
  <2>3. view_page' \in 0 .. 1
    BY <1>1
  <2>. QED
    BY <1>1, <2>1, <2>2, <2>3 DEF FlipInv, FlipTypeOK, ScanInt, programVars
<1>6. Copied'
  BY <1>4 DEF FlipInv, Copied, ScanInt, programVars
<1>7. OneScene'
  <2>1. ~ opb_completed' /\ ~ render_completed' /\ rendering' # {}
    BY <1>2 DEF ScanInt
  <2>2. \E r \in rendering' : rendering' = {r} /\ r.texture = Latest'
    BY <1>2, <1>4
  <2>. QED
    BY <1>1, <2>1, <2>2 DEF OneScene
<1>8. Stages /\ Pushed
  BY <1>0 DEF FlipInv
<1>9. Stages'
  BY <1>0, <1>1, <1>3, <1>8 DEF Stages, Behind, Led, After
<1>10. Pushed'
  <2>1. Submitted \in Nat
    BY FlipsSubmitted DEF FlipInv
  <2>2. Submitted >= 1 => texture[Latest] = screen
    <3>1. Ago(Latest) = 0
      BY TextureNumbers DEF FlipInv, Enough, Ago, Latest
    <3>2. Submitted >= 1 => Ago(Latest) < Submitted
      BY <2>1, <3>1
    <3>. QED
      BY <1>1, <3>2 DEF FlipInv, Copied
  <2>. QED
    BY <1>0, <1>1, <1>3, <1>4, <1>8, <2>1, <2>2 DEF Pushed
<1>11. InOrder
  BY <1>3, <1>8 DEF Stages, Behind, Led, After, InOrder
<1>. QED
  BY <1>1, <1>5, <1>6, <1>7, <1>9, <1>10, <1>11 DEF FlipInv

LEMMA FlipStep == Enough /\ FlipInv /\ [FlipNext]_flipVars => FlipInv' /\ InOrder
<1>. SUFFICES ASSUME Enough, FlipInv, [FlipNext]_flipVars PROVE FlipInv' /\ InOrder
  OBVIOUS
<1>1. CASE \E n \in {1, Textures, Fills} : NewPicture(n)
  BY <1>1, NewPictureStep DEF InOrder
<1>2. CASE \E n \in {1, Fills} : SamePicture(n)
  BY <1>2, SamePictureStep DEF InOrder
<1>3. CASE Copy
  BY <1>3, CopyStep DEF InOrder
<1>4. CASE WaitReady
  BY <1>4, WaitReadyStep DEF InOrder
<1>5. CASE Submit
  BY <1>5, SubmitStep DEF InOrder
<1>6. CASE OpaqueDone
  BY <1>6, OpaqueDoneStep DEF InOrder
<1>7. CASE RenderDone \/ RenderDoneLost
  BY <1>7, RenderStep DEF InOrder
<1>8. CASE ScanInt
  BY <1>8, ScanIntStep
<1>9. CASE UNCHANGED flipVars
  BY <1>9, ZenonT(30)
     DEF FlipInv, FlipTypeOK, Copied, OneScene, Stages, Pushed, Behind, Led, InOrder, Viewed,
     Pending, Submitted, Latest, Ago, flipVars, programVars, chipVars
<1>. QED
  BY <1>1, <1>2, <1>3, <1>4, <1>5, <1>6, <1>7, <1>8, <1>9 DEF FlipNext, FlipProgram, FlipChip

(* A call of three flips ends with its picture on the screen, and one of   *)
(* as many as there are textures with it in all of them.                   *)
LEMMA CallEnds == Enough /\ FlipInv => FlipTypeOK /\ CallDelivers
<1>. SUFFICES ASSUME Enough, FlipInv, flipping = "no"
              PROVE  /\ call = Fills /\ losses = 0 => Viewed = {screen}
                     /\ call \in {Textures, Fills} =>
                          \A i \in DOMAIN texture : texture[i] = screen
  BY DEF CallDelivers, FlipInv
<1>1. Submitted = call /\ call \in Nat
  BY FlipsSubmitted DEF FlipInv
<1>2. {Textures, Fills} \subseteq Nat /\ Fills >= 3 /\ Fills >= Textures
  BY FlipAssumption DEF Enough
<1>3. call = Fills /\ losses = 0 => Viewed = {screen}
  BY <1>1, <1>2 DEF FlipInv, Pushed
<1>4. ASSUME call \in {Textures, Fills}, NEW i \in 0 .. Textures - 1
      PROVE  texture[i] = screen
  <2>1. texture_index \in 0 .. Textures - 1
    BY DEF FlipInv, FlipTypeOK
  <2>2. Ago(i) < Submitted
    BY <1>1, <1>2, <1>4, <2>1 DEF Ago
  <2>. QED
    BY <2>2 DEF FlipInv, Copied
<1>5. DOMAIN texture = 0 .. Textures - 1
  BY DEF FlipInv, FlipTypeOK
<1>. QED
  BY <1>3, <1>4, <1>5

(* The player sees every picture, in order, and the last one whole when    *)
(* dc_vid_flip_fill_renderer returns (dc_vid_flip, pvr_int_handler), for   *)
(* every number of textures but one; three flips would be enough.          *)
THEOREM PicturesAreDelivered ==
  ASSUME Textures >= 2, Fills >= 3, Fills >= Textures
  PROVE  FlipSpec => PicturesDelivered
<1>. Enough
  BY DEF Enough
<1>1. FlipInit => FlipInv
  BY FlipInitially
<1>2. FlipInv /\ [FlipNext]_flipVars =>
        FlipInv' /\ [(FlipTypeOK /\ CallDelivers)' /\ InOrder]_flipVars
  <2>. SUFFICES ASSUME FlipInv, [FlipNext]_flipVars
                PROVE  FlipInv' /\ (FlipTypeOK /\ CallDelivers)' /\ InOrder
    OBVIOUS
  <2>1. FlipInv' /\ InOrder
    BY FlipStep
  <2>2. (FlipTypeOK /\ CallDelivers)'
    BY <2>1, CallEnds, PTL
  <2>. QED
    BY <2>1, <2>2
<1>. QED
  BY <1>1, <1>2, PTL DEF FlipSpec, PicturesDelivered
=============================================================================
