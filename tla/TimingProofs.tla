---------------------------- MODULE TimingProofs ----------------------------
(***************************************************************************)
(* Proofs about the three places that count time, for every value of the   *)
(* constants: the divider and the programmable timer (cpu.c) count a chunk *)
(* of cycles as they count the cycles one by one; the cartridge's clock    *)
(* (rtc.c) keeps its time and gives back what a game has set; and the      *)
(* pacing by the console's timer (sys/dc/dc.c) loses no tick but the ones  *)
(* known to be lost, and keeps the console in step.                        *)
(***************************************************************************)
EXTENDS Timers, Rtc, Pacing, TLAPS, WellFoundedInduction

\* Every non-empty set of naturals has a least element.
LEMMA NatMin ==
  ASSUME NEW S \in SUBSET Nat, S # {}
  PROVE  \E least \in S : \A n \in S : least <= n
<1>. DEFINE R == OpToRel(<, Nat)
<1>1. IsWellFoundedOn(R, Nat)
  BY NatLessThanWellFounded
<1>2. \A x, y \in Nat : x < y => <<x, y>> \in R
  BY DEF OpToRel
<1>. HIDE DEF R
<1>3. PICK least \in S : \A n \in S : ~ (<<n, least>> \in R)
  BY <1>1, WFMin
<1>4. ASSUME NEW n \in S PROVE least <= n
  <2>1. least \in Nat /\ n \in Nat
    OBVIOUS
  <2>2. ~ (n < least)
    BY <1>2, <1>3, <2>1, Zenon
  <2>. QED
    BY <2>1, <2>2
<1>. QED
  BY <1>4

\* Induction, stated for a set of naturals.
LEMMA NatInd ==
  ASSUME NEW S, 0 \in S, \A n \in Nat : n \in S => n + 1 \in S
  PROVE  Nat \subseteq S
<1>1. SUFFICES ASSUME Nat \ S # {} PROVE FALSE
  OBVIOUS
<1>2. PICK least \in Nat \ S : \A n \in Nat \ S : least <= n
  BY <1>1, NatMin
<1>3. least # 0 /\ least - 1 \in Nat
  OBVIOUS
<1>4. least - 1 \in S
  BY <1>2, <1>3
<1>5. (least - 1) + 1 = least
  OBVIOUS
<1>. QED
  BY <1>2, <1>3, <1>4, <1>5

\* A remainder is a number below its divisor.
LEMMA Divided ==
  ASSUME NEW x \in Nat, NEW b \in Nat \ {0}
  PROVE  /\ x % b \in 0 .. b - 1 /\ x \div b \in Nat
         /\ x = (x \div b) * b + (x % b)
OBVIOUS

\* Quotient and remainder are the only such numbers.
LEMMA OnlyOnce ==
  ASSUME NEW b \in Nat \ {0}, NEW q1 \in Nat, NEW r1 \in 0 .. b - 1,
         NEW q2 \in Nat, NEW r2 \in 0 .. b - 1, q1 * b + r1 = q2 * b + r2
  PROVE  q1 = q2 /\ r1 = r2
<1>1. ~ (q1 >= q2 + 1)
  <2>1. SUFFICES ASSUME q1 >= q2 + 1 PROVE FALSE
    OBVIOUS
  <2>2. (q1 - q2 - 1) * b >= 0
    BY <2>1
  <2>. QED
    BY <2>2
<1>2. ~ (q2 >= q1 + 1)
  <2>1. SUFFICES ASSUME q2 >= q1 + 1 PROVE FALSE
    OBVIOUS
  <2>2. (q2 - q1 - 1) * b >= 0
    BY <2>1
  <2>. QED
    BY <2>2
<1>. QED
  BY <1>1, <1>2

\* They can be read off a product and a rest.
LEMMA DividedOnce ==
  ASSUME NEW b \in Nat \ {0}, NEW q \in Nat, NEW r \in 0 .. b - 1, NEW x, x = q * b + r
  PROVE  x % b = r /\ x \div b = q
<1>1. x \in Nat
  OBVIOUS
<1>2. x % b \in 0 .. b - 1 /\ x \div b \in Nat /\ x = (x \div b) * b + (x % b)
  BY <1>1, Divided
<1>3. (x \div b) * b + (x % b) = q * b + r
  BY <1>2
<1>. QED
  BY <1>2, <1>3, OnlyOnce, Zenon

\* A step of at most b turns the quotient by at most one.
LEMMA DividedNext ==
  ASSUME NEW x \in Nat, NEW w \in Nat, NEW b \in Nat \ {0}, w <= b
  PROVE  /\ (x + w) % b = ((x % b) + w) % b
         /\ (x + w) \div b = IF (x % b) + w >= b THEN x \div b + 1 ELSE x \div b
<1>. DEFINE q == x \div b
            r == x % b
<1>1. r \in 0 .. b - 1 /\ q \in Nat /\ x = q * b + r
  BY Divided
<1>. HIDE DEF q, r
<1>2. CASE r + w < b
  <2>1. x + w = q * b + (r + w) /\ r + w \in 0 .. b - 1
    BY <1>1, <1>2
  <2>2. (x + w) % b = r + w /\ (x + w) \div b = q
    BY <1>1, <2>1, DividedOnce
  <2>3. r + w = 0 * b + (r + w)
    BY <2>1
  <2>4. (r + w) % b = r + w
    BY <2>1, <2>3, DividedOnce
  <2>. QED
    BY <1>1, <1>2, <2>2, <2>4 DEF q, r
<1>3. CASE r + w >= b
  <2>1. x + w = (q + 1) * b + (r + w - b) /\ r + w - b \in 0 .. b - 1 /\ q + 1 \in Nat
    BY <1>1, <1>3
  <2>. DEFINE z == r + w - b
              p == q + 1
  <2>a. z \in 0 .. b - 1 /\ p \in Nat /\ x + w = p * b + z
    BY <2>1
  <2>. HIDE DEF z, p
  <2>b. (x + w) % b = z /\ (x + w) \div b = p
    BY <2>a, DividedOnce
  <2>2. (x + w) % b = r + w - b /\ (x + w) \div b = q + 1
    BY <2>b DEF z, p
  <2>3. r + w = 1 * b + (r + w - b)
    BY <1>1, <2>1
  <2>4. (r + w) % b = r + w - b
    BY <2>1, <2>3, DividedOnce
  <2>. QED
    BY <1>1, <1>3, <2>2, <2>4 DEF q, r
<1>. QED
  BY <1>1, <1>2, <1>3

\* The same, for all numbers.
LEMMA DividedNexts ==
  \A x, w \in Nat, b \in Nat \ {0} : w <= b =>
    /\ (x + w) % b = ((x % b) + w) % b
    /\ (x + w) \div b = IF (x % b) + w >= b THEN x \div b + 1 ELSE x \div b
    /\ x \div b \in Nat
BY DividedNext, Divided, ZenonT(30)

-----------------------------------------------------------------------------
Counts == [ div : 0 .. DivSpan - 1, DIV : Values, tim : 0 .. TimSpan - 1, TIMA : Values,
            flag : BOOLEAN ]
Regs == [tma : Values, run : BOOLEAN, shift : TimerShifts]

\* The values the counters start over with.
IsReload(r, f) == f = [y \in Nat |-> IF y < Top THEN y ELSE f[y - Top + r.tma]]

\* The loop that reloads TIMA comes to an end: what it ends with is a remainder.
LEMMA ReloadExists ==
  ASSUME NEW r \in Regs
  PROVE  \E f : IsReload(r, f)
<1>. DEFINE a == r.tma
            p == Top - a
<1>1. Top \in Nat \ {0} /\ a \in Nat /\ a < Top /\ p \in Nat \ {0} /\ p = Top - a
  BY TimersAssumption DEF Regs, Values, TimersAssumption
<1>. HIDE DEF p
<1>. DEFINE f == [y \in Nat |-> IF y < Top THEN y ELSE a + ((y - Top) % p)]
<1>f. \A y \in Nat : /\ y < Top => f[y] = y
                     /\ y >= Top => f[y] = a + ((y - Top) % p)
  BY <1>1
<1>d. f = [y \in Nat |-> f[y]]
  OBVIOUS
<1>. HIDE DEF f
<1>2. ASSUME NEW y \in Nat, y >= Top PROVE f[y] = f[y - Top + a]
  <2>. DEFINE x == y - Top
  <2>1. x \in Nat /\ y - Top = x /\ y - Top + a \in Nat
    BY <1>1, <1>2
  <2>2. f[y] = a + (x % p)
    BY <1>f, <1>1, <1>2
  <2>3. CASE x + a < Top
    <3>1. x = 0 * p + x /\ 0 \in Nat /\ x \in 0 .. p - 1
      BY <1>1, <2>1, <2>3
    <3>. HIDE DEF x
    <3>2. x % p = x
      BY <1>1, <3>1, DividedOnce, SMTT(30)
    <3>a. x + a \in Nat
      BY <1>1, <2>1
    <3>3. f[x + a] = x + a
      BY <1>f, <2>3, <3>a, Zenon
    <3>4. a + x = x + a /\ y - Top + a = x + a
      BY <1>1, <2>1 DEF x
    <3>. QED
      BY <1>1, <2>1, <2>2, <3>2, <3>3, <3>4 DEF x
  <2>4. CASE x + a >= Top
    <3>. DEFINE w == x - p
                z == w % p
    <3>1. w \in Nat /\ w + p = x /\ x + a - Top = w
      BY <1>1, <2>1, <2>4
    <3>2. f[x + a] = a + (w % p)
      BY <1>1, <1>f, <2>1, <2>4, <3>1
    <3>. HIDE DEF w
    <3>3. \A v \in Nat, k \in Nat \ {0} : (v + k) % k = ((v % k) + k) % k
      <4>. TAKE v \in Nat, k \in Nat \ {0}
      <4>1. k \in Nat /\ k <= k
        OBVIOUS
      <4>. QED
        BY <4>1, DividedNext, Zenon
    <3>4. (w + p) % p = ((w % p) + p) % p
      BY <1>1, <3>1, <3>3, Zenon
    <3>5. z \in 0 .. p - 1
      BY <1>1, <3>1, Divided
    <3>. HIDE DEF z
    <3>6. z + p = 1 * p + z /\ 1 \in Nat
      BY <1>1, <3>5
    <3>7. (z + p) % p = z
      BY <1>1, <3>5, <3>6, DividedOnce, SMTT(30)
    <3>8. x % p = w % p
      BY <3>1, <3>4, <3>7, Zenon DEF z
    <3>9. f[y] = f[x + a]
      BY <1>1, <2>1, <2>2, <3>1, <3>2, <3>8
    <3>10. x + a = y - Top + a
      BY DEF x
    <3>. QED
      BY <3>9, <3>10
  <2>5. x + a \in Nat
    BY <1>1, <2>1
  <2>. QED
    BY <1>1, <2>3, <2>4, <2>5
<1>3. ASSUME NEW y \in Nat PROVE f[y] = IF y < Top THEN y ELSE f[y - Top + a]
  <2>1. CASE y < Top
    BY <1>f, <2>1
  <2>2. CASE ~ (y < Top)
    <3>1. y >= Top
      BY <1>1, <2>2
    <3>2. f[y] = f[y - Top + a]
      BY <1>2, <3>1
    <3>. QED
      BY <2>2, <3>2, Zenon
  <2>. QED
    BY <2>1, <2>2
<1>4. f = [y \in Nat |-> IF y < Top THEN y ELSE f[y - Top + a]]
  BY <1>3, <1>d
<1>. QED
  BY <1>4 DEF IsReload

\* Hence Reloaded satisfies its defining equation.
LEMMA ReloadDef ==
  ASSUME NEW r \in Regs, NEW x \in Nat
  PROVE  Reloaded(x, r) = IF x < Top THEN x ELSE Reloaded(x - Top + r.tma, r)
<1>. DEFINE f == CHOOSE f : IsReload(r, f)
<1>1. IsReload(r, f)
  BY ReloadExists
<1>2. \A y : Reloaded(y, r) = f[y]
  BY DEF Reloaded, IsReload
<1>. HIDE DEF f
<1>. QED
  BY <1>1, <1>2 DEF IsReload

\* A count more is reloaded when the one before was the last.
LEMMA ReloadNext ==
  ASSUME NEW r \in Regs, NEW x \in Nat
  PROVE  /\ Reloaded(x, r) \in Values
         /\ Reloaded(x + 1, r) = IF Reloaded(x, r) = Top - 1 THEN r.tma ELSE Reloaded(x, r) + 1
<1>. DEFINE a == r.tma
            Good(y) == /\ Reloaded(y, r) \in Values
                       /\ Reloaded(y + 1, r)
                            = IF Reloaded(y, r) = Top - 1 THEN a ELSE Reloaded(y, r) + 1
            S == {y \in Nat : ~ Good(y)}
<1>1. Top \in Nat \ {0} /\ a \in Nat /\ a < Top
  BY TimersAssumption DEF Regs, Values, TimersAssumption
<1>2. SUFFICES ASSUME S # {} PROVE FALSE
  OBVIOUS
<1>3. PICK y \in S : \A z \in S : y <= z
  BY <1>2, NatMin
<1>4. y \in Nat /\ ~ Good(y) /\ \A z \in Nat : z < y => Good(z)
  BY <1>3
<1>5. /\ Reloaded(y, r) = IF y < Top THEN y ELSE Reloaded(y - Top + a, r)
      /\ Reloaded(y + 1, r) = IF y + 1 < Top THEN y + 1 ELSE Reloaded(y + 1 - Top + a, r)
      /\ Reloaded(a, r) = a
  <2>1. y \in Nat /\ y + 1 \in Nat
    BY <1>4
  <2>2. Reloaded(a, r) = IF a < Top THEN a ELSE Reloaded(a - Top + a, r)
    BY <1>1, ReloadDef
  <2>. QED
    BY <1>1, <2>1, <2>2, ReloadDef
<1>6. CASE y < Top - 1
  <2>1. Reloaded(y, r) = y /\ Reloaded(y + 1, r) = y + 1
    BY <1>1, <1>4, <1>5, <1>6
  <2>. QED
    BY <1>1, <1>4, <1>6, <2>1 DEF Values
<1>7. CASE y = Top - 1
  <2>1. y < Top /\ ~ (y + 1 < Top) /\ y + 1 - Top + a = a
    BY <1>1, <1>7
  <2>2. Reloaded(y, r) = y /\ Reloaded(y + 1, r) = a
    BY <1>5, <2>1
  <2>. QED
    BY <1>1, <1>4, <1>7, <2>2 DEF Values
<1>8. CASE y >= Top
  <2>. DEFINE z == y - Top + a
  <2>1. z \in Nat /\ z < y /\ y + 1 - Top + a = z + 1 /\ ~ (y < Top) /\ ~ (y + 1 < Top)
    BY <1>1, <1>4, <1>8
  <2>2. Good(z)
    BY <1>4, <2>1
  <2>3. Reloaded(y, r) = Reloaded(z, r) /\ Reloaded(y + 1, r) = Reloaded(z + 1, r)
    BY <1>5, <2>1
  <2>4. Good(y)
    BY <2>2, <2>3
  <2>. QED
    BY <1>4, <2>4
<1>. QED
  BY <1>1, <1>4, <1>6, <1>7, <1>8

-----------------------------------------------------------------------------
\* The shift's step of the timer.
LEMMA Steps ==
  ASSUME NEW r \in Regs
  PROVE  /\ 2 ^ r.shift \in Nat \ {0} /\ 2 ^ r.shift <= TimSpan
         /\ TimSpan % (2 ^ r.shift) = 0
<1>1. r.shift \in TimerShifts
  BY DEF Regs
<1>. DEFINE k == 2 ^ r.shift
<1>2. k \in 1 .. TimSpan /\ TimSpan % k = 0
  BY <1>1, TimersAssumption, Zenon DEF TimersAssumption
<1>3. TimSpan \in Nat
  BY TimersAssumption DEF TimersAssumption
<1>. HIDE DEF k
<1>4. k \in Nat \ {0} /\ k <= TimSpan /\ TimSpan % k = 0
  BY <1>2, <1>3
<1>. QED
  BY <1>4, Zenon DEF k

\* What has been counted after n cycles.
DivCount(c, n) == c.div + 2 * n
TimCount(c, r, n) == c.tim + n * 2 ^ r.shift
TimaCount(c, r, n) == c.TIMA + (TimCount(c, r, n) \div TimSpan)

\* What a count of n cycles makes of each field.
LEMMA AdvancedFields ==
  ASSUME NEW c \in Counts, NEW r \in Regs, NEW n \in Nat
  PROVE  /\ Advanced(c, r, n).div = DivCount(c, n) % DivSpan
         /\ Advanced(c, r, n).DIV = (c.DIV + (DivCount(c, n) \div DivSpan)) % Top
         /\ Advanced(c, r, n).tim = IF r.run THEN TimCount(c, r, n) % TimSpan ELSE c.tim
         /\ Advanced(c, r, n).TIMA = IF r.run THEN Reloaded(TimaCount(c, r, n), r) ELSE c.TIMA
         /\ Advanced(c, r, n).flag = (c.flag \/ (r.run /\ TimaCount(c, r, n) >= Top))
         /\ Advanced(c, r, n) \in Counts
<1>. DEFINE k == 2 ^ r.shift
            D == DivCount(c, n)
            T == TimCount(c, r, n)
            A == TimaCount(c, r, n)
            R == Reloaded(A, r)
<1>1. /\ DivSpan \in Nat \ {0} /\ TimSpan \in Nat \ {0} /\ Top \in Nat \ {0} /\ k \in Nat
  BY Steps, TimersAssumption DEF TimersAssumption
<1>2. /\ c.div \in Nat /\ c.DIV \in Nat /\ c.tim \in Nat /\ c.TIMA \in Nat
      /\ c.tim \in 0 .. TimSpan - 1 /\ c.TIMA \in Values /\ c.flag \in BOOLEAN
  BY <1>1 DEF Counts, Values
<1>3. n * k \in Nat
  BY <1>1
<1>4. D \in Nat /\ T \in Nat
  BY <1>2, <1>3 DEF DivCount, TimCount
<1>. HIDE DEF k, D, T
<1>5. D % DivSpan \in 0 .. DivSpan - 1 /\ D \div DivSpan \in Nat
  BY <1>1, <1>4, Divided
<1>6. T % TimSpan \in 0 .. TimSpan - 1 /\ T \div TimSpan \in Nat
  BY <1>1, <1>4, Divided
<1>7. A \in Nat
  BY <1>2, <1>6 DEF TimaCount, T
<1>. HIDE DEF A
<1>8. R \in Values
  BY <1>7, ReloadNext
<1>9. (c.DIV + (D \div DivSpan)) % Top \in Values
  <2>1. c.DIV + (D \div DivSpan) \in Nat
    BY <1>2, <1>5
  <2>. QED
    BY <1>1, <2>1, Divided DEF Values
<1>. HIDE DEF R
<1>. DEFINE E == div_advance(c, n)
<1>10. /\ E \in Counts
       /\ E.div = D % DivSpan /\ E.DIV = (c.DIV + (D \div DivSpan)) % Top
       /\ E.tim = c.tim /\ E.TIMA = c.TIMA /\ E.flag = c.flag
  <2>1. E = [c EXCEPT !.div = D % DivSpan, !.DIV = (c.DIV + (D \div DivSpan)) % Top]
    BY DEF div_advance, DivCount, D, Counts
  <2>. HIDE DEF E
  <2>. QED
    BY <1>5, <1>9, <2>1 DEF Counts
<1>. HIDE DEF E
<1>11. Advanced(c, r, n) = timer_advance(E, r, n)
  BY DEF Advanced, E
<1>12. CASE ~ r.run
  <2>1. Advanced(c, r, n) = E
    BY <1>11, <1>12 DEF timer_advance
  <2>. QED
    BY <1>2, <1>10, <1>12, <2>1 DEF D
<1>13. CASE r.run
  <2>1. E.tim + n * 2 ^ r.shift = T /\ E.TIMA + (T \div TimSpan) = A
    BY <1>10 DEF T, TimCount, A, TimaCount
  <2>2. timer_advance(E, r, n)
          = [E EXCEPT !.tim = T % TimSpan, !.TIMA = R, !.flag = E.flag \/ A >= Top]
    BY <1>10, <1>13, <2>1 DEF timer_advance, R, Counts
  <2>. DEFINE F == timer_advance(E, r, n)
  <2>. HIDE DEF F
  <2>3. /\ F \in Counts /\ F.div = E.div /\ F.DIV = E.DIV
        /\ F.tim = T % TimSpan /\ F.TIMA = R /\ F.flag = (E.flag \/ A >= Top)
    BY <1>6, <1>8, <1>10, <2>2 DEF Counts, F
  <2>. QED
    BY <1>2, <1>10, <1>11, <1>13, <2>3 DEF D, T, A, R, F
<1>. QED
  BY <1>12, <1>13

\* Counting nothing changes nothing.
LEMMA AdvancedNothing ==
  ASSUME NEW c \in Counts, NEW r \in Regs
  PROVE  Advanced(c, r, 0) = c
<1>. DEFINE F == Advanced(c, r, 0)
            k == 2 ^ r.shift
<1>1. /\ DivSpan \in Nat \ {0} /\ TimSpan \in Nat \ {0} /\ Top \in Nat \ {0} /\ k \in Nat
  BY Steps, TimersAssumption DEF TimersAssumption
<1>2. /\ c.div \in 0 .. DivSpan - 1 /\ c.DIV \in 0 .. Top - 1
      /\ c.tim \in 0 .. TimSpan - 1 /\ c.TIMA \in 0 .. Top - 1 /\ c.flag \in BOOLEAN
  BY DEF Counts, Values
<1>3. 0 * k = 0
  BY <1>1
<1>. HIDE DEF k
<1>4. DivCount(c, 0) = c.div /\ TimCount(c, r, 0) = c.tim
  BY <1>1, <1>2, <1>3 DEF DivCount, TimCount, k
<1>5. \A b \in Nat \ {0} : \A x \in 0 .. b - 1 : x % b = x /\ x \div b = 0
  <2>. TAKE b \in Nat \ {0}
  <2>. TAKE x \in 0 .. b - 1
  <2>1. x = 0 * b + x /\ 0 \in Nat
    OBVIOUS
  <2>. QED
    BY <2>1, DividedOnce
<1>6. c.div % DivSpan = c.div /\ c.div \div DivSpan = 0 /\ c.tim % TimSpan = c.tim /\ c.tim \div TimSpan = 0
  BY <1>1, <1>2, <1>5
<1>7. c.DIV + 0 = c.DIV /\ c.TIMA + 0 = c.TIMA /\ c.DIV % Top = c.DIV
  BY <1>1, <1>2, <1>5
<1>8. TimaCount(c, r, 0) = c.TIMA
  BY <1>4, <1>6, <1>7 DEF TimaCount
<1>9. Reloaded(c.TIMA, r) = c.TIMA /\ ~ (c.TIMA >= Top)
  <2>1. c.TIMA \in Nat /\ c.TIMA < Top
    BY <1>1, <1>2
  <2>. QED
    BY <1>1, <2>1, ReloadDef
<1>10. /\ F \in Counts /\ F.div = c.div /\ F.DIV = c.DIV /\ F.tim = c.tim /\ F.TIMA = c.TIMA
       /\ F.flag = c.flag
  <2>1. 0 \in Nat
    OBVIOUS
  <2>2. /\ F.div = DivCount(c, 0) % DivSpan
        /\ F.DIV = (c.DIV + (DivCount(c, 0) \div DivSpan)) % Top
        /\ F.tim = IF r.run THEN TimCount(c, r, 0) % TimSpan ELSE c.tim
        /\ F.TIMA = IF r.run THEN Reloaded(TimaCount(c, r, 0), r) ELSE c.TIMA
        /\ F.flag = (c.flag \/ (r.run /\ TimaCount(c, r, 0) >= Top))
        /\ F \in Counts
    BY <2>1, AdvancedFields
  <2>. HIDE DEF F
  <2>3. F.flag = c.flag
    BY <1>2, <1>8, <1>9, <2>2
  <2>. QED
    BY <1>4, <1>6, <1>7, <1>8, <1>9, <2>2, <2>3
<1>. HIDE DEF F
<1>11. F = c
  BY <1>10 DEF Counts
<1>. QED
  BY <1>11 DEF F

\* What is counted in one cycle more.
LEMMA AdvancedNext ==
  ASSUME NEW c \in Counts, NEW r \in Regs, NEW n \in Nat
  PROVE  Advanced(c, r, n + 1) = OneCycle(Advanced(c, r, n), r)
<1>. DEFINE k == 2 ^ r.shift
            F == Advanced(c, r, n)
            G == Advanced(c, r, n + 1)
            D == DivCount(c, n)
            T == TimCount(c, r, n)
            A == TimaCount(c, r, n)
            step == (T % TimSpan) + k >= TimSpan
<1>1. /\ DivSpan \in Nat \ {0} /\ TimSpan \in Nat \ {0} /\ Top \in Nat \ {0}
      /\ k \in Nat /\ k <= TimSpan /\ 2 <= DivSpan
  BY Steps, TimersAssumption DEF TimersAssumption
<1>2. /\ c.div \in Nat /\ c.DIV \in Nat /\ c.tim \in Nat /\ c.TIMA \in Nat /\ c.flag \in BOOLEAN
      /\ r.run \in BOOLEAN
  BY <1>1 DEF Counts, Values, Regs
<1>3. n * k \in Nat /\ (n + 1) * k = n * k + k
  BY <1>1
<1>4. /\ D \in Nat /\ T \in Nat
      /\ DivCount(c, n + 1) = D + 2 /\ TimCount(c, r, n + 1) = T + k
  <2>1. D \in Nat /\ T \in Nat
    BY <1>2, <1>3 DEF DivCount, TimCount
  <2>2. DivCount(c, n + 1) = D + 2
    BY <1>2 DEF DivCount
  <2>3. TimCount(c, r, n + 1) = c.tim + (n * k + k) /\ T = c.tim + n * k
    BY <1>3, Zenon DEF TimCount
  <2>. HIDE DEF k, T
  <2>4. c.tim + (n * k + k) = (c.tim + n * k) + k
    BY <1>1, <1>2, <1>3
  <2>. QED
    BY <2>1, <2>2, <2>3, <2>4
<1>4a. 2 \in Nat
  OBVIOUS
<1>5. n + 1 \in Nat
  OBVIOUS
<1>. HIDE DEF k, D, T
<1>6. /\ (D + 2) % DivSpan = ((D % DivSpan) + 2) % DivSpan
      /\ (D + 2) \div DivSpan
           = IF (D % DivSpan) + 2 >= DivSpan THEN (D \div DivSpan) + 1 ELSE D \div DivSpan
      /\ D \div DivSpan \in Nat
  BY <1>1, <1>4, <1>4a, DividedNexts, Zenon
<1>7. /\ (T + k) % TimSpan = ((T % TimSpan) + k) % TimSpan
      /\ (T + k) \div TimSpan = IF step THEN (T \div TimSpan) + 1 ELSE T \div TimSpan
      /\ T \div TimSpan \in Nat
  BY <1>1, <1>4, <1>4a, DividedNexts, Zenon
<1>. HIDE DEF step
<1>8. A \in Nat /\ TimaCount(c, r, n + 1) = IF step THEN A + 1 ELSE A
  BY <1>2, <1>4, <1>7 DEF TimaCount, T
<1>9. /\ F.div = D % DivSpan
      /\ F.DIV = (c.DIV + (D \div DivSpan)) % Top
      /\ F.tim = IF r.run THEN T % TimSpan ELSE c.tim
      /\ F.TIMA = IF r.run THEN Reloaded(A, r) ELSE c.TIMA
      /\ F.flag = (c.flag \/ (r.run /\ A >= Top))
      /\ F \in Counts
  BY AdvancedFields DEF D, T
<1>10. /\ G.div = (D + 2) % DivSpan
       /\ G.DIV = (c.DIV + ((D + 2) \div DivSpan)) % Top
       /\ G.tim = IF r.run THEN (T + k) % TimSpan ELSE c.tim
       /\ G.TIMA = IF r.run THEN Reloaded(TimaCount(c, r, n + 1), r) ELSE c.TIMA
       /\ G.flag = (c.flag \/ (r.run /\ TimaCount(c, r, n + 1) >= Top))
       /\ G \in Counts
  BY <1>4, <1>5, AdvancedFields
<1>. HIDE DEF A, F, G
<1>11. /\ Reloaded(A, r) \in Values
       /\ Reloaded(A + 1, r) = IF Reloaded(A, r) = Top - 1 THEN r.tma ELSE Reloaded(A, r) + 1
  BY <1>8, ReloadNext
<1>12. A < Top => Reloaded(A, r) = A
  BY <1>8, ReloadDef
<1>. DEFINE O == OneCycle(F, r)
            over == r.run /\ step /\ F.TIMA = Top - 1
<1>13. /\ O.div = (F.div + 2) % DivSpan
       /\ O.DIV = IF F.div + 2 >= DivSpan THEN (F.DIV + 1) % Top ELSE F.DIV
       /\ O.tim = IF r.run THEN (F.tim + k) % TimSpan ELSE F.tim
       /\ O.flag = (F.flag \/ (r.run /\ F.tim + k >= TimSpan /\ F.TIMA = Top - 1))
       /\ O.TIMA = IF r.run /\ F.tim + k >= TimSpan /\ F.TIMA = Top - 1 THEN r.tma
                   ELSE IF r.run /\ F.tim + k >= TimSpan THEN F.TIMA + 1 ELSE F.TIMA
       /\ O = [div |-> O.div, DIV |-> O.DIV, tim |-> O.tim, TIMA |-> O.TIMA, flag |-> O.flag]
  BY DEF OneCycle, k
<1>. HIDE DEF O
<1>14. O.div = G.div
  BY <1>6, <1>9, <1>10, <1>13
<1>15. O.DIV = G.DIV
  <2>. DEFINE z == c.DIV + (D \div DivSpan)
  <2>1. z \in Nat /\ 1 \in Nat /\ 1 <= Top
    BY <1>1, <1>2, <1>6
  <2>3. c.DIV + ((D + 2) \div DivSpan) = IF (D % DivSpan) + 2 >= DivSpan THEN z + 1 ELSE z
    BY <1>2, <1>6
  <2>. HIDE DEF z
  <2>2. (z + 1) % Top = ((z % Top) + 1) % Top
    <3>1. \A x \in Nat : (x + 1) % Top = ((x % Top) + 1) % Top
      <4>. TAKE x \in Nat
      <4>1. 1 \in Nat /\ Top \in Nat \ {0} /\ 1 <= Top
        BY <1>1
      <4>. QED
        BY <4>1, DividedNexts, Zenon
    <3>2. z \in Nat
      BY <2>1
    <3>. QED
      BY <3>1, <3>2, Zenon
  <2>4. F.DIV = z % Top
    BY <1>9 DEF z
  <2>. QED
    BY <1>9, <1>10, <1>13, <2>2, <2>3, <2>4
<1>16. O.tim = G.tim
  BY <1>7, <1>9, <1>10, <1>13
<1>17. r.run => (F.tim + k >= TimSpan <=> step)
  BY <1>9 DEF step
<1>18. O.TIMA = G.TIMA
  BY <1>2, <1>8, <1>9, <1>10, <1>11, <1>13, <1>17
<1>19. O.flag = G.flag
  <2>1. CASE ~ r.run
    BY <1>2, <1>9, <1>10, <1>13, <2>1
  <2>2. CASE r.run
    <3>1. F.flag = (c.flag \/ A >= Top) /\ F.TIMA = Reloaded(A, r)
      BY <1>2, <1>9, <2>2
    <3>2. O.flag = (F.flag \/ (step /\ F.TIMA = Top - 1))
      BY <1>13, <1>17, <2>2
    <3>3. G.flag = (c.flag \/ (IF step THEN A + 1 ELSE A) >= Top)
      BY <1>8, <1>10, <2>2
    <3>4. (IF step THEN A + 1 ELSE A) >= Top <=> A >= Top \/ (step /\ A = Top - 1)
      BY <1>1, <1>8
    <3>5. A >= Top \/ Reloaded(A, r) = A
      BY <1>1, <1>8, <1>12
    <3>. QED
      BY <1>2, <3>1, <3>2, <3>3, <3>4, <3>5
  <2>. QED
    BY <1>2, <2>1, <2>2
<1>20. O = G
  BY <1>10, <1>13, <1>14, <1>15, <1>16, <1>18, <1>19 DEF Counts
<1>. QED
  BY <1>20 DEF O, F, G

\* The counters, cycle by cycle.
IsRun(c, r, n, g) == g = [k \in 0 .. n |-> IF k = 0 THEN c ELSE OneCycle(g[k - 1], r)]

\* Time that passes in one go is time that passes cycle by cycle.
LEMMA ChunkIsCycles ==
  ASSUME NEW c \in Counts, NEW r \in Regs, NEW n \in Nat
  PROVE  Cycles(c, r, n) = Advanced(c, r, n)
<1>. DEFINE f == [k \in 0 .. n |-> Advanced(c, r, k)]
            g == CHOOSE g : IsRun(c, r, n, g)
<1>1. IsRun(c, r, n, f)
  <2>1. ASSUME NEW k \in 0 .. n
        PROVE  f[k] = IF k = 0 THEN c ELSE OneCycle(f[k - 1], r)
    <3>1. CASE k = 0
      BY <3>1, AdvancedNothing
    <3>2. CASE k # 0
      <4>1. k - 1 \in Nat /\ k - 1 \in 0 .. n /\ (k - 1) + 1 = k
        BY <3>2
      <4>2. Advanced(c, r, (k - 1) + 1) = OneCycle(Advanced(c, r, k - 1), r)
        BY <4>1, AdvancedNext
      <4>. QED
        BY <3>2, <4>1, <4>2
    <3>. QED
      BY <3>1, <3>2
  <2>2. f = [k \in 0 .. n |-> f[k]]
    OBVIOUS
  <2>. HIDE DEF f
  <2>. QED
    BY <2>1, <2>2 DEF IsRun
<1>2. IsRun(c, r, n, g)
  BY <1>1
<1>3. Cycles(c, r, n) = g[n]
  BY DEF Cycles, IsRun
<1>. HIDE DEF g
<1>. DEFINE S == {k \in Nat : k <= n => g[k] = Advanced(c, r, k)}
<1>4. 0 \in S
  BY <1>2, AdvancedNothing DEF IsRun
<1>5. ASSUME NEW k \in Nat, k \in S PROVE k + 1 \in S
  <2>. SUFFICES ASSUME k + 1 <= n PROVE g[k + 1] = Advanced(c, r, k + 1)
    OBVIOUS
  <2>1. k + 1 \in 0 .. n /\ k + 1 # 0 /\ (k + 1) - 1 = k /\ k <= n
    OBVIOUS
  <2>2. g[k + 1] = OneCycle(g[k], r)
    BY <1>2, <2>1 DEF IsRun
  <2>3. g[k] = Advanced(c, r, k)
    BY <1>5, <2>1
  <2>. QED
    BY <2>2, <2>3, AdvancedNext
<1>. HIDE DEF S
<1>6. n \in S
  BY <1>4, <1>5, NatInd
<1>. QED
  BY <1>3, <1>6 DEF S

-----------------------------------------------------------------------------
\* The counters are ones the lemmas about counting speak of.
LEMMA TypesAreCounts == TimersTypeOK => count \in Counts /\ timerRegs \in Regs
BY DEF TimersTypeOK, Counts, Regs

\* A sleep has a length.
LEMMA IdleTimes ==
  ASSUME TimersTypeOK, NEW max \in Budgets
  PROVE  UntilOverflow \in Nat /\ IdleTime(max) \in Nat /\ Doubled(IdleTime(max)) \in Nat
<1>1. count \in Counts /\ timerRegs \in Regs
  BY TypesAreCounts
<1>. DEFINE k == 2 ^ timerRegs.shift
<1>2. /\ TimSpan \in Nat \ {0} /\ Top \in Nat \ {0} /\ k \in Nat \ {0} /\ max \in Nat
  BY <1>1, Steps, TimersAssumption DEF TimersAssumption
<1>3. count.tim \in 0 .. TimSpan - 1 /\ count.TIMA \in 0 .. Top - 1
  BY <1>1 DEF Counts, Values
<1>4. UntilOverflow \in Nat
  <2>. HIDE DEF k
  <2>. DEFINE x == TimSpan - 1 - count.tim + k
  <2>1. x \in Nat /\ Top - 1 - count.TIMA \in Nat
    BY <1>2, <1>3
  <2>. HIDE DEF x
  <2>2. x \div k \in Nat /\ TimSpan \div k \in Nat
    BY <1>2, <2>1, Divided
  <2>3. (Top - 1 - count.TIMA) * (TimSpan \div k) \in Nat
    BY <2>1, <2>2
  <2>. DEFINE y == (Top - 1 - count.TIMA) * (TimSpan \div k)
              z == x \div k
  <2>4. UntilOverflow = z + y
    BY DEF UntilOverflow, k, x
  <2>5. y \in Nat /\ z \in Nat
    BY <2>2, <2>3
  <2>. HIDE DEF y, z
  <2>. QED
    BY <2>4, <2>5
<1>5. IdleTime(max) \in Nat
  BY <1>2, <1>4 DEF IdleTime
<1>. QED
  BY <1>4, <1>5 DEF Doubled

\* The instruction leaves counters and registers in their ranges.
LEMMA ExecutesTypes ==
  ASSUME NEW n \in Lengths, NEW c \in Counts, NEW hlt \in BOOLEAN, Executes(n, c, hlt),
         timerRegs' \in Regs
  PROVE  count' \in Counts /\ halt' \in BOOLEAN
<1>1. n \in Nat
  BY TimersAssumption DEF TimersAssumption
<1>2. Advanced(c, timerRegs', n) \in Counts
  BY <1>1, AdvancedFields
<1>. QED
  BY <1>2 DEF Executes, WakenedBy

\* The timers begin, and stay, in their ranges.
LEMMA TimersBegin == TimersInit => TimersTypeOK
<1>. SUFFICES ASSUME TimersInit PROVE TimersTypeOK
  OBVIOUS
<1>1. 0 \in 0 .. DivSpan - 1 /\ 0 \in Values /\ 0 \in 0 .. TimSpan - 1
  BY TimersAssumption DEF TimersAssumption, Values
<1>. QED
  <2>1. count \in Counts
    BY <1>1 DEF TimersInit, Counts
  <2>2. timerRegs \in Regs
    BY <1>1 DEF TimersInit, Regs
  <2>. QED
    BY <2>1, <2>2 DEF TimersInit, TimersTypeOK, Counts, Regs

\* Every operation leaves the counters in their ranges.
LEMMA TimersSteps == TimersTypeOK /\ [TimersNext]_timersVars => TimersTypeOK'
<1>. SUFFICES ASSUME TimersTypeOK, [TimersNext]_timersVars PROVE TimersTypeOK'
  OBVIOUS
<1>1. count \in Counts /\ timerRegs \in Regs
  BY TypesAreCounts
<1>2. /\ double \in BOOLEAN /\ timerEnabled \in BOOLEAN
      /\ halt \in BOOLEAN /\ ime \in BOOLEAN /\ ima \in BOOLEAN
  BY DEF TimersTypeOK
<1>3. SUFFICES
        /\ count' \in Counts /\ timerRegs' \in Regs
        /\ double' \in BOOLEAN /\ timerEnabled' \in BOOLEAN
        /\ halt' \in BOOLEAN /\ ime' \in BOOLEAN /\ ima' \in BOOLEAN
  BY DEF TimersTypeOK, Counts, Regs
<1>. DEFINE Kept == timerRegs' = timerRegs /\ timerEnabled' \in BOOLEAN /\ double' \in BOOLEAN
                    /\ ima' \in BOOLEAN /\ ime' \in BOOLEAN
<1>4. ASSUME NEW max \in Budgets, Idle(max)
      PROVE  count' \in Counts /\ halt' \in BOOLEAN /\ Kept
  <2>1. Advanced(count, timerRegs, Doubled(IdleTime(max))) \in Counts
    BY <1>1, IdleTimes, AdvancedFields
  <2>. QED
    BY <1>2, <1>4, <2>1 DEF Idle, WakenedBy
<1>5. CASE TakeInterrupt
  <2>1. [count EXCEPT !.flag = FALSE] \in Counts
    BY <1>1 DEF Counts
  <2>. QED
    BY <1>1, <1>2, <1>5, <2>1 DEF TakeInterrupt
<1>6. ASSUME NEW n \in Lengths,
             \/ Plain(n) \/ WriteDiv(n) \/ Ei(n) \/ Di(n) \/ Halt(n) \/ Stop(n)
             \/ \E x \in Values : WriteTima(n, x)
             \/ \E b \in BOOLEAN : WriteFlag(n, b) \/ WriteEnable(n, b)
             \/ \E x \in Values, b \in BOOLEAN, w \in TimerShifts : WriteRegs(n, x, b, w)
      PROVE  count' \in Counts /\ halt' \in BOOLEAN /\ timerRegs' \in Regs
             /\ timerEnabled' \in BOOLEAN /\ double' \in BOOLEAN /\ ima' \in BOOLEAN /\ ime' \in BOOLEAN
  <2>1. CASE Plain(n)
    BY <1>1, <1>2, <2>1, ExecutesTypes DEF Plain
  <2>2. CASE WriteDiv(n)
    <3>1. [count EXCEPT !.DIV = 0] \in Counts
      BY <1>1, TimersAssumption DEF Counts, Values, TimersAssumption
    <3>. QED
      BY <1>1, <1>2, <2>2, <3>1, ExecutesTypes DEF WriteDiv
  <2>3. CASE Ei(n)
    BY <1>1, <1>2, <2>3, ExecutesTypes DEF Ei
  <2>4. CASE Di(n)
    BY <1>1, <1>2, <2>4, ExecutesTypes DEF Di
  <2>5. CASE Halt(n)
    BY <1>1, <1>2, <2>5, ExecutesTypes DEF Halt
  <2>6. CASE Stop(n)
    BY <1>1, <1>2, <2>6, ExecutesTypes DEF Stop
  <2>7. ASSUME NEW x \in Values, WriteTima(n, x) PROVE Kept /\ count' \in Counts /\ halt' \in BOOLEAN
    <3>1. [count EXCEPT !.TIMA = x] \in Counts
      BY <1>1 DEF Counts
    <3>. QED
      BY <1>1, <1>2, <2>7, <3>1, ExecutesTypes DEF WriteTima
  <2>8. ASSUME NEW b \in BOOLEAN, WriteFlag(n, b) PROVE Kept /\ count' \in Counts /\ halt' \in BOOLEAN
    <3>1. [count EXCEPT !.flag = b] \in Counts
      BY <1>1 DEF Counts
    <3>. QED
      BY <1>1, <1>2, <2>8, <3>1, ExecutesTypes DEF WriteFlag
  <2>9. ASSUME NEW b \in BOOLEAN, WriteEnable(n, b) PROVE Kept /\ count' \in Counts /\ halt' \in BOOLEAN
    BY <1>1, <1>2, <2>9, ExecutesTypes DEF WriteEnable
  <2>10. ASSUME NEW x \in Values, NEW b \in BOOLEAN, NEW w \in TimerShifts, WriteRegs(n, x, b, w)
         PROVE  count' \in Counts /\ halt' \in BOOLEAN /\ timerRegs' \in Regs
                /\ timerEnabled' \in BOOLEAN /\ double' \in BOOLEAN /\ ima' \in BOOLEAN
                /\ ime' \in BOOLEAN
    <3>1. timerRegs' \in Regs
      BY <2>10 DEF WriteRegs, Regs
    <3>. QED
      BY <1>1, <1>2, <2>10, <3>1, ExecutesTypes DEF WriteRegs
  <2>. QED
    BY <1>1, <1>6, <2>1, <2>2, <2>3, <2>4, <2>5, <2>6, <2>7, <2>8, <2>9, <2>10
<1>7. CASE UNCHANGED timersVars
  BY <1>1, <1>2, <1>7 DEF timersVars
<1>. QED
  BY <1>1, <1>4, <1>5, <1>6, <1>7 DEF TimersNext, Sleep, Execute

\* Counting a chunk of time at once, an instruction or a whole sleep, gives the
\* counters that the hardware gives cycle by cycle (div_advance, timer_advance of
\* cpu.c), whatever the registers hold and however often TIMA is reloaded.
THEOREM ChunksCount == TimersSpec => []ChunksAreCycles
<1>1. TimersTypeOK => ChunksAreCycles
  <2>. SUFFICES ASSUME TimersTypeOK, NEW n \in Lengths \cup Budgets
                PROVE  Advanced(count, timerRegs, n) = Cycles(count, timerRegs, n)
    BY DEF ChunksAreCycles
  <2>1. n \in Nat
    BY TimersAssumption DEF TimersAssumption
  <2>. QED
    BY <2>1, TypesAreCounts, ChunkIsCycles
<1>. QED
  BY <1>1, TimersBegin, TimersSteps, PTL DEF TimersSpec

\* Until the sleep ends nothing overflows.
LEMMA NoOverflowYet ==
  ASSUME NEW c \in Counts, NEW r \in Regs, NEW n \in Nat,
         n <= ((TimSpan - 1 - c.tim + 2 ^ r.shift) \div 2 ^ r.shift
               + (Top - 1 - c.TIMA) * (TimSpan \div 2 ^ r.shift)) - 1
  PROVE  TimaCount(c, r, n) \in Nat /\ TimaCount(c, r, n) < Top
<1>. DEFINE k == 2 ^ r.shift
            q == (TimSpan - 1 - c.tim + k) \div k
            w == TimSpan \div k
            x == Top - 1 - c.TIMA
            p == x * w
            T == TimCount(c, r, n)
<1>1. /\ TimSpan \in Nat \ {0} /\ Top \in Nat \ {0} /\ k \in Nat \ {0} /\ TimSpan % k = 0
      /\ c.tim \in 0 .. TimSpan - 1 /\ c.TIMA \in 0 .. Top - 1 /\ x \in Nat
  <2>1. TimSpan \in Nat \ {0} /\ Top \in Nat \ {0} /\ k \in Nat \ {0} /\ TimSpan % k = 0
    BY Steps, TimersAssumption DEF TimersAssumption
  <2>2. c.tim \in 0 .. TimSpan - 1 /\ c.TIMA \in 0 .. Top - 1
    BY DEF Counts, Values
  <2>. HIDE DEF k
  <2>. QED
    BY <2>1, <2>2
<1>2. n <= (q + p) - 1
  OBVIOUS
<1>3. T = c.tim + n * k
  BY DEF TimCount
<1>. HIDE DEF k, T, x
<1>4. q \in Nat /\ q * k <= TimSpan - 1 - c.tim + k
  <2>. DEFINE y == TimSpan - 1 - c.tim + k
  <2>1. y \in Nat
    BY <1>1
  <2>. HIDE DEF y
  <2>2. y \div k \in Nat /\ y = (y \div k) * k + (y % k) /\ y % k \in 0 .. k - 1
    BY <1>1, <2>1, Divided
  <2>3. y \div k \in Nat /\ (y \div k) * k <= y
    <3>. DEFINE u == y \div k
                v == y % k
    <3>1. u \in Nat /\ v \in Nat /\ y = u * k + v
      BY <1>1, <2>2
    <3>. HIDE DEF u, v
    <3>2. u \in Nat /\ u * k <= y
      BY <1>1, <2>1, <3>1
    <3>. QED
      BY <3>2 DEF u
  <2>. QED
    BY <2>3 DEF y
<1>5. w \in Nat /\ w * k = TimSpan
  <2>1. TimSpan \div k \in Nat /\ TimSpan = (TimSpan \div k) * k + (TimSpan % k)
    BY <1>1, Divided
  <2>2. w \in Nat /\ TimSpan = w * k + 0
    BY <1>1, <2>1, Zenon
  <2>. HIDE DEF w
  <2>. QED
    BY <1>1, <2>2
<1>. HIDE DEF q, w
<1>6. p \in Nat /\ p * k = x * TimSpan
  <2>1. p \in Nat
    BY <1>1, <1>5
  <2>2. (x * w) * k = x * (w * k)
    BY <1>1, <1>5
  <2>. QED
    BY <1>5, <2>1, <2>2
<1>. HIDE DEF p
<1>7. n * k <= ((q + p) - 1) * k
  <2>1. ((q + p) - 1 - n) * k >= 0
    BY <1>1, <1>2, <1>4, <1>6
  <2>. QED
    BY <1>1, <1>4, <1>6, <2>1
<1>8. ((q + p) - 1) * k = q * k + p * k - k
  BY <1>1, <1>4, <1>6
<1>9. T \in Nat /\ T <= TimSpan - 1 + x * TimSpan
  <2>. DEFINE a == n * k
              b == q * k
              e == p * k
              g == x * TimSpan
  <2>1. a \in Nat /\ b \in Nat /\ e \in Nat /\ g \in Nat
    BY <1>1, <1>4, <1>6
  <2>2. a <= b + e - k /\ b <= TimSpan - 1 - c.tim + k /\ e = g /\ T = c.tim + a
    BY <1>3, <1>4, <1>6, <1>7, <1>8
  <2>. HIDE DEF a, b, e, g
  <2>3. T \in Nat /\ T <= TimSpan - 1 + g
    BY <1>1, <2>1, <2>2
  <2>. QED
    BY <2>3 DEF g
<1>10. T \div TimSpan <= x /\ T \div TimSpan \in Nat
  <2>. DEFINE u == T \div TimSpan
              v == T % TimSpan
  <2>1. u \in Nat /\ v \in Nat /\ T = u * TimSpan + v
    <3>1. \A a \in Nat, b \in Nat \ {0} : a \div b \in Nat /\ a % b \in 0 .. b - 1
                                       /\ a = (a \div b) * b + (a % b)
      BY Divided
    <3>2. u \in Nat /\ v \in 0 .. TimSpan - 1 /\ T = u * TimSpan + v
      BY <1>1, <1>9, <3>1, Zenon
    <3>. QED
      BY <1>1, <3>2
  <2>. HIDE DEF u, v
  <2>2. ~ (u >= x + 1)
    <3>1. SUFFICES ASSUME u >= x + 1 PROVE FALSE
      OBVIOUS
    <3>2. (u - x - 1) * TimSpan >= 0
      BY <1>1, <2>1, <3>1
    <3>3. u * TimSpan >= x * TimSpan + TimSpan
      BY <1>1, <2>1, <3>2
    <3>. QED
      BY <1>1, <1>9, <2>1, <3>3
  <2>3. u <= x
    BY <1>1, <2>1, <2>2
  <2>. QED
    BY <2>1, <2>3 DEF u
<1>. QED
  BY <1>1, <1>10 DEF TimaCount, T, x

\* A sleep at single speed does not run past the cycle that requests an enabled
\* timer interrupt (cpu_idle of cpu.c), whatever the registers and the counters
\* hold when it begins.
THEOREM SleepsEnd == TimersSpec => []SleepsExactlySingle
<1>1. TimersTypeOK => SleepsExactlySingle
  <2>. SUFFICES ASSUME TimersTypeOK, ~ double, Sleeping, timerEnabled, NEW max \in Budgets,
                       OverflowIn(Doubled(IdleTime(max) - 1))
                PROVE  FALSE
    BY DEF SleepsExactlySingle, SleepsExactly
  <2>. DEFINE n == IdleTime(max) - 1
  <2>1. count \in Counts /\ timerRegs \in Regs
    BY TypesAreCounts
  <2>2. Doubled(n) = n
    BY DEF Doubled
  <2>3. n \in Nat
    BY <2>2, IdleTimes DEF OverflowIn
  <2>4. Cycles(count, timerRegs, n).flag
    BY <2>2 DEF OverflowIn
  <2>. HIDE DEF n
  <2>5. Cycles(count, timerRegs, n) = Advanced(count, timerRegs, n)
    BY <2>1, <2>3, ChunkIsCycles
  <2>6. ~ count.flag
    BY DEF Sleeping, Pending
  <2>7. timerRegs.run /\ TimaCount(count, timerRegs, n) >= Top
    <3>1. Advanced(count, timerRegs, n).flag
            = (count.flag \/ (timerRegs.run /\ TimaCount(count, timerRegs, n) >= Top))
      BY <2>1, <2>3, AdvancedFields
    <3>. QED
      BY <2>4, <2>5, <2>6, <3>1, Zenon
  <2>8. n <= UntilOverflow - 1
    <3>1. IdleTime(max) \in Nat /\ UntilOverflow \in Nat /\ max \in Nat
      BY IdleTimes, TimersAssumption DEF TimersAssumption
    <3>2. IdleTime(max) <= UntilOverflow
      BY <2>7, <3>1 DEF IdleTime
    <3>. QED
      BY <3>1, <3>2 DEF n
  <2>9. TimaCount(count, timerRegs, n) \in Nat /\ TimaCount(count, timerRegs, n) < Top
    BY <2>1, <2>3, <2>8, NoOverflowYet, Zenon DEF UntilOverflow
  <2>10. Top \in Nat
    BY TimersAssumption DEF TimersAssumption
  <2>. QED
    BY <2>7, <2>9, <2>10
<1>. QED
  BY <1>1, TimersBegin, TimersSteps, PTL DEF TimersSpec
-----------------------------------------------------------------------------
\* What a game has set is what the clock shows, for as long as it is remembered.
Remembered ==
  \/ wrote = NoWrite
  \/ wrote = [reg |-> "seconds", value |-> s]
  \/ wrote = [reg |-> "minutes", value |-> m]
  \/ wrote = [reg |-> "hours", value |-> h]
  \/ wrote = [reg |-> "days", value |-> d % Low]
  \/ wrote = [reg |-> "control", value |-> Control(d, stop, carry)]

Registers == [seconds : Nat, minutes : Nat, hours : Nat, days : 0 .. Low - 1,
              control : [high : Nat, stop : BOOLEAN, carry : BOOLEAN]]

ClockTypeOK ==
  /\ t \in 0 .. Frames - 1 /\ s \in 0 .. Seconds - 1
  /\ m \in 0 .. Minutes - 1 /\ h \in 0 .. Hours - 1
  /\ d \in Nat

RtcInv ==
  /\ ClockTypeOK
  /\ stop \in BOOLEAN /\ carry \in BOOLEAN /\ latch \in BOOLEAN
  /\ regs \in Registers
  /\ game \in Games \cup {NoGame}
  /\ Remembered

\* The counters have at least one value.
LEMMA Sizes ==
  /\ Frames \in Nat \ {0} /\ Seconds \in Nat \ {0} /\ Minutes \in Nat \ {0}
  /\ Hours \in Nat \ {0} /\ Low \in Nat \ {0} /\ Year \in Nat \ {0}
  /\ HighBit \in Nat \ {0} /\ Low < HighBit
  /\ \A b \in Bytes : b \in Nat
BY RtcAssumption DEF RtcAssumption, HighBit

\* The clock at power-on.
LEMMA RtcBegins == RtcInit => RtcInv
<1>. SUFFICES ASSUME RtcInit PROVE RtcInv
  OBVIOUS
<1>1. ClockTypeOK
  BY Sizes DEF RtcInit, ClockTypeOK
<1>2. 0 \div HighBit \in Nat /\ 0 \in 0 .. Low - 1
  BY Sizes, Divided
<1>3. Control(0, FALSE, FALSE) \in [high : Nat, stop : BOOLEAN, carry : BOOLEAN]
  BY <1>2 DEF Control
<1>4. regs \in Registers
  BY <1>2, <1>3 DEF RtcInit, Registers
<1>. QED
  BY <1>1, <1>4 DEF RtcInit, RtcInv, Remembered

\* The days a game sets are the days it reads, but for the ninth bit.
LEMMA DaysSet ==
  ASSUME NEW b \in 0 .. Low - 1, NEW x \in {0, Low}
  PROVE  x + b \in Nat /\ (x + b) % Low = b
<1>1. PICK q \in {0, 1} : x = q * Low
  BY Sizes
<1>2. x + b = q * Low + b /\ q \in Nat /\ x + b \in Nat
  BY <1>1, Sizes
<1>. QED
  BY <1>2, Sizes, DividedOnce

\* The high bit a game sets is the high bit it reads; the low bits stay.
LEMMA HighSet ==
  ASSUME NEW x \in Nat, NEW high \in {0, 1}
  PROVE  /\ (x % Low) + high * HighBit \in Nat
         /\ ((x % Low) + high * HighBit) % Low = x % Low
         /\ ((x % Low) + high * HighBit) \div HighBit = high
<1>. DEFINE l == x % Low
            y == l + high * HighBit
<1>1. l \in 0 .. Low - 1
  BY Sizes, Divided
<1>. HIDE DEF l
<1>2. high * HighBit \in Nat /\ high * HighBit = (2 * high) * Low /\ 2 * high \in Nat
  BY Sizes DEF HighBit
<1>3. y \in Nat /\ y = (2 * high) * Low + l
  BY <1>1, <1>2, Sizes
<1>4. y % Low = l
  BY <1>1, <1>2, <1>3, Sizes, DividedOnce
<1>5. l \in 0 .. HighBit - 1 /\ high \in Nat /\ y = high * HighBit + l
  BY <1>1, <1>2, Sizes
<1>6. y \div HighBit = high
  BY <1>5, Sizes, DividedOnce
<1>. HIDE DEF y
<1>7. y \in Nat /\ y % Low = l /\ y \div HighBit = high
  BY <1>3, <1>4, <1>6
<1>. QED
  BY <1>7, Zenon DEF l, y

\* A write keeps the clock in its ranges and is remembered for what it is.
LEMMA SetSteps == RtcInv /\ Set => RtcInv'
<1>. SUFFICES ASSUME RtcInv, Set PROVE RtcInv'
  OBVIOUS
<1>0. ClockTypeOK /\ regs \in Registers /\ Remembered
  BY DEF RtcInv
<1>t. /\ stop \in BOOLEAN /\ carry \in BOOLEAN /\ latch \in BOOLEAN
      /\ game \in Games \cup {NoGame}
  BY DEF RtcInv
<1>1. ASSUME NEW b \in Bytes, SetSeconds(b) PROVE RtcInv'
  <2>1. b \in Nat /\ b % Seconds \in 0 .. Seconds - 1
    BY Sizes, Divided
  <2>2. ClockTypeOK'
    BY <1>0, <1>1, <2>1 DEF SetSeconds, ClockTypeOK
  <2>3. regs' \in Registers
    BY <1>0, <1>1, <2>1 DEF SetSeconds, Registers
  <2>4. Remembered'
    BY <1>1 DEF SetSeconds, Remember, Remembered
  <2>. QED
    BY <1>t, <1>1, <2>2, <2>3, <2>4 DEF SetSeconds, RtcInv
<1>2. ASSUME NEW b \in Bytes, SetMinutes(b) PROVE RtcInv'
  <2>1. b \in Nat /\ b % Minutes \in 0 .. Minutes - 1
    BY Sizes, Divided
  <2>2. ClockTypeOK'
    BY <1>0, <1>2, <2>1 DEF SetMinutes, ClockTypeOK
  <2>3. regs' \in Registers
    BY <1>0, <1>2, <2>1 DEF SetMinutes, Registers
  <2>4. Remembered'
    BY <1>2 DEF SetMinutes, Remember, Remembered
  <2>. QED
    BY <1>t, <1>2, <2>2, <2>3, <2>4 DEF SetMinutes, RtcInv
<1>3. ASSUME NEW b \in Bytes, SetHours(b) PROVE RtcInv'
  <2>1. b \in Nat /\ b % Hours \in 0 .. Hours - 1
    BY Sizes, Divided
  <2>2. ClockTypeOK'
    BY <1>0, <1>3, <2>1 DEF SetHours, ClockTypeOK
  <2>3. regs' \in Registers
    BY <1>0, <1>3, <2>1 DEF SetHours, Registers
  <2>4. Remembered'
    BY <1>3 DEF SetHours, Remember, Remembered
  <2>. QED
    BY <1>t, <1>3, <2>2, <2>3, <2>4 DEF SetHours, RtcInv
<1>4. ASSUME NEW b \in 0 .. Low - 1, SetDays(b) PROVE RtcInv'
  <2>. DEFINE x == IF (d \div Low) % 2 = 1 THEN Low ELSE 0
  <2>1. x \in {0, Low} /\ d' = x + b
    BY <1>4 DEF SetDays
  <2>2. d' \in Nat /\ d' % Low = b
    BY <2>1, DaysSet
  <2>3. ClockTypeOK'
    BY <1>0, <1>4, <2>2 DEF SetDays, ClockTypeOK
  <2>4. regs' \in Registers
    BY <1>0, <1>4 DEF SetDays, Registers
  <2>5. Remembered'
    <3>1. s' = s /\ m' = m /\ h' = h
      BY <1>4 DEF SetDays
    <3>2. CASE Remember("days", b)
      BY <2>2, <3>2 DEF Remember, Remembered
    <3>3. CASE Forget({"days", "control"})
      BY <1>0, <3>1, <3>3 DEF Forget, Remembered, NoWrite
    <3>. QED
      BY <1>4, <3>2, <3>3 DEF SetDays
  <2>. QED
    BY <1>t, <1>4, <2>3, <2>4, <2>5 DEF SetDays, RtcInv
<1>5. ASSUME NEW high \in {0, 1}, NEW st \in BOOLEAN, NEW ca \in BOOLEAN, SetControl(high, st, ca)
      PROVE  RtcInv'
  <2>1. d \in Nat /\ d' = (d % Low) + high * HighBit
    BY <1>0, <1>5 DEF SetControl, ClockTypeOK
  <2>2. d' \in Nat /\ d' % Low = d % Low /\ d' \div HighBit = high
    BY <2>1, HighSet
  <2>3. ClockTypeOK'
    BY <1>0, <1>5, <2>2 DEF SetControl, ClockTypeOK
  <2>a. regs'.control = [high |-> high, stop |-> st, carry |-> ca]
    BY <1>0, <1>5 DEF SetControl, Registers
  <2>4. regs' \in Registers
    BY <1>0, <1>5 DEF SetControl, Registers
  <2>5. Remembered'
    <3>1. s' = s /\ m' = m /\ h' = h
      BY <1>5 DEF SetControl
    <3>2. CASE Remember("control", regs'.control)
      <4>1. Control(d', stop', carry') = regs'.control
        BY <1>5, <2>2, <2>a DEF Control, SetControl
      <4>2. wrote' = [reg |-> "control", value |-> Control(d', stop', carry')]
        BY <3>2, <4>1 DEF Remember
      <4>. QED
        BY <4>2 DEF Remembered
    <3>3. CASE Forget({"control"})
      BY <1>0, <2>2, <3>1, <3>3 DEF Forget, Remembered, NoWrite
    <3>. QED
      BY <1>5, <3>2, <3>3 DEF SetControl
  <2>. QED
    BY <1>t, <1>5, <2>3, <2>4, <2>5 DEF SetControl, RtcInv
<1>. QED
  BY <1>1, <1>2, <1>3, <1>4, <1>5 DEF Set

\* The ranges of the nested counters.
LEMMA TickTypes == RtcInv /\ rtc_tick => ClockTypeOK'
BY Sizes DEF RtcInv, ClockTypeOK, rtc_tick

\* Every operation on the clock keeps what is known of it.
LEMMA RtcSteps == RtcInv /\ [RtcNext]_rtcVars => RtcInv'
<1>. SUFFICES ASSUME RtcInv, [RtcNext]_rtcVars PROVE RtcInv'
  OBVIOUS
<1>1. CASE rtc_tick
  <2>1. ClockTypeOK'
    BY <1>1, TickTypes
  <2>2. carry' \in BOOLEAN /\ wrote' = NoWrite
    BY <1>1 DEF rtc_tick, RtcInv
  <2>. QED
    BY <1>1, <2>1, <2>2 DEF rtc_tick, RtcInv, Remembered
<1>2. ASSUME NEW b \in BOOLEAN, Latch(b) PROVE RtcInv'
  <2>1. d % Low \in 0 .. Low - 1 /\ d \div HighBit \in Nat
    BY Sizes, Divided DEF RtcInv, ClockTypeOK
  <2>2. Latched \in Registers
    BY <2>1 DEF Latched, Registers, Control, RtcInv, ClockTypeOK
  <2>3. regs' \in Registers
    BY <1>2, <2>2 DEF Latch, RtcInv
  <2>. QED
    BY <1>2, <2>3 DEF Latch, time, RtcInv, ClockTypeOK, Remembered, Control
<1>3. ASSUME NEW g \in Games, StartGame(g) PROVE RtcInv'
  BY <1>3 DEF StartGame, time, RtcInv, ClockTypeOK, Remembered, Control
<1>4. CASE LeaveGame
  BY <1>4 DEF LeaveGame, time, RtcInv, ClockTypeOK, Remembered, Control
<1>5. CASE SwitchOff
  <2>1. 0 \div HighBit \in Nat /\ 0 \in 0 .. Low - 1
    BY Sizes, Divided
  <2>2. ClockTypeOK'
    BY <1>5, Sizes DEF SwitchOff, Zero, ClockTypeOK
  <2>3. Control(0, FALSE, FALSE) \in [high : Nat, stop : BOOLEAN, carry : BOOLEAN]
    BY <2>1 DEF Control
  <2>4. regs' \in Registers
    BY <1>5, <2>1, <2>3 DEF SwitchOff, Zero, Registers
  <2>. QED
    BY <1>5, <2>2, <2>4 DEF SwitchOff, Zero, RtcInv, Remembered
<1>6. CASE UNCHANGED rtcVars
  BY <1>6 DEF rtcVars, time, RtcInv, ClockTypeOK, Remembered, Control
<1>. QED
  BY <1>1, <1>2, <1>3, <1>4, <1>5, <1>6, SetSteps DEF RtcNext

\* Two nested counters: the inner one starts over and moves the outer one on.
LEMMA Carried ==
  ASSUME NEW B \in Nat \ {0}, NEW x \in Nat, NEW b \in 0 .. B - 1
  PROVE  /\ b + 1 = B => (x + 1) * B + 0 = (x * B + b) + 1
         /\ x * B + (b + 1) = (x * B + b) + 1
         /\ x * B + b \in Nat
<1>1. x * B \in Nat /\ (x + 1) * B = x * B + B
  OBVIOUS
<1>. QED
  BY <1>1

\* A frame that is not stopped moves the clock by one frame.
LEMMA TickCounts == RtcInv => TicksAreFrames
<1>. SUFFICES ASSUME RtcInv, rtc_tick, d < Year
              PROVE  \/ Elapsed' = Elapsed + 1 /\ carry' = carry
                     \/ Elapsed' = 0 /\ Elapsed + 1 = Year * FramesPerDay /\ carry'
  BY DEF TicksAreFrames
<1>. DEFINE E0 == d * Hours + h
            E1 == E0 * Minutes + m
            E2 == E1 * Seconds + s
            E3 == E2 * Frames + t
<1>0. ClockTypeOK /\ carry \in BOOLEAN
  BY DEF RtcInv
<1>1. /\ d \in Nat /\ E0 \in Nat /\ E1 \in Nat /\ E2 \in Nat
  <2>1. d \in Nat /\ E0 \in Nat
    BY <1>0, Sizes, Carried DEF ClockTypeOK
  <2>. HIDE DEF E0
  <2>2. E1 \in Nat
    BY <1>0, <2>1, Sizes, Carried DEF ClockTypeOK
  <2>. HIDE DEF E1
  <2>3. E2 \in Nat
    BY <1>0, <2>2, Sizes, Carried DEF ClockTypeOK
  <2>. QED
    BY <2>1, <2>2, <2>3
<1>2. Elapsed = E3 /\ Elapsed' = E3'
  BY DEF Elapsed
<1>. DEFINE sec  == t + 1 = Frames
            min  == sec /\ s + 1 = Seconds
            hour == min /\ m + 1 = Minutes
            day  == hour /\ h + 1 = Hours
            year == day /\ d + 1 = Year
<1>3. /\ t' = IF sec THEN 0 ELSE t + 1
      /\ s' = IF min THEN 0 ELSE IF sec THEN s + 1 ELSE s
      /\ m' = IF hour THEN 0 ELSE IF min THEN m + 1 ELSE m
      /\ h' = IF day THEN 0 ELSE IF hour THEN h + 1 ELSE h
      /\ d' = IF year THEN 0 ELSE IF day THEN d + 1 ELSE d
      /\ carry' = (carry \/ year)
  BY DEF rtc_tick
<1>4. /\ t \in 0 .. Frames - 1 /\ s \in 0 .. Seconds - 1 /\ m \in 0 .. Minutes - 1
      /\ h \in 0 .. Hours - 1
  BY <1>0 DEF ClockTypeOK
<1>c. \A B \in Nat \ {0} : \A x \in Nat : \A b \in 0 .. B - 1 :
        /\ b + 1 = B => (x + 1) * B + 0 = (x * B + b) + 1
        /\ x * B + (b + 1) = (x * B + b) + 1
  BY Carried
<1>5. /\ h + 1 = Hours => (d + 1) * Hours + 0 = E0 + 1
      /\ d * Hours + (h + 1) = E0 + 1
  BY <1>1, <1>4, <1>c, Sizes, Zenon
<1>6. /\ m + 1 = Minutes => (E0 + 1) * Minutes + 0 = E1 + 1
      /\ E0 * Minutes + (m + 1) = E1 + 1
  BY <1>1, <1>4, <1>c, Sizes, Zenon
<1>7. /\ s + 1 = Seconds => (E1 + 1) * Seconds + 0 = E2 + 1
      /\ E1 * Seconds + (s + 1) = E2 + 1
  BY <1>1, <1>4, <1>c, Sizes, Zenon
<1>8. /\ t + 1 = Frames => (E2 + 1) * Frames + 0 = E3 + 1
      /\ E2 * Frames + (t + 1) = E3 + 1
  BY <1>1, <1>4, <1>c, Sizes, Zenon
<1>9. CASE year
  <2>1. d' = 0 /\ h' = 0 /\ m' = 0 /\ s' = 0 /\ t' = 0 /\ carry'
    BY <1>3, <1>9
  <2>2. E3' = (((0 * Hours + 0) * Minutes + 0) * Seconds + 0) * Frames + 0
    BY <2>1, Zenon
  <2>3. E3' = 0
    <3>1. \A x \in Nat : 0 * x + 0 = 0
      OBVIOUS
    <3>. QED
      BY <2>2, <3>1, Sizes
  <2>4. E3 + 1 = (((Year * Hours + 0) * Minutes + 0) * Seconds + 0) * Frames + 0
    BY <1>5, <1>6, <1>7, <1>8, <1>9
  <2>5. (((Year * Hours + 0) * Minutes + 0) * Seconds + 0) * Frames + 0 = Year * FramesPerDay
    BY Sizes DEF FramesPerDay
  <2>. QED
    BY <1>2, <2>1, <2>3, <2>4, <2>5, Zenon
<1>10. CASE ~ year
  <2>1. carry' = carry
    BY <1>0, <1>3, <1>10
  <2>2. E0' = IF hour THEN E0 + 1 ELSE E0
    <3>1. CASE ~ hour
      BY <1>3, <3>1
    <3>2. CASE hour /\ ~ day
      <4>1. d' = d /\ h' = h + 1
        BY <1>3, <3>2
      <4>. QED
        BY <1>5, <3>2, <4>1
    <3>3. CASE day
      <4>1. d' = d + 1 /\ h' = 0
        BY <1>3, <1>10, <3>3
      <4>2. E0' = (d + 1) * Hours + 0
        BY <4>1, Zenon
      <4>. QED
        BY <1>5, <3>3, <4>2
    <3>. QED
      BY <3>1, <3>2, <3>3
  <2>. HIDE DEF E0
  <2>3. E1' = IF min THEN E1 + 1 ELSE E1
    <3>1. CASE ~ min
      BY <1>3, <2>2, <3>1
    <3>2. CASE min /\ ~ hour
      <4>1. E0' = E0 /\ m' = m + 1
        BY <1>3, <2>2, <3>2
      <4>. QED
        BY <1>6, <3>2, <4>1
    <3>3. CASE hour
      <4>1. E0' = E0 + 1 /\ m' = 0
        BY <1>3, <2>2, <3>3
      <4>2. E1' = (E0 + 1) * Minutes + 0
        BY <4>1, Zenon
      <4>. QED
        BY <1>6, <3>3, <4>2
    <3>. QED
      BY <3>1, <3>2, <3>3
  <2>. HIDE DEF E1, hour
  <2>4. E2' = IF sec THEN E2 + 1 ELSE E2
    <3>1. CASE ~ sec
      BY <1>3, <2>3, <3>1
    <3>2. CASE sec /\ ~ min
      <4>1. E1' = E1 /\ s' = s + 1
        BY <1>3, <2>3, <3>2
      <4>. QED
        BY <1>7, <3>2, <4>1
    <3>3. CASE min
      <4>1. E1' = E1 + 1 /\ s' = 0
        BY <1>3, <2>3, <3>3
      <4>2. E2' = (E1 + 1) * Seconds + 0
        BY <4>1, Zenon
      <4>. QED
        BY <1>7, <3>3, <4>2
    <3>. QED
      BY <3>1, <3>2, <3>3
  <2>. HIDE DEF E2, min
  <2>5. E3' = E3 + 1
    <3>1. CASE ~ sec
      <4>1. E2' = E2 /\ t' = t + 1
        BY <1>3, <2>4, <3>1
      <4>. QED
        BY <1>8, <4>1
    <3>2. CASE sec
      <4>1. E2' = E2 + 1 /\ t' = 0
        BY <1>3, <2>4, <3>2
      <4>2. E3' = (E2 + 1) * Frames + 0
        BY <4>1, Zenon
      <4>. QED
        BY <1>8, <3>2, <4>2
    <3>. QED
      BY <3>1, <3>2
  <2>. QED
    BY <1>2, <2>1, <2>5, Zenon
<1>. QED
  BY <1>9, <1>10

\* What is latched while nothing moves is what was set.
LEMMA LatchShows == RtcInv /\ [RtcNext]_rtcVars => SetIsRead
<1>. SUFFICES ASSUME RtcInv, [RtcNext]_rtcVars, ~ latch, latch', wrote.reg # "none",
                     UNCHANGED <<time, stop>>
              PROVE  regs'[wrote.reg] = wrote.value
  BY DEF SetIsRead
<1>1. regs' = Latched
  <2>1. PICK b \in BOOLEAN : Latch(b)
    BY DEF RtcNext, rtcVars, Set, SetSeconds, SetMinutes, SetHours, SetDays, SetControl, rtc_tick,
           StartGame, LeaveGame, SwitchOff, Zero
  <2>. QED
    BY <2>1 DEF Latch
<1>2. Remembered /\ wrote # NoWrite
  BY DEF RtcInv, NoWrite
<1>. QED
  BY <1>1, <1>2 DEF Remembered, Latched

\* The clock of a cartridge keeps its time within its ranges and counts frames
\* across every boundary (rtc_tick), and what a game has set and then latches it
\* reads (rtc_write, rtc_latch), whatever it set before and in whatever order.
THEOREM ClockKeepsTime == RtcSpec => KeepsTime
<1>1. RtcInv => RtcTypeOK
  BY DEF RtcInv, RtcTypeOK, ClockTypeOK, Registers
<1>2. RtcSpec => []RtcInv
  BY RtcBegins, RtcSteps, PTL DEF RtcSpec
<1>3. RtcInv /\ [RtcNext]_rtcVars => [TicksAreFrames /\ SetIsRead]_rtcVars
  BY TickCounts, LatchShows
<1>. QED
  BY <1>1, <1>2, <1>3, PTL DEF RtcSpec, KeepsTime
-----------------------------------------------------------------------------
\* What the counters hold between any two accesses.
Counted ==
  /\ pc \in {"frame", "compare", "copy", "poll", "blank"} =>
       rest_frames + drop_frames + lost = due
  /\ pc = "decrement" => drop_frames = 0 /\ read + lost = due
  /\ pc \in {"compare", "copy"} => drop_frames = 0
  /\ pc = "copy" => rest_frames > 0
  /\ pc = "clear" => drop_frames + lost = due

CountTypeOK ==
  /\ rest_frames \in Int /\ due \in Int /\ read \in Int
  /\ drop_frames \in Nat /\ lost \in Nat

CountInv == CountTypeOK /\ Counted

\* The counters at the start.
LEMMA CountBegins == PacingInit => CountInv
BY DEF PacingInit, CountInv, CountTypeOK, Counted, Cleared

\* A tick is counted, or known to be lost.
LEMMA TickSteps == CountInv /\ timer_handler => CountInv'
BY DEF CountInv, CountTypeOK, Counted, timer_handler, Overwritten

\* Every step of the main program keeps the count.
LEMMA MainSteps == CountInv /\ Main => CountInv'
<1>. SUFFICES ASSUME CountInv, Main PROVE CountInv'
  OBVIOUS
<1>. USE DEF CountInv, CountTypeOK, Counted, counts
<1>1. CASE Emulate
  BY <1>1 DEF Emulate
<1>2. CASE EndNoSkip
  BY <1>2 DEF EndNoSkip, VidEnd
<1>3. CASE EndDrop
  BY <1>3 DEF EndDrop, VidEnd
<1>4. CASE EndCount
  BY <1>4 DEF EndCount, VidEnd
<1>5. CASE Decrement
  BY <1>5 DEF Decrement
<1>6. CASE Compare
  BY <1>6 DEF Compare
<1>7. CASE Copy
  BY <1>7 DEF Copy
<1>8. CASE Clear
  BY <1>8 DEF Clear
<1>9. CASE Poll
  BY <1>9 DEF Poll
<1>10. ASSUME NEW setting \in Settings, SetFrameskip(setting) \/ Menu(setting) PROVE CountInv'
  BY <1>10 DEF SetFrameskip, Menu, clear_rest_frames, Cleared
<1>11. CASE NextFrame
  BY <1>11 DEF NextFrame, clear_rest_frames, Cleared
<1>. QED
  BY <1>1, <1>2, <1>3, <1>4, <1>5, <1>6, <1>7, <1>8, <1>9, <1>10, <1>11 DEF Main, End

\* The count is inductive.
LEMMA CountSteps == CountInv /\ [PacingNext]_pacingVars => CountInv'
<1>. SUFFICES ASSUME CountInv, [PacingNext]_pacingVars PROVE CountInv'
  OBVIOUS
<1>1. CASE Tick \/ TickIgnored
  BY <1>1, TickSteps DEF Tick, TickIgnored
<1>2. CASE UNCHANGED pacingVars
  BY <1>2 DEF pacingVars, counts, CountInv, CountTypeOK, Counted
<1>. QED
  BY <1>1, <1>2, MainSteps DEF PacingNext

\* Wherever the timer interrupt comes, what it counts is either still due, to be
\* dropped, or one of the ticks that vid_end is known to overwrite.
THEOREM TicksAreAccounted == PacingSpec => []Accounted
<1>1. CountInv => Accounted
  BY DEF CountInv, Counted, Accounted
<1>. QED
  BY <1>1, CountBegins, CountSteps, PTL DEF PacingSpec
-----------------------------------------------------------------------------
(* The pace. *)

\* The timer is the setting, but for a game loop that is about to set it anew.
TimerSet ==
  /\ interrupt_game_loop => pc = "blank"
  /\ ~ interrupt_game_loop => timer = frameskip_rate

\* The picture is not dropped while vid_end counts.
Counting ==
  /\ pc \in {"decrement", "compare", "copy", "clear"} => enabled /\ timer # NoSkip
  /\ pc \in {"decrement", "compare", "copy"} => drop_frames = 0
  /\ pc = "copy" => rest_frames > 0
  /\ pc = "clear" => drop_frames > 0

\* The frames that are due, in the counter as vid_end will leave it.
Rest ==
  IF pc = "decrement" THEN read - 1 ELSE IF pc = "clear" THEN 0 ELSE rest_frames

\* The time that frames are due for, ticks lost included.
Credit == timer * (Rest + lost) + clock

Shows == enabled /\ drop_frames = 0

\* A frame that is drawn takes at least as long as it is due for, so that the
\* time frames are due for is used up only by what has been emulated.
Paced ==
  /\ Rest + lost >= 0
  /\ pc \in {"decrement", "compare", "copy"} => Credit >= 1
  /\ pc \in {"poll", "blank"} =>
       /\ Shows => Credit >= 1
       /\ ~ enabled => Credit >= timer
  /\ pc = "frame" =>
       /\ Shows => Credit >= 1
       /\ Credit + work >= timer
       /\ drop_frames = 0 => Credit + work > timer

\* The time the main program is behind: what the frames still due take and what
\* those take that are to be dropped, with the frame that is being emulated.
Coming ==
  IF pc = "frame" THEN work
  ELSE IF pc \in {"decrement", "compare", "copy"} THEN timer
  ELSE IF enabled THEN Slowest ELSE SlowestHidden

Behind == timer * Rest + clock + SlowestHidden * drop_frames + Coming

\* What a frame that is dropped catches up with.
Spare == timer - SlowestHidden

Caught ==
  /\ Spare * drop_frames <= Slowest + timer
  /\ pc # "clear" /\ ~ interrupt_game_loop => Spare * Behind <= timer * (Slowest + timer)

PaceInv == PacingTypeOK /\ TimerSet /\ Counting /\ (timer # NoSkip => Paced /\ Caught)

\* What is assumed of the console's speed, with the definitions expanded.
LEMMA Speeds ==
  /\ Slowest \in Nat /\ SlowestHidden \in Nat
  /\ \A slow \in Shown : slow \in Nat /\ slow <= Slowest
  /\ \A slow \in Hidden : slow \in Nat /\ slow >= 1 /\ slow <= SlowestHidden
  /\ MaxLost \in Nat
  /\ \A per \in Settings : per \in Nat
  /\ \A per \in Settings : per # NoSkip => SlowestHidden < per /\ \A slow \in Shown : per <= slow
  /\ NoSkip \in Settings
BY PacingAssumption, SpeedAssumption DEF PacingAssumption, SpeedAssumption, Settings, NoSkip
USE Speeds

\* The invariant of the pace at the start.
LEMMA PaceBegins == PacingInit => PaceInv
<1>. SUFFICES ASSUME PacingInit PROVE PaceInv
  OBVIOUS
<1>1. PacingTypeOK
  <2>1. clock \in 0 .. timer /\ lost \in 0 .. MaxLost
    BY DEF PacingInit, NoSkip
  <2>2. work \in 0 .. Slowest + SlowestHidden
    BY DEF PacingInit
  <2>. QED
    <3>1. rest_frames \in Int /\ due \in Int /\ read \in Int /\ drop_frames \in Nat
      BY DEF PacingInit, Cleared
    <3>2. frameskip_rate \in Settings /\ timer \in Settings
      BY DEF PacingInit
    <3>. QED
      BY <2>1, <2>2, <3>1, <3>2 DEF PacingInit, PacingTypeOK
<1>2. TimerSet
  BY DEF PacingInit, TimerSet
<1>3. Counting
  BY DEF PacingInit, Counting
<1>. QED
  BY <1>1, <1>2, <1>3 DEF PacingInit, PaceInv

\* A product that is greater than minus its first factor.
LEMMA Positive == \A per, x \in Int : per > 0 /\ per * x > - per => x >= 0
<1>. TAKE per, x \in Int
<1>1. SUFFICES ASSUME per > 0, x <= - 1 PROVE per * x <= - per
  OBVIOUS
<1>2. per * (- 1 - x) >= 0
  BY <1>1
<1>. QED
  BY <1>1, <1>2

\* The parts of the invariant that are not about time.
LEMMA PacingTypeSteps ==
  PaceInv /\ [PacingNext]_pacingVars => (PacingTypeOK /\ TimerSet /\ Counting)'
<1>. SUFFICES ASSUME PacingTypeOK, TimerSet, Counting, [PacingNext]_pacingVars
              PROVE (PacingTypeOK /\ TimerSet /\ Counting)'
  BY DEF PaceInv
<1>. USE DEF PacingTypeOK, TimerSet, Counting, counts
<1>1. CASE Emulate
  BY <1>1 DEF Emulate
<1>2. CASE EndNoSkip
  BY <1>2 DEF EndNoSkip, VidEnd
<1>3. CASE EndDrop
  <2>1. drop_frames' \in Nat /\ due' \in Int /\ pc' = "poll" /\ enabled' = FALSE
    BY <1>3 DEF EndDrop
  <2>. QED
    BY <1>3, <2>1 DEF EndDrop, VidEnd
<1>4. CASE EndCount
  BY <1>4 DEF EndCount, VidEnd
<1>5. CASE Decrement
  BY <1>5 DEF Decrement
<1>6. CASE Compare
  BY <1>6 DEF Compare
<1>7. CASE Copy
  BY <1>7 DEF Copy
<1>8. CASE Clear
  BY <1>8 DEF Clear
<1>9. CASE Poll
  BY <1>9 DEF Poll
<1>10. ASSUME NEW setting \in Settings, SetFrameskip(setting) PROVE (PacingTypeOK /\ TimerSet /\ Counting)'
  BY <1>10 DEF SetFrameskip
<1>11. ASSUME NEW setting \in Settings, Menu(setting) PROVE (PacingTypeOK /\ TimerSet /\ Counting)'
  BY <1>11 DEF Menu, clear_rest_frames, Cleared
<1>12. CASE NextFrame
  <2>1. work' \in Shown \cup Hidden
    BY <1>12 DEF NextFrame
  <2>2. work' \in 0 .. Slowest + SlowestHidden
    BY <2>1
  <2>3. CASE interrupt_game_loop
    <3>1. timer' = frameskip_rate /\ clock' = 0 /\ rest_frames' = 1 /\ drop_frames' = 0 /\ due' = 1
          /\ lost' = 0
      BY <1>12, <2>3 DEF NextFrame, clear_rest_frames, Cleared
    <3>2. clock' \in 0 .. timer' /\ lost' \in 0 .. MaxLost
      BY <3>1
    <3>3. PacingTypeOK'
      <4>1. rest_frames' \in Int /\ due' \in Int /\ read' \in Int /\ drop_frames' \in Nat
        BY <1>12, <3>1 DEF NextFrame
      <4>2. frameskip_rate' \in Settings /\ timer' \in Settings
        BY <1>12, <3>1 DEF NextFrame
      <4>. QED
        BY <1>12, <2>2, <3>2, <4>1, <4>2 DEF NextFrame
    <3>4. TimerSet' /\ Counting'
      BY <1>12, <3>1 DEF NextFrame
    <3>. QED
      BY <3>3, <3>4
  <2>4. CASE ~ interrupt_game_loop
    BY <1>12, <2>2, <2>4 DEF NextFrame
  <2>. QED
    BY <2>3, <2>4
<1>13. CASE Tick
  BY <1>13 DEF Tick, timer_handler, Overwritten
<1>14. CASE TickIgnored
  BY <1>14 DEF TickIgnored, timer_handler, Overwritten
<1>15. CASE UNCHANGED pacingVars
  BY <1>15 DEF pacingVars
<1>. QED
  BY <1>1, <1>2, <1>3, <1>4, <1>5, <1>6, <1>7, <1>8, <1>9, <1>10, <1>11, <1>12, <1>13, <1>14,
     <1>15 DEF PacingNext, Main, End

\* What is due, and what it is worth.
LEMMA PacedSteps ==
  ASSUME PaceInv, [PacingNext]_pacingVars, timer' # NoSkip
  PROVE  Paced'
<1>. USE DEF PaceInv, PacingTypeOK, TimerSet, Counting, counts, Rest, Shows, Paced, Credit
<1>0. timer' \in Nat /\ timer' > 0 /\ timer \in Nat /\ \A slow \in Shown : timer' <= slow
  BY PacingTypeSteps DEF NoSkip
<1>1. CASE Emulate
  BY <1>0, <1>1 DEF Emulate
<1>2. CASE EndNoSkip
  BY <1>0, <1>2 DEF EndNoSkip, VidEnd
<1>3. CASE EndDrop
  BY <1>0, <1>3 DEF EndDrop, VidEnd
<1>4. CASE EndCount
  BY <1>0, <1>4, Positive DEF EndCount, VidEnd
<1>5. CASE Decrement
  BY <1>0, <1>5 DEF Decrement
<1>6. CASE Compare
  BY <1>0, <1>6 DEF Compare
<1>7. CASE Copy
  BY <1>0, <1>7 DEF Copy
<1>8. CASE Clear
  BY <1>0, <1>8 DEF Clear
<1>9. CASE Poll
  BY <1>0, <1>9 DEF Poll
<1>10. ASSUME NEW setting \in Settings, SetFrameskip(setting) PROVE Paced'
  BY <1>0, <1>10 DEF SetFrameskip
<1>11. ASSUME NEW setting \in Settings, Menu(setting) PROVE Paced'
  <2>1. rest_frames' = 1 /\ lost' = 0 /\ drop_frames' = 0 /\ pc' = "blank" /\ timer' = timer
    BY <1>11 DEF Menu, clear_rest_frames, Cleared
  <2>2. clock' \in Nat
    BY <1>0, <1>11 DEF Menu
  <2>3. Rest' = 1
    BY <2>1
  <2>4. Credit' = timer + clock'
    BY <1>0, <2>1, <2>2, <2>3
  <2>. HIDE DEF Credit, Rest, PaceInv, Shows
  <2>5. Credit' >= 1 /\ Credit' >= timer'
    <3>0. timer \in Nat /\ timer > 0 /\ timer' = timer
      BY <1>0, <2>1
    <3>1. \A per, c \in Nat : per > 0 => per + c >= 1 /\ per + c >= per
      OBVIOUS
    <3>2. timer + clock' >= 1 /\ timer + clock' >= timer'
      BY <2>2, <3>0, <3>1, Zenon
    <3>. QED
      BY <2>4, <3>2
  <2>7. Rest' + lost' >= 0
    BY <2>1, <2>3
  <2>6. Rest' + lost' >= 0 /\ Credit' >= 1 /\ Credit' >= timer' /\ pc' = "blank"
    BY <2>1, <2>5, <2>7
  <2>. QED
    BY <2>6
<1>12. CASE NextFrame
  BY <1>0, <1>12 DEF NextFrame, clear_rest_frames, Cleared
<1>13. CASE Tick
  BY <1>0, <1>13 DEF Tick, timer_handler, Overwritten
<1>15. CASE UNCHANGED pacingVars
  BY <1>0, <1>15 DEF pacingVars
<1>. QED
  BY <1>1, <1>2, <1>3, <1>4, <1>5, <1>6, <1>7, <1>8, <1>9, <1>10, <1>11, <1>12, <1>13,
     <1>15 DEF PacingNext, Main, End, TickIgnored, timer_handler

-----------------------------------------------------------------------------
\* A bound on a product bounds the products with smaller factors.
LEMMA LessBehind ==
  \A a, x, y, b \in Int : a >= 0 /\ x <= y /\ a * y <= b => a * x <= b
<1>. SUFFICES ASSUME NEW a \in Int, NEW x \in Int, NEW y \in Int, a >= 0, x <= y PROVE a * x <= a * y
  OBVIOUS
<1>1. a * (y - x) >= 0
  OBVIOUS
<1>. QED
  BY <1>1

\* A frame's time behind, whether the frame was drawn or not, is within the bound.
LEMMA BehindByAFrame ==
  \A per, hid, slow, x \in Int : 0 <= hid /\ hid < per /\ slow >= 0 /\ (x <= slow \/ x <= hid) =>
    (per - hid) * (per + x) <= per * (slow + per)
<1>. SUFFICES ASSUME NEW per \in Int, NEW hid \in Int, NEW slow \in Int, NEW x \in Int,
                     0 <= hid, hid < per, slow >= 0, x <= slow \/ x <= hid
              PROVE  (per - hid) * (per + x) <= per * (slow + per)
  OBVIOUS
<1>1. CASE x <= slow
  <2>1. (per - hid) * (slow - x) >= 0
    BY <1>1
  <2>2. hid * (per + slow) >= 0
    OBVIOUS
  <2>. QED
    BY <2>1, <2>2
<1>2. CASE x <= hid
  <2>1. (per - hid) * (hid - x) >= 0
    BY <1>2
  <2>2. per * slow >= 0 /\ hid * hid >= 0
    OBVIOUS
  <2>. QED
    BY <2>1, <2>2
<1>. QED
  BY <1>1, <1>2

\* Where the time behind is within the bound, so are the frames dropped for it.
LEMMA DropsAreFew ==
  \A per, hid, slow, c, n \in Int : 0 <= hid /\ hid < per /\ c >= 0 /\
    (per - hid) * (per * n + c + per) <= per * (slow + per) =>
    (per - hid) * n <= slow + per
<1>. SUFFICES ASSUME NEW per \in Int, NEW hid \in Int, NEW slow \in Int, NEW c \in Int, NEW n \in Int,
                     0 <= hid, hid < per, c >= 0, (per - hid) * (per * n + c + per) <= per * (slow + per)
              PROVE  (per - hid) * n <= slow + per
  OBVIOUS
<1>1. (per - hid) * c >= 0
  OBVIOUS
<1>2. (per - hid) * per >= 0
  OBVIOUS
<1>3. per * ((per - hid) * n) <= per * (slow + per)
  BY <1>1, <1>2
<1>4. \A a, b \in Int : per * a <= per * b => a <= b
  <2>. SUFFICES ASSUME NEW a \in Int, NEW b \in Int, a > b PROVE per * a > per * b
    OBVIOUS
  <2>1. per * (a - b) > 0
    OBVIOUS
  <2>. QED
    BY <2>1
<1>5. (per - hid) * n \in Int
  OBVIOUS
<1>6. slow + per \in Int
  OBVIOUS
<1>. QED
  BY <1>3, <1>4, <1>5, <1>6, Zenon

\* Frames dropped within the bound leave the time behind within it.
LEMMA DropsCatchUp ==
  \A per, hid, slow, c, n \in Int : 0 <= hid /\ hid < per /\ c <= per /\ (per - hid) * n <= slow + per =>
    (per - hid) * (c + hid * n + slow) <= per * (slow + per)
<1>. SUFFICES ASSUME NEW per \in Int, NEW hid \in Int, NEW slow \in Int, NEW c \in Int, NEW n \in Int,
                     0 <= hid, hid < per, c <= per, (per - hid) * n <= slow + per
              PROVE  (per - hid) * (c + hid * n + slow) <= per * (slow + per)
  OBVIOUS
<1>1. (per - hid) * (per - c) >= 0
  OBVIOUS
<1>2. hid * (slow + per - (per - hid) * n) >= 0
  OBVIOUS
<1>. QED
  BY <1>1, <1>2

\* A step that puts the program no further behind keeps it within the bound.
LEMMA StaysCaught ==
  ASSUME timer \in Nat, timer' = timer, SlowestHidden < timer,
         drop_frames \in Nat, drop_frames' \in Nat, drop_frames' <= drop_frames,
         Behind \in Int, Behind' \in Int, Behind' <= Behind,
         pc # "clear" /\ ~ interrupt_game_loop,
         Caught
  PROVE  Caught'
<1>. DEFINE S == Spare
            B == timer * (Slowest + timer)
            C == Slowest + timer
<1>1. S \in Int /\ B \in Int /\ C \in Int /\ S >= 0
  BY DEF Spare
<1>2. Spare' = S /\ timer' * (Slowest + timer') = B /\ Slowest + timer' = C
  BY DEF Spare
<1>3. S * drop_frames <= C /\ S * Behind <= B
  BY DEF Caught
<1>. HIDE DEF S, B, C
<1>4. S * drop_frames' <= C
  <2>1. drop_frames \in Int /\ drop_frames' \in Int /\ drop_frames' <= drop_frames
    OBVIOUS
  <2>. QED
    <3>1. \A x, y \in Int : x <= y /\ S * y <= C => S * x <= C
      BY <1>1, LessBehind
    <3>. QED
      BY <1>3, <2>1, <3>1, Zenon
<1>5. S * Behind' <= B
  BY <1>1, <1>3, LessBehind, ZenonT(30)
<1>. QED
  BY <1>2, <1>4, <1>5 DEF Caught

\* The time behind is a number.
LEMMA BehindType == PacingTypeOK => Behind \in Int
BY DEF PacingTypeOK, Behind, Rest, Coming

\* No step puts the program behind by more than the slowest frame accounts for.
LEMMA CaughtSteps ==
  ASSUME PaceInv, [PacingNext]_pacingVars, timer' # NoSkip
  PROVE  Caught'
<1>. USE DEF PaceInv, counts
<1>a. PacingTypeOK /\ TimerSet /\ Counting /\ (timer # NoSkip => Caught)
  OBVIOUS
<1>b. PacingTypeOK'
  BY PacingTypeSteps
<1>0. /\ timer' \in Nat /\ timer \in Nat /\ timer' > 0 /\ SlowestHidden < timer'
      /\ timer # NoSkip => SlowestHidden < timer
  BY <1>a, <1>b DEF PacingTypeOK, NoSkip
<1>c. Behind \in Int /\ Behind' \in Int
  <2>1. PacingTypeOK' => Behind' \in Int
    BY DEF PacingTypeOK, Behind, Rest, Coming
  <2>. QED
    BY <1>a, <1>b, <2>1, BehindType
<1>d. drop_frames \in Nat /\ drop_frames' \in Nat
  BY <1>a, <1>b DEF PacingTypeOK
<1>e. ASSUME timer' = timer, drop_frames' <= drop_frames, Behind' <= Behind,
             pc # "clear", ~ interrupt_game_loop
      PROVE  Caught'
  BY <1>a, <1>0, <1>c, <1>d, <1>e, StaysCaught
<1>f. (timer' - SlowestHidden) * 0 <= Slowest + timer'
  <2>1. \A per \in Nat : (per - SlowestHidden) * 0 <= Slowest + per
    OBVIOUS
  <2>. QED
    BY <1>0, <2>1, Zenon
<1>. HIDE DEF PaceInv
<1>1. CASE Emulate
  <2>1. timer' = timer /\ drop_frames' = drop_frames /\ pc = "frame" /\ ~ interrupt_game_loop
    BY <1>a, <1>1 DEF Emulate, TimerSet, counts
  <2>2. Behind' = Behind
    BY <1>a, <1>0, <1>1, <2>1 DEF Emulate, Behind, Rest, Coming, PacingTypeOK, counts, NoSkip
  <2>. QED
    BY <1>c, <1>d, <1>e, <2>1, <2>2
<1>2. CASE EndNoSkip
  BY <1>a, <1>2 DEF EndNoSkip, VidEnd, TimerSet
<1>3. CASE EndDrop
  <2>1. timer' = timer /\ drop_frames' = drop_frames - 1 /\ pc = "frame" /\ ~ interrupt_game_loop
    BY <1>a, <1>3 DEF EndDrop, VidEnd, TimerSet
  <2>2. Behind' = Behind
    BY <1>a, <1>0, <1>3, <2>1 DEF EndDrop, VidEnd, Behind, Rest, Coming, PacingTypeOK
  <2>. QED
    BY <1>c, <1>d, <1>e, <2>1, <2>2
<1>4. CASE EndCount
  <2>1. timer' = timer /\ drop_frames' = drop_frames /\ pc = "frame" /\ ~ interrupt_game_loop
    BY <1>a, <1>4 DEF EndCount, VidEnd, TimerSet, counts
  <2>2. Behind' = Behind
    BY <1>a, <1>0, <1>4, <2>1 DEF EndCount, VidEnd, Behind, Rest, Coming, PacingTypeOK, counts
  <2>. QED
    BY <1>c, <1>d, <1>e, <2>1, <2>2
<1>5. CASE Decrement
  <2>1. timer' = timer /\ drop_frames' = drop_frames /\ pc = "decrement" /\ ~ interrupt_game_loop
    BY <1>a, <1>5 DEF Decrement, TimerSet
  <2>2. Behind' = Behind
    BY <1>a, <1>0, <1>5, <2>1 DEF Decrement, Behind, Rest, Coming, PacingTypeOK
  <2>. QED
    BY <1>c, <1>d, <1>e, <2>1, <2>2
<1>6. CASE Compare
  <2>1. timer' = timer /\ drop_frames' = 0 /\ drop_frames = 0 /\ pc = "compare" /\ ~ interrupt_game_loop
        /\ enabled' /\ timer # NoSkip /\ interrupt_game_loop' = interrupt_game_loop
    BY <1>a, <1>6 DEF Compare, TimerSet, Counting, counts
  <2>2. CASE rest_frames > 0
    <3>1. Behind' = Behind
      BY <1>a, <1>0, <1>6, <2>1, <2>2 DEF Compare, Behind, Rest, Coming, PacingTypeOK, counts
    <3>. QED
      BY <1>c, <1>d, <1>e, <2>1, <3>1
  <2>3. CASE rest_frames <= 0
    <3>1. Behind' = timer * rest_frames + clock + Slowest /\ timer * rest_frames <= 0
      BY <1>a, <1>0, <1>6, <2>1, <2>3 DEF Compare, Behind, Rest, Coming, PacingTypeOK, counts
    <3>2. Behind' <= timer + Slowest
      BY <1>a, <1>0, <3>1 DEF PacingTypeOK
    <3>3. (timer - SlowestHidden) * (timer + Slowest) <= timer * (Slowest + timer)
      BY <1>0, <2>1, BehindByAFrame
    <3>4. timer - SlowestHidden \in Int /\ timer - SlowestHidden >= 0 /\ timer + Slowest \in Int
          /\ timer * (Slowest + timer) \in Int
      BY <1>0, <2>1
    <3>5. (timer - SlowestHidden) * Behind' <= timer * (Slowest + timer)
      BY <1>c, <3>2, <3>3, <3>4, LessBehind
    <3>6. (timer - SlowestHidden) * 0 <= Slowest + timer
      BY <1>0, <3>4
    <3>. QED
      BY <2>1, <3>5, <3>6 DEF Caught, Spare
  <2>. QED
    BY <1>a, <2>2, <2>3 DEF PacingTypeOK
<1>7. CASE Copy
  <2>1. timer' = timer /\ drop_frames' = rest_frames /\ drop_frames = 0 /\ pc = "copy" /\ pc' = "clear"
        /\ ~ interrupt_game_loop /\ timer # NoSkip
    BY <1>a, <1>7 DEF Copy, TimerSet, Counting
  <2>2. Behind = timer * rest_frames + clock + timer
    BY <1>a, <1>0, <2>1 DEF Behind, Rest, Coming, PacingTypeOK
  <2>3. (timer - SlowestHidden) * (timer * rest_frames + clock + timer) <= timer * (Slowest + timer)
    BY <1>a, <2>1, <2>2 DEF Caught, Spare
  <2>4. timer \in Int /\ clock \in Int /\ rest_frames \in Int /\ clock >= 0
    BY <1>a, <1>0 DEF PacingTypeOK
  <2>5. (timer - SlowestHidden) * rest_frames <= Slowest + timer
    BY <1>0, <2>1, <2>3, <2>4, DropsAreFew
  <2>. QED
    BY <2>1, <2>5 DEF Caught, Spare
<1>8. CASE Clear
  <2>1. timer' = timer /\ drop_frames' = drop_frames /\ enabled' /\ pc = "clear" /\ pc' = "poll"
        /\ timer # NoSkip /\ rest_frames' = 0 /\ clock' = clock
    BY <1>a, <1>8 DEF Clear, TimerSet, Counting
  <2>2. Behind' = clock + SlowestHidden * drop_frames + Slowest
    BY <1>a, <1>0, <2>1 DEF Behind, Rest, Coming, PacingTypeOK
  <2>3. clock \in Int /\ clock <= timer /\ drop_frames \in Int /\ timer \in Int
    BY <1>a, <1>0 DEF PacingTypeOK
  <2>4. (timer - SlowestHidden) * drop_frames <= Slowest + timer
    BY <1>a, <2>1 DEF Caught, Spare
  <2>5. (timer - SlowestHidden) * (clock + SlowestHidden * drop_frames + Slowest)
          <= timer * (Slowest + timer)
    BY <1>0, <2>1, <2>3, <2>4, DropsCatchUp
  <2>. QED
    BY <2>1, <2>2, <2>4, <2>5 DEF Caught, Spare
<1>9. CASE Poll
  <2>1. timer' = timer /\ drop_frames' = drop_frames /\ pc = "poll" /\ ~ interrupt_game_loop
    BY <1>a, <1>9 DEF Poll, TimerSet, counts
  <2>2. Behind' = Behind
    BY <1>a, <1>0, <1>9, <2>1 DEF Poll, Behind, Rest, Coming, PacingTypeOK, counts
  <2>. QED
    BY <1>c, <1>d, <1>e, <2>1, <2>2
<1>10. ASSUME NEW setting \in Settings, SetFrameskip(setting) PROVE Caught'
  <2>1. drop_frames' = drop_frames /\ timer' = timer /\ interrupt_game_loop'
    BY <1>10 DEF SetFrameskip, counts
  <2>2. Spare * drop_frames <= Slowest + timer
    BY <1>a, <2>1 DEF Caught
  <2>3. Spare' * drop_frames' <= Slowest + timer'
    BY <2>1, <2>2, Zenon DEF Spare
  <2>. QED
    BY <2>1, <2>3, Zenon DEF Caught
<1>11. ASSUME NEW setting \in Settings, Menu(setting) PROVE Caught'
  <2>1. drop_frames' = 0 /\ interrupt_game_loop'
    BY <1>11 DEF Menu, clear_rest_frames
  <2>. QED
    BY <1>0, <1>f, <2>1, Zenon DEF Caught, Spare
<1>12. CASE NextFrame
  <2>1. pc' = "frame" /\ pc = "blank" /\ work' \in (IF enabled THEN Shown ELSE Hidden)
    BY <1>12 DEF NextFrame
  <2>2. work' \in Nat /\ work' <= IF enabled THEN Slowest ELSE SlowestHidden
    BY <2>1
  <2>3. CASE interrupt_game_loop
    <3>1. rest_frames' = 1 /\ drop_frames' = 0 /\ clock' = 0
      BY <1>12, <2>3 DEF NextFrame, clear_rest_frames, Cleared
    <3>2. Behind' = timer' + work'
      BY <1>0, <2>1, <2>2, <3>1 DEF Behind, Rest, Coming
    <3>3. work' \in Int /\ (work' <= Slowest \/ work' <= SlowestHidden)
      BY <2>2
    <3>4. \A per \in Nat, w \in Int : SlowestHidden < per /\ (w <= Slowest \/ w <= SlowestHidden) =>
            (per - SlowestHidden) * (per + w) <= per * (Slowest + per)
      BY BehindByAFrame
    <3>5. (timer' - SlowestHidden) * (timer' + work') <= timer' * (Slowest + timer')
      BY <1>0, <3>3, <3>4, Zenon
    <3>. QED
      BY <1>f, <3>1, <3>2, <3>5 DEF Caught, Spare
  <2>4. CASE ~ interrupt_game_loop
    <3>1. timer' = timer /\ drop_frames' = drop_frames
      BY <1>12, <2>4 DEF NextFrame, counts
    <3>2. Rest' = Rest /\ clock' = clock
      BY <1>12, <2>1, <2>4 DEF NextFrame, counts, Rest
    <3>3. Coming' = work' /\ Coming = IF enabled THEN Slowest ELSE SlowestHidden
      BY <2>1 DEF Coming
    <3>4. Coming' <= Coming /\ Coming' \in Int /\ Coming \in Int
      BY <2>2, <3>3
    <3>5. timer * Rest + clock + SlowestHidden * drop_frames \in Int
      BY <1>a, <1>0 DEF Rest, PacingTypeOK
    <3>6. Behind' <= Behind
      BY <3>1, <3>2, <3>4, <3>5 DEF Behind
    <3>. QED
      BY <1>c, <1>d, <1>e, <2>1, <2>4, <3>1, <3>6
  <2>. QED
    BY <1>a, <2>3, <2>4
<1>13. CASE Tick
  <2>1. timer' = timer /\ drop_frames' = drop_frames /\ pc' = pc
        /\ interrupt_game_loop' = interrupt_game_loop /\ timer # NoSkip
        /\ clock = timer /\ clock' = 0 /\ rest_frames' = rest_frames + 1 /\ read' = read
        /\ enabled' = enabled /\ work' = work
    BY <1>13 DEF Tick, timer_handler
  <2>2. CASE pc # "clear" /\ ~ interrupt_game_loop
    <3>1. Coming' = Coming
      BY <2>1 DEF Coming
    <3>2. timer * (Rest') <= timer * Rest + timer /\ Rest \in Int /\ Rest' \in Int
      BY <1>a, <1>0, <2>1, <2>2 DEF Rest, PacingTypeOK
    <3>3. \A p, q, per, hid, c \in Int : q <= p + per => q + 0 + hid + c <= p + per + hid + c
      OBVIOUS
    <3>4. timer * Rest' \in Int /\ timer * Rest \in Int /\ timer \in Int /\ Coming \in Int
          /\ SlowestHidden * drop_frames \in Int
      BY <1>a, <1>0, <3>2 DEF Coming, PacingTypeOK
    <3>5. timer * Rest' + 0 + SlowestHidden * drop_frames + Coming
            <= timer * Rest + timer + SlowestHidden * drop_frames + Coming
      BY <3>2, <3>3, <3>4, Zenon
    <3>6. Behind' <= Behind
      BY <2>1, <3>1, <3>5, Zenon DEF Behind
    <3>. QED
      BY <1>c, <1>d, <1>e, <2>1, <2>2, <3>6
  <2>3. CASE pc = "clear" \/ interrupt_game_loop
    BY <1>a, <2>1, <2>3 DEF Caught, Spare
  <2>. QED
    BY <2>2, <2>3
<1>14. CASE UNCHANGED pacingVars
  BY <1>a, <1>14 DEF pacingVars, counts, Caught, Spare, Behind, Rest, Coming
<1>. QED
  BY <1>1, <1>2, <1>3, <1>4, <1>5, <1>6, <1>7, <1>8, <1>9, <1>10, <1>11, <1>12, <1>13,
     <1>14 DEF PacingNext, Main, End, TickIgnored, timer_handler

\* The invariant of the pace is inductive.
LEMMA PaceSteps == PaceInv /\ [PacingNext]_pacingVars => PaceInv'
<1>. SUFFICES ASSUME PaceInv, [PacingNext]_pacingVars PROVE PaceInv'
  OBVIOUS
<1>1. PacingTypeOK' /\ TimerSet' /\ Counting'
  BY PacingTypeSteps
<1>2. timer' # NoSkip => Paced' /\ Caught'
  BY PacedSteps, CaughtSteps
<1>. QED
  BY <1>1, <1>2, Zenon DEF PaceInv, NoSkip

\* It implies what is stated of the pace.
LEMMA PaceIsInPace == PaceInv => InPace
<1>. SUFFICES ASSUME PaceInv PROVE InPace
  OBVIOUS
<1>1. NeverAhead
  BY DEF PaceInv, NeverAhead, Paced, Rest
<1>2. CatchesUp
  <2>. SUFFICES ASSUME timer # NoSkip
                PROVE  drop_frames * (timer - SlowestHidden) <= Slowest + timer
    BY DEF CatchesUp
  <2>1. Spare * drop_frames <= Slowest + timer
    BY DEF PaceInv, Caught
  <2>2. timer \in Int /\ drop_frames \in Int
    BY DEF PaceInv, PacingTypeOK
  <2>. QED
    BY <2>1, <2>2 DEF Spare
<1>. QED
  BY <1>1, <1>2 DEF PaceInv, InPace

\* Whatever is set and however long frames take, the console does not run ahead
\* of the timer, and the frames it drops to catch up are never more than the
\* slowest frame accounts for (vid_end, dc.c).
THEOREM StaysInPace == PacingSpec => []InPace
<1>. QED
  BY PaceBegins, PaceSteps, PaceIsInPace, PTL DEF PacingSpec
=============================================================================
