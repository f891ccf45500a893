------------------------------ MODULE ItmProofs ------------------------------
(***************************************************************************)
(* Proofs about the interval timer: the clock does not drift, a match is   *)
(* raised once and not dropped, a match ahead has its host timer, and that *)
(* timer is not early.                                                     *)
(*                                                                         *)
(* CInv carries the first three for every width and rate.  The last two    *)
(* compare times, which signed differences do only within half the range   *)
(* of ITC; HInv adds where ITC, ITM and the last match lie on that horizon.*)
(***************************************************************************)
EXTENDS Itm, TLAPS

-----------------------------------------------------------------------------
(* Division with remainder.                                                *)

LEMMA DivMod ==
  ASSUME NEW a \in Int, NEW b \in Nat \ {0}
  PROVE  /\ a \div b \in Int
         /\ a % b \in 0 .. b - 1
         /\ a = b * (a \div b) + (a % b)
  OBVIOUS

LEMMA DivModUnique ==
  ASSUME NEW a \in Int, NEW b \in Nat \ {0}, NEW q \in Int, NEW r \in 0 .. b - 1,
         a = b * q + r
  PROVE  q = a \div b /\ r = a % b
  <1> DEFINE q1 == a \div b
             r1 == a % b
  <1>1. q1 \in Int /\ r1 \in 0 .. b - 1 /\ a = b * q1 + r1
    BY DivMod
  <1> HIDE DEF q1, r1
  <1>2. b * (q - q1) = r1 - r
    BY <1>1
  <1>3. ~(q - q1 >= 1)
    BY <1>1, <1>2
  <1>4. ~(q - q1 <= -1)
    BY <1>1, <1>2
  <1>5. q = q1
    BY <1>1, <1>3, <1>4
  <1>6. r = r1
    BY <1>1, <1>5
  <1> QED BY <1>5, <1>6 DEF q1, r1

LEMMA ShiftDivMod ==
  ASSUME NEW a \in Int, NEW c \in Int, NEW b \in Nat \ {0}
  PROVE  /\ (a + c) \div b = a \div b + ((a % b) + c) \div b
         /\ (a + c) % b = ((a % b) + c) % b
  <1> DEFINE q == a \div b
             r == a % b
             q1 == (r + c) \div b
             r1 == (r + c) % b
  <1>1. q \in Int /\ r \in 0 .. b - 1 /\ a = b * q + r
    BY DivMod
  <1> HIDE DEF q, r
  <1>2. q1 \in Int /\ r1 \in 0 .. b - 1 /\ r + c = b * q1 + r1
    <2>1. r + c \in Int
      BY <1>1
    <2> QED BY <2>1, DivMod, Zenon
  <1> HIDE DEF q1, r1
  <1>3. a + c = b * (q + q1) + r1
    BY <1>1, <1>2
  <1>4. q + q1 = (a + c) \div b /\ r1 = (a + c) % b
    <2>1. a + c \in Int /\ q + q1 \in Int
      BY <1>1, <1>2
    <2> QED BY <1>2, <1>3, <2>1, DivModUnique, SMTT(40)
  <1> QED BY <1>4 DEF q, r, q1, r1

LEMMA DivMonotone ==
  ASSUME NEW a \in Int, NEW c \in Int, NEW b \in Nat \ {0}, a <= c
  PROVE  a \div b <= c \div b
  <1> DEFINE q == a \div b
             q1 == c \div b
             r == a % b
             r1 == c % b
  <1>1. q \in Int /\ r \in 0 .. b - 1 /\ a = b * q + r
    BY DivMod
  <1>2. q1 \in Int /\ r1 \in 0 .. b - 1 /\ c = b * q1 + r1
    BY DivMod
  <1> HIDE DEF q, q1, r, r1
  <1>3. b * (q - q1) <= r1 - r
    BY <1>1, <1>2
  <1>4. ~(q - q1 >= 1)
    BY <1>1, <1>2, <1>3
  <1> QED BY <1>1, <1>2, <1>4 DEF q, q1

LEMMA ProductMonotone ==
  ASSUME NEW a \in Int, NEW c \in Int, NEW b \in Nat, a <= c
  PROVE  a * b <= c * b
  <1>1. (c - a) * b >= 0
    OBVIOUS
  <1> QED BY <1>1

-----------------------------------------------------------------------------
(* Words.                                                                  *)

LEMMA ModulusType ==
  Modulus \in Nat \ {0} /\ Modulus = 2 * Half /\ Half \in Nat \ {0}
  BY HalfAssumption DEF Modulus

LEMMA WordType ==
  ASSUME NEW x \in Int
  PROVE  Word(x) \in Words
  BY DivMod, ModulusType DEF Word, Words

\* A word is the representative of its class.
LEMMA WordIs ==
  ASSUME NEW x \in Int, NEW w \in Words, NEW k \in Int, x = Modulus * k + w
  PROVE  Word(x) = w
  BY DivModUnique, ModulusType, Zenon DEF Word, Words

LEMMA WordSum ==
  ASSUME NEW x \in Int, NEW y \in Int
  PROVE  Word(Word(x) + y) = Word(x + y)
  BY ShiftDivMod, ModulusType, Zenon DEF Word

LEMMA WordClass ==
  ASSUME NEW x \in Int
  PROVE  \E k \in Int : x = Modulus * k + Word(x)
  BY DivMod, ModulusType, Zenon DEF Word

LEMMA WordCongruent ==
  ASSUME NEW x \in Int, NEW y \in Int, NEW d \in Int, Word(x) = Word(y)
  PROVE  Word(x + d) = Word(y + d)
  BY WordSum, ZenonT(60)

\* The signed difference of two times is the distance between them.
LEMMA SignedIs ==
  ASSUME NEW a \in Int, NEW b \in Int, NEW k \in Int,
         NEW d \in -Half .. Half - 1, a - b = Modulus * k + d
  PROVE  Signed(a, b) = d
  <1> USE ModulusType
  <1>1. CASE d >= 0
    <2>1. Word(a - b) = d
      BY <1>1, WordIs DEF Words
    <2> QED BY <1>1, <2>1 DEF Signed
  <1>2. CASE d < 0
    <2> DEFINE x == a - b
               j == k - 1
               w == d + Modulus
    <2>1. x \in Int /\ j \in Int /\ w \in Words
      BY <1>2 DEF Words
    <2>2. x = Modulus * j + w
      <3>1. Modulus * (k - 1) = Modulus * k - Modulus
        OBVIOUS
      <3> QED BY <3>1
    <2> HIDE DEF x, j, w
    <2>3. Word(x) = w
      BY <2>1, <2>2, WordIs, Zenon
    <2>4. Word(a - b) = d + Modulus
      BY <2>3 DEF x, w
    <2> QED BY <1>2, <2>4 DEF Signed
  <1> QED BY <1>1, <1>2

LEMMA SignedType ==
  ASSUME NEW a \in Int, NEW b \in Int
  PROVE  /\ Signed(a, b) \in -Half .. Half - 1
         /\ \E k \in Int : a - b = Modulus * k + Signed(a, b)
  <1> DEFINE d == Word(a - b)
  <1> USE ModulusType
  <1>1. d \in Words
    BY WordType
  <1>2. PICK k \in Int : a - b = Modulus * k + d
    <2>1. a - b \in Int
      OBVIOUS
    <2> QED BY <2>1, WordClass, Zenon
  <1>3. Signed(a, b) = IF d >= Half THEN d - Modulus ELSE d
    BY DEF Signed
  <1> HIDE DEF d
  <1>4. a - b = Modulus * (k + 1) + (d - Modulus)
    <2>1. Modulus * (k + 1) = Modulus * k + Modulus
      OBVIOUS
    <2> QED BY <1>1, <1>2, <2>1 DEF Words
  <1>5. k + 1 \in Int
    OBVIOUS
  <1>6. CASE d >= Half
    <2>1. Signed(a, b) = d - Modulus
      BY <1>3, <1>6
    <2>2. d - Modulus \in -Half .. Half - 1
      BY <1>1, <1>6 DEF Words
    <2> QED BY <1>4, <1>5, <2>1, <2>2, Zenon
  <1>7. CASE ~(d >= Half)
    <2>1. Signed(a, b) = d
      BY <1>3, <1>7
    <2>2. d \in -Half .. Half - 1
      BY <1>1, <1>7 DEF Words
    <2> QED BY <1>2, <2>1, <2>2, Zenon
  <1> QED BY <1>6, <1>7, Zenon

\* Adding the difference brings the earlier time to the later one.
LEMMA SignedAdded ==
  ASSUME NEW a \in Int, NEW b \in Int
  PROVE  Signed(a, Word(b + Signed(a, b))) = 0
  <1> DEFINE d == Signed(a, b)
             w == Word(b + d)
  <1>0. d \in -Half .. Half - 1 /\ \E k \in Int : a - b = Modulus * k + d
    BY SignedType, Zenon
  <1> HIDE DEF d
  <1>1. d \in Int
    BY <1>0, ModulusType
  <1>2. PICK k \in Int : a - b = Modulus * k + d
    BY <1>0
  <1>3. w \in Int /\ \E j \in Int : b + d = Modulus * j + w
    <2>1. b + d \in Int
      BY <1>1
    <2>2. w \in Words /\ \E j \in Int : b + d = Modulus * j + w
      BY <2>1, WordType, WordClass, Zenon
    <2>3. w \in Int
      BY <2>2, ModulusType DEF Words
    <2> QED BY <2>2, <2>3, Zenon
  <1> HIDE DEF w
  <1>4. PICK j \in Int : b + d = Modulus * j + w
    BY <1>3
  <1>5. a - w = Modulus * (k + j) + 0
    <2>1. Modulus * (k + j) = Modulus * k + Modulus * j
      BY ModulusType
    <2> QED BY <1>1, <1>2, <1>3, <1>4, <2>1, ModulusType
  <1> DEFINE i == k + j
             z == 0
  <1>6. /\ i \in Int /\ w \in Int /\ z \in -Half .. Half - 1
        /\ a - w = Modulus * i + z
    BY <1>3, <1>5, ModulusType
  <1> HIDE DEF i, z
  <1>7. Signed(a, w) = z
    BY <1>6, SignedIs, Zenon
  <1> QED BY <1>7 DEF d, w, z

-----------------------------------------------------------------------------
(* The clock.                                                              *)

LEMMA PhaseType ==
  ASSUME NEW ns \in Int, NEW f \in Int
  PROVE  /\ Phase(ns, f) \in Int
         /\ Ticks(ns, f) \in Int
         /\ Phase(ns, f) % Second \in 0 .. Second - 1
         /\ Phase(ns, f) = Second * Ticks(ns, f) + (Phase(ns, f) % Second)
  <1>1. Phase(ns, f) \in Int
    BY RateAssumption DEF Phase
  <1> QED BY <1>1, DivMod, RateAssumption, Zenon DEF Ticks

LEMMA TicksNatural ==
  ASSUME NEW ns \in Nat, NEW f \in Nat
  PROVE  Ticks(ns, f) \in Nat
  <1> DEFINE p == Phase(ns, f)
             q == Ticks(ns, f)
             r == p % Second
  <1>1. p \in Int /\ p >= 0
    BY RateAssumption DEF Phase
  <1>2. q \in Int /\ r \in 0 .. Second - 1 /\ p = Second * q + r
    BY PhaseType
  <1> HIDE DEF p, q, r
  <1>3. ~(q <= -1)
    BY <1>1, <1>2, RateAssumption
  <1>4. q \in Nat
    BY <1>2, <1>3
  <1> QED BY <1>4 DEF q

\* The oscillator over two consecutive intervals.
LEMMA PhaseShift ==
  ASSUME NEW ns \in Int, NEW d \in Int, NEW f \in Int
  PROVE  /\ Ticks(ns + d, f) = Ticks(ns, f) + Ticks(d, Phase(ns, f) % Second)
         /\ Phase(ns + d, f) % Second = Phase(d, Phase(ns, f) % Second) % Second
  <1> DEFINE p == Phase(ns, f)
             c == d * Frequency
  <1>1. p \in Int /\ c \in Int
    BY RateAssumption DEF Phase
  <1>2. Phase(ns + d, f) = p + c
    <2>1. (ns + d) * Frequency = ns * Frequency + d * Frequency
      BY RateAssumption
    <2> QED BY <2>1, RateAssumption DEF Phase
  <1>3. Phase(d, p % Second) = (p % Second) + c
    BY <1>1, DivMod, RateAssumption DEF Phase
  <1>4. /\ (p + c) \div Second = p \div Second + ((p % Second) + c) \div Second
        /\ (p + c) % Second = ((p % Second) + c) % Second
    <2> HIDE DEF p, c
    <2> QED BY <1>1, ShiftDivMod, RateAssumption, Zenon
  <1> QED BY <1>2, <1>3, <1>4 DEF Ticks

\* The registers of the clock, and the rest of the timer state.
Same(x, y) ==
    /\ y.itm = x.itm /\ y.itv = x.itv /\ y.armed = x.armed
    /\ y.armedValue = x.armedValue /\ y.match = x.match /\ y.timer = x.timer
    /\ y.irr = x.irr /\ y.isr = x.isr

\* What ia64_itc_sync() does, told by the ticks of the interval.
Synced(x, y, t) ==
    /\ y.last = now
    /\ y.fraction = Phase(now - x.last, x.fraction) % Second
    /\ t = Ticks(now - x.last, x.fraction)
    /\ t <= x.debt => y.itc = x.itc /\ y.debt = x.debt - t
    /\ t > x.debt => y.itc = Word(x.itc + t - x.debt) /\ y.debt = 0

LEMMA SyncDoes ==
  ASSUME NEW x \in States, now \in Nat
  PROVE  /\ Sync(x) \in States
         /\ Same(x, Sync(x))
         /\ \E t \in Nat : Synced(x, Sync(x), t)
  <1> DEFINE t == Ticks(now - x.last, x.fraction)
             f == Phase(now - x.last, x.fraction) % Second
  <1>1. x.last \in 0 .. now /\ x.fraction \in 0 .. Second - 1 /\ x.debt \in Nat
        /\ x.itc \in Words
    BY DEF States
  <1>2. t \in Nat /\ f \in 0 .. Second - 1
    <2> DEFINE n == now - x.last
    <2>1. n \in Nat /\ n \in Int /\ x.fraction \in Nat /\ x.fraction \in Int
      BY <1>1
    <2> HIDE DEF n
    <2>2. Ticks(n, x.fraction) \in Nat
          /\ Phase(n, x.fraction) % Second \in 0 .. Second - 1
      BY <2>1, TicksNatural, PhaseType, Zenon
    <2> QED BY <2>2 DEF n
  <1>3. CASE now <= x.last
    <2>1. Sync(x) = x
      BY <1>3 DEF Sync
    <2>2. x.last = now /\ Phase(now - x.last, x.fraction) = x.fraction
      <3>1. x.last = now /\ now - x.last = 0
        BY <1>1, <1>3
      <3>2. 0 * Frequency + x.fraction = x.fraction
        BY <1>1, RateAssumption
      <3> QED BY <3>1, <3>2 DEF Phase
    <2>3. x.fraction = Second * 0 + x.fraction
      BY <1>1, RateAssumption
    <2>4. 0 = x.fraction \div Second /\ x.fraction = x.fraction % Second
      BY <1>1, <2>3, DivModUnique, RateAssumption
    <2>5. t = 0 /\ f = x.fraction
      BY <2>2, <2>4 DEF Ticks
    <2>6. Synced(x, x, t)
      BY <1>1, <2>2, <2>5 DEF Synced
    <2> QED BY <1>2, <2>1, <2>6 DEF Same
  <1>4. CASE ~(now <= x.last)
    <2> DEFINE i == IF t <= x.debt THEN x.itc ELSE Word(x.itc + t - x.debt)
               d == IF t <= x.debt THEN x.debt - t ELSE 0
               y == [x EXCEPT !.last = now, !.fraction = f, !.debt = d, !.itc = i]
    <2>1. Sync(x) = y
      BY <1>4 DEF Sync
    <2>2. i \in Words /\ d \in Nat
      <3>1. x.itc + t - x.debt \in Int
        BY <1>1, <1>2 DEF Words
      <3> QED BY <1>1, <1>2, <3>1, WordType
    <2>3. t <= x.debt => i = x.itc /\ d = x.debt - t
      OBVIOUS
    <2>4. t > x.debt => i = Word(x.itc + t - x.debt) /\ d = 0
      BY <1>1, <1>2
    <2> HIDE DEF i, d, t, f
    <2>5. y \in States
      <3>1. now \in 0 .. now
        OBVIOUS
      <3> QED BY <1>2, <2>2, <3>1, Zenon DEF States
    <2>6. y.last = now /\ y.fraction = f /\ y.debt = d /\ y.itc = i /\ Same(x, y)
      <3>1. y.last = now /\ y.fraction = f /\ y.debt = d /\ y.itc = i
        BY DEF States
      <3>2. Same(x, y)
        BY Zenon DEF States, Same
      <3> QED BY <3>1, <3>2
    <2> HIDE DEF y
    <2>7. Synced(x, y, t)
      BY <2>3, <2>4, <2>6 DEF Synced, t, f
    <2> QED BY <1>2, <2>1, <2>5, <2>6, <2>7
  <1> QED BY <1>3, <1>4

\* What ia64_itc_advance_pending_itm() adds to that.
Stepped(y, z) ==
    LET gap == Signed(y.match + 1, y.itc) IN
    /\ ~y.armed /\ y.match # NONE /\ InterruptActive(y) /\ gap > 0
    /\ z.itc = Word(y.itc + gap) /\ z.debt = y.debt + gap
    /\ z.last = y.last /\ z.fraction = y.fraction

LEMMA AdvanceDoes ==
  ASSUME NEW x \in States, now \in Nat
  PROVE  LET y == Sync(x)
             z == AdvancePending(x)
         IN  /\ z \in States /\ Same(x, z) /\ Same(y, z)
             /\ \/ z = y
                \/ Stepped(y, z)
  <1> DEFINE y == Sync(x)
             gap == Signed(y.match + 1, y.itc)
             z == AdvancePending(x)
             cond == ~y.armed /\ y.match # NONE /\ InterruptActive(y) /\ gap > 0
  <1>1. y \in States /\ Same(x, y)
    BY SyncDoes, Zenon
  <1>2. z = IF cond THEN [y EXCEPT !.itc = Word(@ + gap), !.debt = @ + gap] ELSE y
    BY DEF AdvancePending
  <1> HIDE DEF y, z
  <1>3. y.itc \in Int /\ y.debt \in Nat /\ (y.match # NONE => y.match + 1 \in Int)
    BY <1>1 DEF States, Words, NONE
  <1>4. CASE ~cond
    <2>1. z = y
      BY <1>2, <1>4
    <2> QED BY <1>1, <2>1 DEF Same, y, z
  <1>5. CASE cond
    <2>1. gap \in -Half .. Half - 1
      BY <1>3, <1>5, SignedType, Zenon
    <2> DEFINE i == Word(y.itc + gap)
               d == y.debt + gap
               r == [y EXCEPT !.itc = i, !.debt = d]
    <2>2. z = r
      BY <1>2, <1>5, <1>1 DEF States
    <2>3. i \in Words /\ d \in Nat
      <3>1. gap > 0 /\ gap \in Int
        BY <1>5, <2>1, HalfAssumption
      <3> HIDE DEF gap
      <3>2. y.itc + gap \in Int /\ d \in Nat
        BY <1>3, <3>1
      <3> QED BY <3>2, WordType
    <2> HIDE DEF i, d
    <2>4. r \in States
      BY <1>1, <2>3, Zenon DEF States
    <2>5. r.itc = i /\ r.debt = d /\ r.last = y.last /\ r.fraction = y.fraction
      BY <1>1 DEF States
    <2>6. Same(y, r)
      BY <1>1, Zenon DEF States, Same
    <2> HIDE DEF r
    <2>7. Stepped(y, r)
      BY <1>5, <2>5 DEF Stepped, i, d
    <2>8. Same(x, r)
      BY <1>1, <2>6 DEF Same
    <2> QED BY <2>2, <2>4, <2>6, <2>7, <2>8 DEF y, z
  <1> QED BY <1>4, <1>5

-----------------------------------------------------------------------------
(* The oscillator.                                                         *)

Origins(x) == [ns : 0 .. x.last, value : Words]

\* NoDrift, of any state and the last write of ITC.
Drift(x, o) ==
    /\ Word(x.itc - x.debt) = Word(o.value + Ticks(x.last - o.ns, 0))
    /\ x.fraction = Phase(x.last - o.ns, 0) % Second

LEMMA OscillatorRuns ==
  ASSUME NEW x \in States, NEW y \in States, NEW o \in Origins(x), NEW t \in Nat,
         now \in Nat, Synced(x, y, t), x.fraction = Phase(x.last - o.ns, 0) % Second
  PROVE  /\ Ticks(y.last - o.ns, 0) = Ticks(x.last - o.ns, 0) + t
         /\ y.fraction = Phase(y.last - o.ns, 0) % Second
         /\ Ticks(x.last - o.ns, 0) \in Nat
         /\ o \in Origins(y)
  <1> DEFINE a == x.last - o.ns
             b == now - x.last
  <1>1. a \in Nat /\ b \in Nat /\ a + b = now - o.ns
    BY DEF States, Origins
  <1>2. y.last = now
    BY DEF Synced
  <1>3. y.last - o.ns = a + b
    BY <1>1, <1>2
  <1>4. /\ Ticks(a + b, 0) = Ticks(a, 0) + Ticks(b, Phase(a, 0) % Second)
        /\ Phase(a + b, 0) % Second = Phase(b, Phase(a, 0) % Second) % Second
    <2>1. a \in Int /\ b \in Int /\ 0 \in Int
      BY <1>1
    <2> HIDE DEF a, b
    <2> QED BY <2>1, PhaseShift, Zenon
  <1>5. t = Ticks(b, x.fraction) /\ y.fraction = Phase(b, x.fraction) % Second
    BY DEF Synced
  <1>6. Ticks(a, 0) \in Nat
    <2>1. 0 \in Nat
      OBVIOUS
    <2> QED BY <1>1, <2>1, TicksNatural, Zenon
  <1>7. o \in Origins(y)
    BY <1>1, <1>2 DEF Origins, States
  <1> HIDE DEF b
  <1> QED BY <1>3, <1>4, <1>5, <1>6, <1>7

LEMMA SyncDrift ==
  ASSUME NEW x \in States, NEW o \in Origins(x), now \in Nat, Drift(x, o)
  PROVE  Drift(Sync(x), o) /\ o \in Origins(Sync(x))
  <1> DEFINE y == Sync(x)
             k == Ticks(x.last - o.ns, 0)
             k1 == Ticks(y.last - o.ns, 0)
  <1>1. y \in States /\ \E t \in Nat : Synced(x, y, t)
    BY SyncDoes, Zenon
  <1> HIDE DEF y
  <1>2. PICK t \in Nat : Synced(x, y, t)
    BY <1>1
  <1>3. /\ k1 = k + t /\ k \in Nat
        /\ y.fraction = Phase(y.last - o.ns, 0) % Second
        /\ o \in Origins(y)
    <2>1. x.fraction = Phase(x.last - o.ns, 0) % Second
      BY DEF Drift
    <2> QED BY <1>1, <1>2, <2>1, OscillatorRuns, ZenonT(60)
  <1>4. Word(x.itc - x.debt) = Word(o.value + k)
    BY DEF Drift
  <1> HIDE DEF k, k1
  <1>5. x.itc \in Int /\ x.debt \in Nat /\ y.itc \in Int /\ y.debt \in Nat
        /\ o.value \in Int
    BY <1>1 DEF States, Words, Origins
  <1>6. Word(y.itc - y.debt) = Word(x.itc - x.debt + t)
    <2>1. CASE t <= x.debt
      <3>1. y.itc - y.debt = x.itc - x.debt + t
        BY <1>2, <1>5, <2>1 DEF Synced
      <3> QED BY <3>1
    <2>2. CASE t > x.debt
      <3> DEFINE e == x.itc + t - x.debt
      <3>1. e \in Int /\ e = x.itc - x.debt + t
        BY <1>5
      <3>2. y.itc - y.debt = Word(e) + 0
        BY <1>2, <1>5, <2>2 DEF Synced
      <3>3. Word(Word(e) + 0) = Word(e + 0)
        <4> HIDE DEF e
        <4>1. 0 \in Int
          OBVIOUS
        <4> QED BY <3>1, <4>1, WordSum, Zenon
      <3>4. e + 0 = e
        BY <3>1
      <3> QED BY <3>1, <3>2, <3>3, <3>4
    <2> QED BY <1>5, <2>1, <2>2
  <1>7. Word(x.itc - x.debt + t) = Word(o.value + k + t)
    <2>1. x.itc - x.debt \in Int /\ o.value + k \in Int /\ t \in Int
      BY <1>3, <1>5
    <2> QED BY <1>4, <2>1, WordCongruent, Zenon
  <1>8. o.value + k + t = o.value + k1
    BY <1>3, <1>5
  <1>9. Word(y.itc - y.debt) = Word(o.value + k1)
    BY <1>6, <1>7, <1>8
  <1> QED BY <1>3, <1>9 DEF Drift, k1, y

LEMMA AdvanceDrift ==
  ASSUME NEW x \in States, NEW o \in Origins(x), now \in Nat, Drift(x, o)
  PROVE  Drift(AdvancePending(x), o) /\ o \in Origins(AdvancePending(x))
  <1> DEFINE y == Sync(x)
             z == AdvancePending(x)
             gap == Signed(y.match + 1, y.itc)
  <1>1. y \in States /\ Drift(y, o) /\ o \in Origins(y)
    BY SyncDoes, SyncDrift, Zenon
  <1>2. z = y \/ Stepped(y, z)
    BY AdvanceDoes, Zenon
  <1> HIDE DEF y, z
  <1>3. CASE z = y
    BY <1>1, <1>3 DEF y, z
  <1>4. CASE Stepped(y, z)
    <2>1. z.itc = Word(y.itc + gap) /\ z.debt = y.debt + gap /\ gap \in Int
          /\ z.last = y.last /\ z.fraction = y.fraction
      <3>1. y.match + 1 \in Int /\ y.itc \in Int
        BY <1>1, <1>4 DEF States, Words, NONE, Stepped
      <3>2. gap \in -Half .. Half - 1
        BY <3>1, SignedType, Zenon
      <3>3. gap \in Int
        BY <3>2, HalfAssumption
      <3> QED BY <1>4, <3>3 DEF Stepped
    <2> HIDE DEF gap
    <2>2. y.itc \in Int /\ y.debt \in Nat
      BY <1>1 DEF States, Words
    <2>3. Word(z.itc - z.debt) = Word(y.itc - y.debt)
      <3> DEFINE e == y.itc + gap
                 m == -(y.debt + gap)
      <3>1. e \in Int /\ m \in Int /\ e + m = y.itc - y.debt
        BY <2>1, <2>2
      <3>2. Word(Word(e) + m) = Word(e + m)
        <4> HIDE DEF e, m
        <4> QED BY <3>1, WordSum, Zenon
      <3>3. z.itc - z.debt = Word(e) + m
        <4>1. Word(e) \in Int
          BY <3>1, WordType DEF Words
        <4> QED BY <2>1, <2>2, <4>1
      <3> QED BY <3>1, <3>2, <3>3
    <2>4. Drift(z, o) /\ o \in Origins(z)
      BY <1>1, <2>1, <2>3 DEF Drift, Origins
    <2> QED BY <2>4 DEF z
  <1> QED BY <1>2, <1>3, <1>4

-----------------------------------------------------------------------------
(* Matching, arming and the callback's work.                               *)

SameClock(x, y) ==
    /\ y.itc = x.itc /\ y.last = x.last
    /\ y.fraction = x.fraction /\ y.debt = x.debt

\* A step that leaves the programming alone raises at most the match of ITM.
Matches(x, r) ==
    /\ r.itm = x.itm /\ r.itv = x.itv /\ r.isr = x.isr
    /\ \/ r.match = x.match /\ r.irr = x.irr
       \/ x.itv = "ON" /\ x.match # x.itm /\ r.match = x.itm /\ r.irr

LEMMA MatchesTransitive ==
  ASSUME NEW x, NEW y, NEW z, Matches(x, y), Matches(y, z)
  PROVE  Matches(x, z)
  BY DEF Matches

LEMMA SameMatches ==
  ASSUME NEW x, NEW y, Same(x, y)
  PROVE  Matches(x, y)
  BY DEF Same, Matches

LEMMA SettledStateDoes ==
  ASSUME NEW x \in States, NEW w \in BOOLEAN
  PROVE  LET r == SettledState(x, w) IN
         /\ r \in States /\ SameClock(x, r) /\ Matches(x, r)
         /\ r.armed = x.armed /\ r.armedValue = x.armedValue
         /\ r.timer = x.timer
         /\ x.itv = "ON" /\ w => r.match = x.itm
  <1> DEFINE r == SettledState(x, w)
             m == [x EXCEPT !.match = x.itm, !.irr = TRUE]
  <1>1. CASE r = x
    <2>1. x.itv = "ON" /\ w => x.match = x.itm
      <3>1. SUFFICES ASSUME x.itv = "ON", w, x.match # x.itm
                     PROVE  FALSE
        OBVIOUS
      <3>2. r = m
        BY <3>1 DEF SettledState, Raised
      <3>3. m.match = x.itm
        BY Zenon DEF States
      <3> QED BY <1>1, <3>1, <3>2, <3>3, Zenon
    <2> HIDE DEF r
    <2>2. r = x
      BY <1>1
    <2> QED BY <2>1, <2>2 DEF SameClock, Matches, r
  <1>2. CASE r # x
    <2>1. r = m /\ x.itv = "ON" /\ x.match # x.itm
      BY <1>2 DEF SettledState, Raised
    <2>2. m \in States
      BY Zenon DEF States
    <2>3. /\ m.match = x.itm /\ m.irr = TRUE /\ SameClock(x, m)
          /\ m.itm = x.itm /\ m.itv = x.itv /\ m.isr = x.isr
          /\ m.armed = x.armed /\ m.armedValue = x.armedValue
          /\ m.timer = x.timer
      BY Zenon DEF States, SameClock
    <2> HIDE DEF m, r
    <2> QED BY <2>1, <2>2, <2>3 DEF Matches, r
  <1> QED BY <1>1, <1>2

\* The host timer is late enough for the ticks it waits for.
LEMMA DelayEnough ==
  ASSUME NEW y \in States, NEW d \in Nat
  PROVE  /\ DelayNs(y, d) \in Nat
         /\ Ticks(DelayNs(y, d), y.fraction) >= d + y.debt
  <1> DEFINE n == d + y.debt
             e == (n * Second) \div Frequency
             g == (n * Second) % Frequency
             f == y.fraction
  <1>1. n \in Nat /\ f \in Nat
    BY RateAssumption DEF States
  <1>2. DelayNs(y, d) = IF Ticks(e, f) < n THEN e + 1 ELSE e
    BY DEF DelayNs
  <1> HIDE DEF n, f
  <1>3. n * Second \in Nat
    BY <1>1, RateAssumption
  <1>4. e \in Int /\ g \in 0 .. Frequency - 1 /\ n * Second = Frequency * e + g
    <2>1. n * Second \in Int
      BY <1>3
    <2> QED BY <2>1, DivMod, RateAssumption, Zenon
  <1> HIDE DEF e, g
  <1>5. e \in Nat
    <2>1. ~(e <= -1)
      BY <1>3, <1>4, RateAssumption
    <2> QED BY <1>4, <2>1
  <1>6. Ticks(e, f) \in Nat /\ Ticks(e + 1, f) \in Nat
    <2>1. e + 1 \in Nat
      BY <1>5
    <2> QED BY <1>1, <1>5, <2>1, TicksNatural, Zenon
  <1>7. Ticks(e + 1, f) >= n
    <2> DEFINE p == (e + 1) * Frequency + f
    <2>1. p \in Int
      BY <1>1, <1>5, RateAssumption
    <2>2. (e + 1) * Frequency = Frequency * e + Frequency
      BY <1>5, RateAssumption
    <2>3. n * Second <= p
      BY <1>1, <1>3, <1>4, <2>2, RateAssumption
    <2>4. (n * Second) \div Second <= p \div Second
      <3> HIDE DEF p
      <3>1. n * Second \in Int
        BY <1>3
      <3> QED BY <2>1, <2>3, <3>1, DivMonotone, RateAssumption, Zenon
    <2>5. n = (n * Second) \div Second
      <3>1. n * Second = Second * n + 0 /\ 0 \in 0 .. Second - 1
        BY <1>1, RateAssumption
      <3>2. n * Second \in Int /\ n \in Int
        BY <1>1, <1>3
      <3> QED BY <3>1, <3>2, DivModUnique, RateAssumption, Zenon
    <2>6. Ticks(e + 1, f) = p \div Second
      BY DEF Ticks, Phase
    <2> QED BY <1>1, <2>4, <2>5, <2>6
  <1>8. DelayNs(y, d) \in Nat /\ Ticks(DelayNs(y, d), f) >= n
    <2>1. CASE Ticks(e, f) < n
      <3>1. DelayNs(y, d) = e + 1
        BY <1>2, <2>1
      <3> QED BY <1>5, <1>7, <3>1
    <2>2. CASE ~(Ticks(e, f) < n)
      <3>1. DelayNs(y, d) = e
        BY <1>2, <2>2
      <3> QED BY <1>1, <1>5, <1>6, <2>2, <3>1
    <2> QED BY <2>1, <2>2
  <1> QED BY <1>8 DEF n, f

LEMMA SettledUpdate ==
  ASSUME NEW x \in States, now \in Nat, Settled(AdvancePending(x))
  PROVE  LET r == ItmUpdate(x)
             y == AdvancePending(x)
         IN  /\ r \in States /\ Matches(x, r)
             /\ ~r.armed /\ r.timer = NONE
             /\ x.itv = "ON" /\ x.armed /\ x.armedValue = x.itm
                => r.match = x.itm
             /\ \E u \in States : /\ SameClock(y, u) /\ Matches(y, u)
                                  /\ r = AdvancePending(u)
  <1> DEFINE y == AdvancePending(x)
             r == ItmUpdate(x)
             w == x.armed /\ x.armedValue = x.itm
             v == SettledState(y, w)
             u == [v EXCEPT !.timer = NONE, !.armed = FALSE]
  <1>1. y \in States /\ Same(x, y)
    BY AdvanceDoes, Zenon
  <1>2. r = AdvancePending(u)
    BY DEF ItmUpdate
  <1>3. w \in BOOLEAN
    BY Zenon DEF States
  <1> HIDE DEF y, r, w
  <1>4. /\ v \in States /\ SameClock(y, v) /\ Matches(y, v)
        /\ y.itv = "ON" /\ w => v.match = y.itm
    BY <1>1, <1>3, SettledStateDoes, Zenon
  <1> HIDE DEF v
  <1>5. u \in States
    BY <1>4, Zenon DEF States
  <1>6. /\ SameClock(v, u) /\ Matches(v, u) /\ u.match = v.match
        /\ u.armed = FALSE /\ u.timer = NONE
    BY <1>4, Zenon DEF States, SameClock, Matches
  <1> HIDE DEF u
  <1>7. r \in States /\ Same(u, r)
    BY <1>2, <1>5, AdvanceDoes, Zenon
  <1>8. SameClock(y, u) /\ Matches(y, u)
    BY <1>4, <1>6, MatchesTransitive DEF SameClock
  <1>9. Matches(x, r)
    <2>1. Matches(x, y) /\ Matches(u, r)
      BY <1>1, <1>7, SameMatches, Zenon
    <2> QED BY <1>8, <2>1, MatchesTransitive, Zenon
  <1>10. x.itv = "ON" /\ w => r.match = x.itm
    BY <1>1, <1>4, <1>6, <1>7 DEF Same
  <1>11. ~r.armed /\ r.timer = NONE
    BY <1>6, <1>7 DEF Same
  <1> QED BY <1>2, <1>5, <1>7, <1>8, <1>9, <1>10, <1>11, Zenon DEF y, r, w

LEMMA ArmedUpdate ==
  ASSUME NEW x \in States, now \in Nat, ~Settled(AdvancePending(x))
  PROVE  LET r == ItmUpdate(x)
             y == AdvancePending(x)
         IN  /\ r \in States /\ Matches(x, r) /\ SameClock(y, r)
             /\ r.itv = "ON" /\ r.match = x.match /\ r.irr = x.irr
             /\ r.armed /\ r.armedValue = r.itm /\ r.timer \in Nat
             /\ Signed(r.itm, r.itc) > 0
             /\ Ticks(r.timer - r.last, r.fraction) >=
                    Signed(r.itm, r.itc) + r.debt
  <1> DEFINE y == AdvancePending(x)
             d == Signed(y.itm, y.itc)
             e == y.last + DelayNs(y, d)
             r == [y EXCEPT !.armed = TRUE, !.armedValue = y.itm, !.timer = e]
  <1>1. y \in States /\ Same(x, y)
    BY AdvanceDoes, Zenon
  <1>2. ItmUpdate(x) = r /\ y.itv = "ON" /\ ~(d <= 0)
    BY DEF ItmUpdate, Settled
  <1> HIDE DEF y
  <1>3. d \in Nat /\ d > 0
    <2>1. y.itm \in Int /\ y.itc \in Int
      BY <1>1 DEF States, Words
    <2>2. d \in -Half .. Half - 1
      BY <2>1, SignedType, Zenon
    <2> QED BY <1>2, <2>2, HalfAssumption
  <1>4. DelayNs(y, d) \in Nat /\ Ticks(DelayNs(y, d), y.fraction) >= d + y.debt
    BY <1>1, <1>3, DelayEnough, Zenon
  <1>5. y.last \in Nat /\ e \in Nat /\ e - y.last = DelayNs(y, d)
    <2>1. y.last \in 0 .. now
      BY <1>1 DEF States
    <2>2. y.last \in Nat
      BY <2>1
    <2> HIDE DEF d
    <2> QED BY <1>4, <2>2
  <1> HIDE DEF e, d
  <1>6. r \in States
    BY <1>1, <1>5, Zenon DEF States
  <1>7. /\ SameClock(y, r) /\ r.itm = y.itm /\ r.itv = y.itv /\ r.isr = y.isr
        /\ r.match = y.match /\ r.irr = y.irr
        /\ r.armed = TRUE /\ r.armedValue = y.itm /\ r.timer = e
    BY <1>1, Zenon DEF States, SameClock
  <1> HIDE DEF r
  <1>8. Matches(x, r) /\ r.match = x.match /\ r.irr = x.irr
    BY <1>1, <1>7 DEF Same, Matches
  <1>9. Signed(r.itm, r.itc) = d /\ r.debt = y.debt
    BY <1>7 DEF SameClock, d
  <1>10. Ticks(r.timer - r.last, r.fraction) >= d + r.debt
    BY <1>4, <1>5, <1>7, <1>9 DEF SameClock
  <1> QED BY <1>2, <1>3, <1>5, <1>6, <1>7, <1>8, <1>9, <1>10 DEF y

\* ia64_itm_timer_work(), by its three outcomes.
Unarmed(x) == [x EXCEPT !.armed = FALSE]

LEMMA UnarmedDoes ==
  ASSUME NEW x \in States
  PROVE  /\ Unarmed(x) \in States /\ SameClock(x, Unarmed(x))
         /\ Matches(x, Unarmed(x)) /\ Unarmed(x).armed = FALSE
         /\ Unarmed(x).match = x.match /\ Unarmed(x).timer = x.timer
  <1>1. Unarmed(x) \in States
    BY Zenon DEF States, Unarmed
  <1>2. /\ SameClock(x, Unarmed(x))
        /\ Matches(x, Unarmed(x)) /\ Unarmed(x).armed = FALSE
        /\ Unarmed(x).match = x.match /\ Unarmed(x).timer = x.timer
    BY Zenon DEF States, SameClock, Matches, Unarmed
  <1> QED BY <1>1, <1>2

\* Doing it twice at the same time does no more.
LEMMA AdvanceTwice ==
  ASSUME NEW x \in States, now \in Nat
  PROVE  AdvancePending(AdvancePending(x)) = AdvancePending(x)
  <1> DEFINE y == Sync(x)
             z == AdvancePending(x)
             gap == Signed(z.match + 1, z.itc)
  <1>1. y \in States /\ y.last = now
    <2>1. y \in States /\ \E t \in Nat : Synced(x, y, t)
      BY SyncDoes, Zenon
    <2> QED BY <2>1 DEF Synced
  <1>2. z \in States /\ Same(y, z) /\ (z = y \/ Stepped(y, z))
    BY AdvanceDoes, Zenon
  <1>3. z = IF /\ ~y.armed /\ y.match # NONE /\ InterruptActive(y)
               /\ Signed(y.match + 1, y.itc) > 0
            THEN [y EXCEPT !.itc = Word(@ + Signed(y.match + 1, y.itc)),
                           !.debt = @ + Signed(y.match + 1, y.itc)]
            ELSE y
    BY DEF AdvancePending
  <1> HIDE DEF y, z
  <1>4. z.last = now
    BY <1>1, <1>2 DEF Stepped
  <1>5. Sync(z) = z
    BY <1>4 DEF Sync, States
  <1>6. ~(~z.armed /\ z.match # NONE /\ InterruptActive(z) /\ gap > 0)
    <2>1. CASE Stepped(y, z)
      <3>1. z.itc = Word(y.itc + Signed(z.match + 1, y.itc))
        BY <1>2, <2>1 DEF Stepped, Same
      <3>2. z.match + 1 \in Int /\ y.itc \in Int
        BY <1>1, <1>2, <2>1 DEF States, Words, NONE, Stepped, Same
      <3>3. gap = 0
        BY <3>1, <3>2, SignedAdded, Zenon
      <3> QED BY <3>3
    <2>2. CASE z = y /\ ~Stepped(y, z)
      <3>1. SUFFICES ASSUME ~y.armed, y.match # NONE, InterruptActive(y),
                            Signed(y.match + 1, y.itc) > 0
                     PROVE  FALSE
        BY <2>2
      <3> DEFINE r == [y EXCEPT !.itc = Word(@ + Signed(y.match + 1, y.itc)),
                                !.debt = @ + Signed(y.match + 1, y.itc)]
      <3>2. z = r
        BY <1>3, <3>1
      <3>3. r.itc = Word(y.itc + Signed(y.match + 1, y.itc))
            /\ r.debt = y.debt + Signed(y.match + 1, y.itc)
            /\ r.last = y.last /\ r.fraction = y.fraction
        BY <1>1, Zenon DEF States
      <3> HIDE DEF r
      <3> QED BY <2>2, <3>1, <3>2, <3>3 DEF Stepped
    <2> QED BY <1>2, <2>1, <2>2
  <1>7. AdvancePending(z) = z
    BY <1>5, <1>6 DEF AdvancePending
  <1> QED BY <1>7 DEF z

LEMMA SameClockDrift ==
  ASSUME NEW x, NEW y, NEW o \in Origins(x), SameClock(x, y), Drift(x, o)
  PROVE  Drift(y, o) /\ o \in Origins(y)
  BY DEF SameClock, Drift, Origins

LEMMA UpdateDrift ==
  ASSUME NEW x \in States, NEW o \in Origins(x), now \in Nat, Drift(x, o)
  PROVE  Drift(ItmUpdate(x), o) /\ o \in Origins(ItmUpdate(x))
  <1> DEFINE y == AdvancePending(x)
             r == ItmUpdate(x)
  <1>1. Drift(y, o) /\ o \in Origins(y)
    BY AdvanceDrift, Zenon
  <1>2. CASE Settled(y)
    <2>1. PICK u \in States : SameClock(y, u) /\ r = AdvancePending(u)
      BY <1>2, SettledUpdate, Zenon
    <2> HIDE DEF y, r
    <2>2. Drift(u, o) /\ o \in Origins(u)
      BY <1>1, <2>1, SameClockDrift, Zenon
    <2>3. Drift(r, o) /\ o \in Origins(r)
      BY <2>1, <2>2, AdvanceDrift, Zenon
    <2> QED BY <2>3 DEF r
  <1>3. CASE ~Settled(y)
    <2>1. SameClock(y, r)
      BY <1>3, ArmedUpdate, Zenon
    <2> HIDE DEF y, r
    <2>2. Drift(r, o) /\ o \in Origins(r)
      BY <1>1, <2>1, SameClockDrift, Zenon
    <2> QED BY <2>2 DEF r
  <1> QED BY <1>2, <1>3

\* The work of the callback: nothing, a match, or the timer once more.
WorkDone(x, r) ==
    LET y == AdvancePending(Unarmed(x)) IN
    \/ ~x.armed /\ r = x
    \/ x.armed /\ Settled(y) /\ r = SettledState(y, TRUE)
    \/ x.armed /\ ~Settled(y) /\ r = ItmUpdate(y)

LEMMA WorkDoes ==
  ASSUME NEW x
  PROVE  WorkDone(x, TimerWork(x))
  BY Zenon DEF TimerWork, WorkDone, Unarmed

LEMMA WorkDrift ==
  ASSUME NEW x \in States, NEW o \in Origins(x), now \in Nat, Drift(x, o)
  PROVE  /\ TimerWork(x) \in States /\ Matches(x, TimerWork(x))
         /\ Drift(TimerWork(x), o) /\ o \in Origins(TimerWork(x))
  <1> DEFINE v == Unarmed(x)
             y == AdvancePending(v)
             r == TimerWork(x)
  <1>1. WorkDone(x, r)
    BY WorkDoes, Zenon
  <1>2. v \in States /\ SameClock(x, v) /\ Matches(x, v)
    BY UnarmedDoes, Zenon
  <1>3. Drift(v, o) /\ o \in Origins(v)
    BY <1>2, SameClockDrift, Zenon
  <1> HIDE DEF r, v
  <1>4. y \in States /\ Same(v, y) /\ Drift(y, o) /\ o \in Origins(y)
    BY <1>2, <1>3, AdvanceDoes, AdvanceDrift, Zenon
  <1>5. Matches(x, y)
    BY <1>2, <1>4, SameMatches, MatchesTransitive, Zenon
  <1> HIDE DEF y
  <1>6. CASE r = x
    BY <1>6 DEF Matches, r
  <1>7. CASE r = SettledState(y, TRUE)
    <2>1. r \in States /\ SameClock(y, r) /\ Matches(y, r)
      BY <1>4, <1>7, SettledStateDoes, Zenon
    <2>2. Drift(r, o) /\ o \in Origins(r) /\ Matches(x, r)
      BY <1>4, <1>5, <2>1, SameClockDrift, MatchesTransitive, Zenon
    <2> QED BY <2>1, <2>2 DEF r
  <1>8. CASE r = ItmUpdate(y)
    <2>1. r \in States /\ Matches(y, r)
      BY <1>4, <1>8, SettledUpdate, ArmedUpdate, Zenon
    <2>2. Drift(r, o) /\ o \in Origins(r) /\ Matches(x, r)
      BY <1>4, <1>5, <1>8, <2>1, UpdateDrift, MatchesTransitive, Zenon
    <2> QED BY <2>1, <2>2 DEF r
  <1> QED BY <1>1, <1>6, <1>7, <1>8, Zenon DEF WorkDone, y, v

-----------------------------------------------------------------------------
(* The horizon: on it a word is a time, and later times are later.         *)

Offset(v) == IF v >= Half THEN v - Modulus ELSE v

LEMMA OffsetClass ==
  ASSUME NEW v \in Words
  PROVE  /\ Offset(v) \in -Half .. Half - 1
         /\ \E k \in Int : v = Modulus * k + Offset(v)
  <1> USE ModulusType
  <1>1. CASE v >= Half
    <2>1. Offset(v) = v - Modulus /\ v \in Int
      BY <1>1 DEF Offset, Words
    <2>2. v = Modulus * 1 + (v - Modulus)
      BY <2>1
    <2>3. v - Modulus \in -Half .. Half - 1
      BY <1>1 DEF Words
    <2>4. 1 \in Int
      OBVIOUS
    <2> QED BY <2>1, <2>2, <2>3, <2>4, Zenon
  <1>2. CASE ~(v >= Half)
    <2>1. Offset(v) = v
      BY <1>2 DEF Offset
    <2>2. v = Modulus * 0 + v
      BY DEF Words
    <2>3. v \in -Half .. Half - 1
      BY <1>2 DEF Words
    <2>4. 0 \in Int
      OBVIOUS
    <2> QED BY <2>1, <2>2, <2>3, <2>4, Zenon
  <1> QED BY <1>1, <1>2

LEMMA OffsetUnique ==
  ASSUME NEW v \in Words, NEW k \in Int, NEW u \in -Half .. Half - 1,
         v = Modulus * k + u
  PROVE  Offset(v) = u
  <1> USE ModulusType
  <1>1. PICK j \in Int : v = Modulus * j + Offset(v)
    BY OffsetClass, Zenon
  <1>2. Offset(v) \in -Half .. Half - 1
    BY OffsetClass, Zenon
  <1>3. Modulus * (j - k) = u - Offset(v)
    <2> DEFINE m == Modulus * j
               n == Modulus * k
               w == Offset(v)
    <2>1. Modulus * (j - k) = m - n /\ m \in Int /\ n \in Int
      OBVIOUS
    <2>2. v = m + w /\ v = n + u /\ v \in Int /\ w \in Int /\ u \in Int
      BY <1>1, <1>2 DEF Words
    <2> HIDE DEF m, n, w
    <2>3. m - n = u - w
      BY <2>1, <2>2
    <2> QED BY <2>1, <2>3 DEF w
  <1> DEFINE i == j - k
             w == Offset(v)
  <1>4. i \in Int /\ Modulus * i = u - w /\ w \in -Half .. Half - 1
    BY <1>2, <1>3
  <1> HIDE DEF i, w
  <1>5. ~(i >= 1) /\ ~(i <= -1)
    BY <1>4
  <1>6. i = 0
    BY <1>4, <1>5
  <1>7. u = w
    BY <1>4, <1>6
  <1> QED BY <1>7 DEF w

LEMMA OffsetMoved ==
  ASSUME NEW v \in Words, NEW d \in Int, Offset(v) + d \in -Half .. Half - 1
  PROVE  Offset(Word(v + d)) = Offset(v) + d
  <1> USE ModulusType
  <1> DEFINE u == Offset(v) + d
             w == Word(v + d)
  <1>1. PICK k \in Int : v = Modulus * k + Offset(v)
    BY OffsetClass, Zenon
  <1>2. v + d \in Int
    BY DEF Words
  <1>3. w \in Words /\ \E j \in Int : v + d = Modulus * j + w
    BY <1>2, WordType, WordClass, Zenon
  <1> HIDE DEF w
  <1>4. PICK j \in Int : v + d = Modulus * j + w
    BY <1>3, Zenon
  <1>5. w = Modulus * (k - j) + u
    <2>1. Modulus * (k - j) = Modulus * k - Modulus * j
      OBVIOUS
    <2>2. Offset(v) \in Int /\ w \in Int /\ v \in Int
      BY <1>3, OffsetClass DEF Words
    <2> QED BY <1>1, <1>4, <2>1, <2>2
  <1>6. k - j \in Int
    OBVIOUS
  <1>7. Offset(w) = u
    <2> HIDE DEF u
    <2>1. u \in -Half .. Half - 1
      BY DEF u
    <2> QED BY <1>3, <1>5, <1>6, <2>1, OffsetUnique, Zenon
  <1> QED BY <1>7 DEF w, u

LEMMA OffsetDistance ==
  ASSUME NEW a \in Words, NEW b \in Words, NEW d \in Int,
         Offset(a) + d - Offset(b) \in -Half .. Half - 1
  PROVE  Signed(a + d, b) = Offset(a) + d - Offset(b)
  <1> DEFINE u == Offset(a) + d - Offset(b)
             x == a + d
  <1>1. PICK k \in Int : a = Modulus * k + Offset(a)
    BY OffsetClass, Zenon
  <1>2. PICK j \in Int : b = Modulus * j + Offset(b)
    BY OffsetClass, Zenon
  <1>3. a \in Int /\ b \in Int /\ Offset(a) \in Int /\ Offset(b) \in Int
    BY OffsetClass, ModulusType DEF Words
  <1>4. x - b = Modulus * (k - j) + u
    <2>1. Modulus * (k - j) = Modulus * k - Modulus * j
      BY ModulusType
    <2> QED BY <1>1, <1>2, <1>3, <2>1, ModulusType
  <1>5. k - j \in Int /\ x \in Int
    BY <1>3
  <1>6. u \in -Half .. Half - 1
    OBVIOUS
  <1> DEFINE i == k - j
  <1>7. i \in Int /\ x - b = Modulus * i + u
    BY <1>4, <1>5
  <1> HIDE DEF u, x, i
  <1>8. Signed(x, b) = u
    BY <1>3, <1>5, <1>6, <1>7, SignedIs, Zenon
  <1> QED BY <1>8 DEF u, x

Reach == Span + 1 + Ticks(MaxNow, 0)
Near == -Span .. Span

LEMMA HorizonType ==
  /\ Half \in Nat /\ Span \in Nat /\ Reach \in Nat /\ Reach > Span
  /\ Span + Reach < Half
  /\ \A v \in ItmValue \union ItcValue : Offset(v) \in Near
  /\ Offset(0) \in Near
  <1>1. Ticks(MaxNow, 0) \in Nat
    <2>1. MaxNow \in Nat /\ 0 \in Nat
      BY BoundAssumption
    <2> QED BY <2>1, TicksNatural, Zenon
  <1>2. ASSUME NEW v \in Words
        PROVE  Offset(v) = Signed(v, 0)
    <2>1. PICK k \in Int : v = Modulus * k + Offset(v)
      BY OffsetClass, Zenon
    <2> DEFINE u == Offset(v)
    <2>2. v \in Int /\ u \in -Half .. Half - 1 /\ v - 0 = v
      BY OffsetClass, ModulusType DEF Words
    <2>3. v - 0 = Modulus * k + u
      BY <2>1, <2>2
    <2>4. 0 \in Int
      OBVIOUS
    <2> HIDE DEF u
    <2>5. Signed(v, 0) = u
      BY <2>2, <2>3, <2>4, SignedIs, Zenon
    <2> QED BY <2>5 DEF u
  <1>3. \A v \in ItmValue \union ItcValue : Offset(v) \in Near
    BY <1>2, HorizonAssumption, ValueAssumption DEF Near
  <1>4. Offset(0) \in Near
    BY HalfAssumption, HorizonAssumption DEF Offset, Near
  <1>5. /\ Half \in Nat /\ Span \in Nat /\ Reach \in Nat /\ Reach > Span
        /\ Span + Reach < Half
    BY <1>1, HalfAssumption, HorizonAssumption DEF Reach
  <1> QED BY <1>3, <1>4, <1>5

LEMMA TicksBounded ==
  ASSUME NEW n \in Nat, n <= MaxNow
  PROVE  Ticks(n, 0) \in 0 .. Reach - Span - 1
  <1> DEFINE a == n * Frequency
             b == MaxNow * Frequency
  <1>1. a \in Int /\ b \in Int /\ a <= b
    BY BoundAssumption, RateAssumption, ProductMonotone
  <1>2. Phase(n, 0) = a /\ Phase(MaxNow, 0) = b
    BY <1>1 DEF Phase
  <1> HIDE DEF a, b
  <1>3. a \div Second <= b \div Second
    BY <1>1, DivMonotone, RateAssumption, Zenon
  <1>4. Ticks(n, 0) <= Ticks(MaxNow, 0)
    BY <1>2, <1>3 DEF Ticks
  <1>5. Ticks(n, 0) \in Nat /\ Ticks(MaxNow, 0) \in Nat
    <2>1. MaxNow \in Nat /\ 0 \in Nat
      BY BoundAssumption
    <2> QED BY <2>1, TicksNatural, Zenon
  <1> QED BY <1>4, <1>5, HorizonAssumption DEF Reach

\* Where ITC, ITM and the last match are, and what ITC owes.
Placed(x, o) ==
    /\ Offset(o.value) \in Near
    /\ Offset(x.itc) - x.debt = Offset(o.value) + Ticks(x.last - o.ns, 0)
    /\ x.fraction = Phase(x.last - o.ns, 0) % Second
    /\ Offset(x.itc) \in -Span .. Reach
    /\ Offset(x.itm) \in Near
    /\ x.match # NONE =>
           Offset(x.match) \in Near /\ Offset(x.match) <= Offset(x.itc)

LEMMA SyncPlaced ==
  ASSUME NEW x \in States, NEW o \in Origins(x), now \in 0 .. MaxNow, Placed(x, o)
  PROVE  LET y == Sync(x) IN
         /\ y \in States /\ o \in Origins(y) /\ Placed(y, o)
         /\ Offset(y.itc) >= Offset(x.itc)
         /\ \E t \in Nat : /\ Synced(x, y, t)
                           /\ Offset(y.itc) - y.debt = Offset(x.itc) - x.debt + t
  <1> DEFINE y == Sync(x)
             k == Ticks(x.last - o.ns, 0)
             k1 == Ticks(y.last - o.ns, 0)
             ux == Offset(x.itc)
             uy == Offset(y.itc)
             uo == Offset(o.value)
             n == y.last - o.ns
  <1>0. now \in Nat
    BY BoundAssumption
  <1>1. y \in States /\ Same(x, y) /\ \E t \in Nat : Synced(x, y, t)
    BY <1>0, SyncDoes, Zenon
  <1> HIDE DEF y
  <1>2. PICK t \in Nat : Synced(x, y, t)
    BY <1>1
  <1>3. /\ k1 = k + t /\ k \in Nat
        /\ y.fraction = Phase(y.last - o.ns, 0) % Second
        /\ o \in Origins(y)
    <2>1. x.fraction = Phase(x.last - o.ns, 0) % Second
      BY DEF Placed
    <2> QED BY <1>0, <1>1, <1>2, <2>1, OscillatorRuns, ZenonT(60)
  <1>4. k1 \in 0 .. Reach - Span - 1
    <2>1. n \in Nat /\ n <= MaxNow
      BY <1>1, <1>3, BoundAssumption DEF States, Origins
    <2> HIDE DEF n
    <2>2. Ticks(n, 0) \in 0 .. Reach - Span - 1
      BY <2>1, TicksBounded, Zenon
    <2> QED BY <2>2 DEF n
  <1>5. /\ x.itc \in Words /\ x.debt \in Nat /\ y.debt \in Nat
        /\ ux \in -Span .. Reach /\ uo \in Near
        /\ ux - x.debt = uo + k
    BY <1>1 DEF States, Placed
  <1> HIDE DEF k, k1, n, ux, uo
  <1>6. uy - y.debt = ux - x.debt + t /\ uy \in -Span .. Reach /\ uy >= ux
    <2>1. CASE t <= x.debt
      <3>1. uy = ux /\ y.debt = x.debt - t
        BY <1>2, <2>1 DEF Synced, ux
      <3> HIDE DEF uy
      <3> QED BY <1>5, <2>1, <3>1, HorizonType
    <2>2. CASE t > x.debt
      <3> DEFINE d == t - x.debt
      <3>1. y.itc = Word(x.itc + d) /\ y.debt = 0
        <4>1. x.itc + t - x.debt = x.itc + d
          BY <1>5, ModulusType DEF Words
        <4> QED BY <1>2, <2>2, <4>1 DEF Synced
      <3>2. d \in Int /\ d > 0 /\ ux + d = uo + k1
        BY <1>3, <1>5, <2>2, HorizonType DEF Near
      <3>3. ux + d \in -Half .. Half - 1 /\ ux + d \in -Span .. Reach
        BY <1>4, <1>5, <3>2, HorizonType DEF Near
      <3> HIDE DEF d
      <3>4. Offset(Word(x.itc + d)) = ux + d
        <4>1. Offset(x.itc) + d \in -Half .. Half - 1
          BY <3>3 DEF ux
        <4>2. Offset(Word(x.itc + d)) = Offset(x.itc) + d
          BY <1>5, <3>2, <4>1, OffsetMoved, Zenon
        <4> QED BY <4>2 DEF ux
      <3>5. uy = ux + d
        BY <3>1, <3>4
      <3> HIDE DEF uy
      <3>6. ux + d - 0 = ux - x.debt + t
        BY <1>5, HorizonType DEF d
      <3> QED BY <1>5, <3>1, <3>2, <3>3, <3>5, <3>6, HorizonType
    <2> QED BY <1>5, <2>1, <2>2
  <1>7. uy - y.debt = uo + k1
    <2> HIDE DEF uy
    <2> QED BY <1>3, <1>5, <1>6, HorizonType DEF Near
  <1>8. Placed(y, o)
    <2>1. y.match # NONE => Offset(y.match) \in Near /\ Offset(y.match) <= uy
      <3>1. x.match # NONE => Offset(x.match) \in Near /\ Offset(x.match) <= ux
        BY DEF Placed, ux
      <3>2. y.match = x.match
        BY <1>1 DEF Same
      <3> HIDE DEF uy
      <3> QED BY <1>5, <1>6, <3>1, <3>2, HorizonType DEF Near
    <2>2. Offset(y.itm) \in Near
      BY <1>1 DEF Same, Placed
    <2> QED BY <1>3, <1>5, <1>6, <1>7, <2>1, <2>2 DEF Placed, uo, k1
  <1> QED BY <1>1, <1>2, <1>3, <1>6, <1>8, Zenon DEF y, ux

Held(x, o) == x \in States /\ o \in Origins(x) /\ Placed(x, o)

LEMMA AheadIs ==
  ASSUME NEW x, NEW o, Held(x, o)
  PROVE  /\ Signed(x.itm, x.itc) = Offset(x.itm) - Offset(x.itc)
         /\ Offset(x.itm) \in Int /\ Offset(x.itc) \in Int
  <1>1. /\ x.itm \in Words /\ x.itc \in Words
        /\ Offset(x.itm) \in Near /\ Offset(x.itc) \in -Span .. Reach
    BY DEF Held, Placed, States
  <1>2. /\ Offset(x.itm) \in Int /\ Offset(x.itc) \in Int
        /\ Offset(x.itm) + 0 - Offset(x.itc) \in -Half .. Half - 1
        /\ Offset(x.itm) + 0 - Offset(x.itc) = Offset(x.itm) - Offset(x.itc)
    BY <1>1, HorizonType DEF Near
  <1>3. x.itm + 0 = x.itm /\ 0 \in Int
    BY <1>1, ModulusType DEF Words
  <1>4. Signed(x.itm + 0, x.itc) = Offset(x.itm) + 0 - Offset(x.itc)
    BY <1>1, <1>2, <1>3, OffsetDistance, Zenon
  <1> QED BY <1>2, <1>3, <1>4

LEMMA AdvanceHeld ==
  ASSUME NEW x, NEW o, Held(x, o), now \in 0 .. MaxNow
  PROVE  /\ Held(AdvancePending(x), o)
         /\ Offset(AdvancePending(x).itc) >= Offset(x.itc)
  <1> DEFINE y == Sync(x)
             z == AdvancePending(x)
             gap == Signed(y.match + 1, y.itc)
             um == Offset(y.match)
             uy == Offset(y.itc)
  <1>0. now \in Nat /\ x \in States /\ o \in Origins(x) /\ Placed(x, o)
    BY BoundAssumption DEF Held
  <1>1. Held(y, o) /\ uy >= Offset(x.itc)
    BY <1>0, SyncPlaced, Zenon DEF Held
  <1>2. z \in States /\ Same(y, z) /\ (z = y \/ Stepped(y, z))
    BY <1>0, AdvanceDoes, Zenon
  <1> HIDE DEF y, z
  <1>3. CASE z = y
    BY <1>1, <1>3 DEF z
  <1>4. CASE Stepped(y, z)
    <2>1. /\ y.match \in Words /\ y.itc \in Words /\ y.debt \in Nat
          /\ um \in Near /\ uy \in -Span .. Reach /\ um <= uy
      BY <1>1, <1>4 DEF Stepped, Held, Placed, States
    <2>2. um + 1 - uy \in -Half .. Half - 1
      <3> HIDE DEF um, uy
      <3> QED BY <2>1, HorizonType DEF Near
    <2>3. gap = um + 1 - uy
      <3>1. 1 \in Int
        OBVIOUS
      <3> QED BY <2>1, <2>2, <3>1, OffsetDistance, Zenon
    <2>4. gap > 0 /\ z.itc = Word(y.itc + gap) /\ z.debt = y.debt + gap
          /\ z.last = y.last /\ z.fraction = y.fraction
      BY <1>4 DEF Stepped
    <2> HIDE DEF gap, um
    <2>5. gap = 1 /\ uy = um
      <3> HIDE DEF uy
      <3> QED BY <2>1, <2>3, <2>4, HorizonType DEF Near
    <2>6. uy + 1 \in -Half .. Half - 1 /\ uy + 1 \in -Span .. Reach
      <3> HIDE DEF uy
      <3> QED BY <2>1, <2>5, HorizonType DEF Near
    <2>7. Offset(z.itc) = uy + 1
      <3>1. z.itc = Word(y.itc + 1) /\ 1 \in Int
        BY <2>4, <2>5
      <3>2. Offset(Word(y.itc + 1)) = Offset(y.itc) + 1
        BY <2>1, <2>6, <3>1, OffsetMoved, Zenon
      <3> QED BY <3>1, <3>2
    <2> DEFINE uz == Offset(z.itc)
    <2>8. uz - z.debt = uy - y.debt /\ uz >= uy
      <3> HIDE DEF uz, uy
      <3>1. uz = uy + 1 /\ z.debt = y.debt + 1 /\ uy \in Int
        BY <2>1, <2>4, <2>5, <2>7, HorizonType DEF uz, uy
      <3> QED BY <2>1, <3>1
    <2>9. Placed(z, o) /\ o \in Origins(z)
      <3>1. Placed(y, o) /\ o \in Origins(y) /\ Offset(o.value) \in Near
        BY <1>1 DEF Held, Placed
      <3>2. Offset(z.itm) \in Near
        BY <1>2, <3>1 DEF Same, Placed
      <3>3. Offset(z.match) \in Near /\ Offset(z.match) <= uz
        <4>1. z.match = y.match
          BY <1>2 DEF Same
        <4>2. Offset(z.match) = um
          BY <4>1 DEF um
        <4> HIDE DEF uz, uy
        <4> QED BY <2>1, <2>5, <2>6, <2>7, <4>2 DEF Near, uz, uy
      <3>4. uz \in -Span .. Reach
        BY <2>6, <2>7
      <3>5. uz - z.debt = Offset(o.value) + Ticks(z.last - o.ns, 0)
        BY <2>4, <2>8, <3>1 DEF Placed
      <3>6. z.fraction = Phase(z.last - o.ns, 0) % Second /\ o \in Origins(z)
        BY <2>4, <3>1 DEF Placed, Origins
      <3> QED BY <3>1, <3>2, <3>3, <3>4, <3>5, <3>6 DEF Placed
    <2>10. uz >= Offset(x.itc)
      <3>1. Offset(x.itc) \in Int /\ uy \in Int /\ uz \in Int
        <4>1. Offset(x.itc) \in -Span .. Reach
          BY <1>0 DEF Placed
        <4> QED BY <2>1, <2>7, <4>1, HorizonType
      <3> HIDE DEF uz, uy
      <3> QED BY <1>1, <2>8, <3>1 DEF uy
    <2> QED BY <1>2, <2>9, <2>10 DEF Held, z
  <1> QED BY <1>2, <1>3, <1>4

LEMMA MatchHeld ==
  ASSUME NEW y, NEW o, Held(y, o), NEW u \in States, SameClock(y, u), Matches(y, u),
         y.itv = "ON" => Signed(y.itm, y.itc) <= 0
  PROVE  Held(u, o)
  <1>1. Placed(y, o) /\ o \in Origins(y)
    BY DEF Held
  <1>2. o \in Origins(u)
    BY <1>1 DEF SameClock, Origins
  <1>3. u.match # NONE => Offset(u.match) \in Near /\ Offset(u.match) <= Offset(u.itc)
    <2>1. CASE u.match = y.match
      BY <1>1, <2>1 DEF Placed, SameClock
    <2>2. CASE y.itv = "ON" /\ u.match = y.itm
      <3>1. Offset(y.itm) - Offset(y.itc) <= 0
            /\ Offset(y.itm) \in Int /\ Offset(y.itc) \in Int
        BY <2>2, AheadIs
      <3>2. Offset(y.itm) <= Offset(y.itc)
        BY <3>1
      <3> QED BY <1>1, <2>2, <3>2 DEF Placed, SameClock
    <2> QED BY <2>1, <2>2 DEF Matches
  <1>4. Placed(u, o)
    BY <1>1, <1>3 DEF Placed, SameClock, Matches
  <1> QED BY <1>2, <1>4 DEF Held

-----------------------------------------------------------------------------
(* The host timer.                                                         *)

\* DeadlineNotEarly and FutureIsArmed, of any state.
Early(x) ==
    x.armed /\ x.timer # NONE =>
        Ticks(x.timer - x.last, x.fraction) >= Signed(x.itm, x.itc) + x.debt

Future(x) == x.itv = "ON" /\ Signed(x.itm, x.itc) > 0

Waited(x) == Future(x) => x.armed /\ x.armedValue = x.itm

LEMMA SyncEarly ==
  ASSUME NEW x, NEW o, Held(x, o), now \in 0 .. MaxNow, Early(x)
  PROVE  Early(Sync(x))
  <1> DEFINE y == Sync(x)
             dx == Signed(x.itm, x.itc)
             dy == Signed(y.itm, y.itc)
             a == now - x.last
             b == x.timer - now
  <1>0. now \in Nat /\ x \in States /\ o \in Origins(x) /\ Placed(x, o)
    BY BoundAssumption DEF Held
  <1>1. SUFFICES ASSUME y.armed, y.timer # NONE
                 PROVE  Ticks(y.timer - y.last, y.fraction) >= dy + y.debt
    BY DEF Early
  <1>2. Same(x, y)
    BY <1>0, SyncDoes, Zenon
  <1>3. PICK t \in Nat : /\ Synced(x, y, t)
                         /\ Offset(y.itc) - y.debt = Offset(x.itc) - x.debt + t
    BY <1>0, SyncPlaced, Zenon
  <1>4. Held(y, o)
    BY <1>0, SyncPlaced, Zenon DEF Held
  <1> HIDE DEF y
  <1>5. x.armed /\ x.timer # NONE /\ x.timer = y.timer /\ x.itm = y.itm
    BY <1>1, <1>2 DEF Same
  <1>6. Ticks(x.timer - x.last, x.fraction) >= dx + x.debt
    BY <1>5 DEF Early
  <1>7. a \in Int /\ b \in Int /\ x.fraction \in Int /\ a + b = x.timer - x.last
    BY <1>0, <1>5, RateAssumption DEF States, NONE
  <1>8. Ticks(a + b, x.fraction)
            = Ticks(a, x.fraction) + Ticks(b, Phase(a, x.fraction) % Second)
    <2> HIDE DEF a, b
    <2> QED BY <1>7, PhaseShift, Zenon
  <1>9. y.fraction = Phase(a, x.fraction) % Second /\ t = Ticks(a, x.fraction)
        /\ y.timer - y.last = b
    BY <1>3, <1>5 DEF Synced
  <1> DEFINE l == Ticks(b, y.fraction)
  <1>10. l \in Int
    <2>1. y.fraction \in Int
      BY <1>4, RateAssumption DEF Held, States
    <2> HIDE DEF b
    <2> QED BY <1>7, <2>1, PhaseType, Zenon
  <1>11. t + l >= dx + x.debt
    BY <1>6, <1>7, <1>8, <1>9
  <1> DEFINE ux == Offset(x.itc)
             uy == Offset(y.itc)
             um == Offset(x.itm)
  <1>12. /\ dx = um - ux /\ dy = um - uy /\ um \in Int /\ ux \in Int /\ uy \in Int
         /\ x.debt \in Nat /\ y.debt \in Nat /\ uy - y.debt = ux - x.debt + t
    <2>1. dx = um - ux /\ um \in Int /\ ux \in Int
      BY AheadIs, Zenon
    <2>2. dy = Offset(y.itm) - uy /\ uy \in Int
      BY <1>4, AheadIs, Zenon
    <2>3. x.debt \in Nat /\ y.debt \in Nat
      BY <1>0, <1>4 DEF Held, States
    <2> QED BY <1>3, <1>5, <2>1, <2>2, <2>3
  <1> HIDE DEF dx, dy, ux, uy, um, l
  <1>13. l >= dy + y.debt
    BY <1>10, <1>11, <1>12
  <1> QED BY <1>9, <1>13 DEF l

LEMMA AdvanceEarly ==
  ASSUME NEW x, NEW o, Held(x, o), now \in 0 .. MaxNow, Early(x)
  PROVE  Early(AdvancePending(x))
  <1> DEFINE y == Sync(x)
             z == AdvancePending(x)
  <1>0. now \in Nat /\ x \in States
    BY BoundAssumption DEF Held
  <1>1. Early(y)
    BY SyncEarly, Zenon
  <1>2. Same(y, z) /\ (z = y \/ Stepped(y, z))
    BY <1>0, AdvanceDoes, Zenon
  <1> HIDE DEF y, z
  <1>3. Early(z)
    BY <1>1, <1>2 DEF Stepped, Same, Early
  <1> QED BY <1>3 DEF z

LEMMA AdvanceWaited ==
  ASSUME NEW x, NEW o, Held(x, o), now \in 0 .. MaxNow
  PROVE  Future(AdvancePending(x)) => Future(x)
  <1> DEFINE z == AdvancePending(x)
  <1>0. now \in Nat /\ x \in States
    BY BoundAssumption DEF Held
  <1>1. Held(z, o) /\ Offset(z.itc) >= Offset(x.itc)
    BY AdvanceHeld, Zenon
  <1>2. Same(x, z)
    BY <1>0, AdvanceDoes, Zenon
  <1> HIDE DEF z
  <1>3. /\ Signed(x.itm, x.itc) = Offset(x.itm) - Offset(x.itc)
        /\ Offset(x.itm) \in Int /\ Offset(x.itc) \in Int
    BY AheadIs, Zenon
  <1>4. Signed(z.itm, z.itc) = Offset(z.itm) - Offset(z.itc) /\ Offset(z.itc) \in Int
    BY <1>1, AheadIs, Zenon
  <1>5. z.itm = x.itm /\ z.itv = x.itv
    BY <1>2 DEF Same
  <1>6. Future(z) => Future(x)
    BY <1>1, <1>3, <1>4, <1>5 DEF Future
  <1> QED BY <1>6 DEF z

LEMMA UpdateHeld ==
  ASSUME NEW x, NEW o, Held(x, o), now \in 0 .. MaxNow
  PROVE  LET r == ItmUpdate(x) IN
         /\ Held(r, o) /\ Matches(x, r) /\ Early(r)
         /\ Future(r) => r.armed /\ r.armedValue = r.itm /\ r.timer # NONE
  <1> DEFINE y == AdvancePending(x)
             r == ItmUpdate(x)
  <1>0. now \in Nat /\ x \in States
    BY BoundAssumption DEF Held
  <1>1. Held(y, o) /\ Same(x, y)
    BY <1>0, AdvanceHeld, AdvanceDoes, Zenon
  <1>2. CASE Settled(y)
    <2>1. r \in States /\ Matches(x, r) /\ ~r.armed
      BY <1>0, <1>2, SettledUpdate, Zenon
    <2>2. PICK u \in States : /\ SameClock(y, u) /\ Matches(y, u)
                              /\ r = AdvancePending(u)
      BY <1>0, <1>2, SettledUpdate, Zenon
    <2> HIDE DEF y, r
    <2>3. y.itv = "ON" => Signed(y.itm, y.itc) <= 0
      BY <1>2 DEF Settled
    <2>4. Held(u, o)
      BY <1>1, <2>2, <2>3, MatchHeld, Zenon
    <2>5. Held(r, o) /\ (Future(r) => Future(u))
      BY <2>2, <2>4, AdvanceHeld, AdvanceWaited, Zenon
    <2>6. ~Future(u)
      <3>1. u.itv = y.itv /\ u.itm = y.itm /\ u.itc = y.itc
        BY <2>2 DEF Matches, SameClock
      <3>2. Signed(y.itm, y.itc) \in Int
        BY <1>1, AheadIs
      <3> QED BY <2>3, <3>1, <3>2 DEF Future
    <2>7. Early(r)
      BY <2>1 DEF Early
    <2> QED BY <2>1, <2>5, <2>6, <2>7 DEF r
  <1>3. CASE ~Settled(y)
    <2>1. /\ r \in States /\ Matches(x, r) /\ SameClock(y, r)
          /\ r.armed /\ r.armedValue = r.itm /\ r.timer \in Nat
          /\ r.match = x.match /\ r.irr = x.irr
          /\ Ticks(r.timer - r.last, r.fraction) >= Signed(r.itm, r.itc) + r.debt
      BY <1>0, <1>3, ArmedUpdate, Zenon
    <2> HIDE DEF y, r
    <2>2. Held(r, o)
      <3>1. r.match = y.match /\ r.itm = y.itm
        BY <1>1, <2>1 DEF Same, Matches
      <3> QED BY <1>1, <2>1, <3>1 DEF Held, Placed, Origins, SameClock
    <2>3. r.timer # NONE
      BY <2>1 DEF NONE
    <2>4. Early(r)
      BY <2>1, SMTT(40) DEF Early
    <2> QED BY <2>1, <2>2, <2>3, <2>4 DEF r
  <1> QED BY <1>2, <1>3

LEMMA WorkHeld ==
  ASSUME NEW x, NEW o, Held(x, o), now \in 0 .. MaxNow, Waited(x), Early(x)
  PROVE  LET r == TimerWork(x) IN
         /\ Held(r, o) /\ Matches(x, r) /\ Early(r)
         /\ Future(r) => r.armed /\ r.armedValue = r.itm /\ r.timer # NONE
  <1> DEFINE v == Unarmed(x)
             y == AdvancePending(v)
             r == TimerWork(x)
  <1>0. now \in Nat /\ x \in States
    BY BoundAssumption DEF Held
  <1>1. WorkDone(x, r)
    BY WorkDoes, Zenon
  <1>2. v \in States /\ SameClock(x, v) /\ Matches(x, v) /\ v.match = x.match
        /\ v.armed = FALSE
    BY <1>0, UnarmedDoes, Zenon
  <1> HIDE DEF v, r
  <1>3. Held(v, o)
    BY <1>2 DEF Held, Placed, Origins, SameClock, Matches
  <1>4. Held(y, o) /\ Same(v, y)
    BY <1>0, <1>2, <1>3, AdvanceHeld, AdvanceDoes, Zenon
  <1>5. Matches(x, y)
    BY <1>2, <1>4, SameMatches, MatchesTransitive, Zenon
  <1> HIDE DEF y
  <1>6. CASE ~x.armed /\ r = x
    <2>1. ~Future(x)
      BY <1>6 DEF Waited
    <2> QED BY <1>6, <2>1 DEF Matches, r
  <1>7. CASE Settled(y) /\ r = SettledState(y, TRUE)
    <2>1. r \in States /\ SameClock(y, r) /\ Matches(y, r) /\ r.armed = y.armed
      BY <1>4, <1>7, SettledStateDoes, Zenon DEF Held
    <2>2. y.itv = "ON" => Signed(y.itm, y.itc) <= 0
      BY <1>7 DEF Settled
    <2>3. Held(r, o) /\ Matches(x, r)
      BY <1>4, <1>5, <2>1, <2>2, MatchHeld, MatchesTransitive, Zenon
    <2>4. ~r.armed
      BY <1>2, <1>4, <2>1 DEF Same
    <2>5. ~Future(r)
      <3>1. r.itv = y.itv /\ r.itm = y.itm /\ r.itc = y.itc
        BY <2>1 DEF Matches, SameClock
      <3>2. Signed(y.itm, y.itc) \in Int
        BY <1>4, AheadIs
      <3> QED BY <2>2, <3>1, <3>2 DEF Future
    <2> QED BY <2>3, <2>4, <2>5 DEF Early, r
  <1>8. CASE r = ItmUpdate(y)
    <2>1. /\ Held(r, o) /\ Matches(y, r) /\ Early(r)
          /\ Future(r) => r.armed /\ r.armedValue = r.itm /\ r.timer # NONE
      BY <1>4, <1>8, UpdateHeld, Zenon
    <2>2. Matches(x, r)
      BY <1>5, <2>1, MatchesTransitive, Zenon
    <2> QED BY <2>1, <2>2 DEF r
  <1> QED BY <1>1, <1>6, <1>7, <1>8, Zenon DEF WorkDone, y, v

-----------------------------------------------------------------------------
(* What the steps hand to those operations.                                *)

Expired(x) == [x EXCEPT !.timer = NONE]
WithItv(x, v) == [x EXCEPT !.itv = v]
WithItm(x, v) == [x EXCEPT !.itm = v]
WithItc(x, v) ==
    [x EXCEPT !.itc = v, !.last = now, !.fraction = 0, !.debt = 0, !.match = NONE]
WithMatch(x, v) == [x EXCEPT !.armed = TRUE, !.armedValue = v]

LEMMA PreparedDoes ==
  ASSUME NEW x \in States
  PROVE  /\ Expired(x) \in States /\ SameClock(x, Expired(x))
         /\ Matches(x, Expired(x)) /\ Expired(x).match = x.match
         /\ Expired(x).armed = x.armed /\ Expired(x).armedValue = x.armedValue
         /\ Expired(x).timer = NONE
         /\ \A v \in Itvs : /\ WithItv(x, v) \in States
                            /\ SameClock(x, WithItv(x, v))
                            /\ WithItv(x, v).itm = x.itm
                            /\ WithItv(x, v).match = x.match
                            /\ WithItv(x, v).irr = x.irr
                            /\ WithItv(x, v).itv = v
                            /\ WithItv(x, v).armed = x.armed
                            /\ WithItv(x, v).armedValue = x.armedValue
         /\ \A v \in Words : /\ WithItm(x, v) \in States
                             /\ SameClock(x, WithItm(x, v))
                             /\ WithItm(x, v).itm = v
                             /\ WithItm(x, v).itv = x.itv
                             /\ WithItm(x, v).match = x.match
                             /\ WithItm(x, v).armed = x.armed
                             /\ WithItm(x, v).armedValue = x.armedValue
  <1>1. Expired(x) \in States
    BY Zenon DEF States, Expired
  <1>2. /\ SameClock(x, Expired(x))
        /\ Matches(x, Expired(x)) /\ Expired(x).match = x.match
        /\ Expired(x).armed = x.armed /\ Expired(x).armedValue = x.armedValue
        /\ Expired(x).timer = NONE
    BY Zenon DEF States, Expired, SameClock, Matches
  <1>3. ASSUME NEW v \in Itvs
        PROVE  /\ WithItv(x, v) \in States /\ SameClock(x, WithItv(x, v))
               /\ WithItv(x, v).itm = x.itm /\ WithItv(x, v).match = x.match
               /\ WithItv(x, v).irr = x.irr /\ WithItv(x, v).itv = v
               /\ WithItv(x, v).armed = x.armed
               /\ WithItv(x, v).armedValue = x.armedValue
    <2>1. WithItv(x, v) \in States
      BY Zenon DEF States, WithItv
    <2> QED BY <2>1, Zenon DEF States, WithItv, SameClock
  <1>4. ASSUME NEW v \in Words
        PROVE  /\ WithItm(x, v) \in States /\ SameClock(x, WithItm(x, v))
               /\ WithItm(x, v).itm = v /\ WithItm(x, v).itv = x.itv
               /\ WithItm(x, v).match = x.match /\ WithItm(x, v).armed = x.armed
               /\ WithItm(x, v).armedValue = x.armedValue
    <2>1. WithItm(x, v) \in States
      BY Zenon DEF States, WithItm
    <2> QED BY <2>1, Zenon DEF States, WithItm, SameClock
  <1> QED BY <1>1, <1>2, <1>3, <1>4, Zenon

\* A clock that starts now at v.
Fresh(x, v) ==
    x.itc = v /\ x.last = now /\ x.fraction = 0 /\ x.debt = 0 /\ x.match = NONE

LEMMA RestartedDoes ==
  ASSUME NEW x \in States, NEW v \in Words, now \in Nat
  PROVE  LET y == IF x.itm = v THEN WithMatch(WithItc(x, v), v) ELSE WithItc(x, v)
         IN  y \in States /\ Fresh(y, v) /\ y.itm = x.itm
  <1> DEFINE y == WithItc(x, v)
             z == WithMatch(y, v)
  <1>1. now \in 0 .. now /\ 0 \in 0 .. Second - 1 /\ 0 \in Nat
    BY RateAssumption
  <1>2. y \in States
    BY <1>1, Zenon DEF States, WithItc
  <1>3. Fresh(y, v) /\ y.itm = x.itm
    BY Zenon DEF States, WithItc, Fresh
  <1> HIDE DEF y
  <1>4. z \in States
    BY <1>2, Zenon DEF States, WithMatch
  <1>5. Fresh(z, v) /\ z.itm = x.itm
    BY <1>2, <1>3, Zenon DEF States, WithMatch, Fresh
  <1> QED BY <1>2, <1>3, <1>4, <1>5 DEF y

LEMMA ResetDoes ==
  ASSUME now \in Nat
  PROVE  LET y == ResetState(now) IN
         /\ y \in States /\ Fresh(y, 0) /\ y.itm = 0 /\ y.itv = "MASKED"
         /\ y.armed = FALSE /\ y.irr = FALSE
  <1>1. /\ now \in 0 .. now /\ 0 \in 0 .. Second - 1 /\ 0 \in Nat
        /\ 0 \in Words
    BY RateAssumption, ModulusType DEF Words
  <1>2. ResetState(now) \in States
    BY <1>1 DEF ResetState, States, Itvs
  <1> QED BY <1>2 DEF ResetState, Fresh

LEMMA FreshDrift ==
  ASSUME NEW x \in States, NEW v \in Words, Fresh(x, v), now \in Nat
  PROVE  LET o == [ns |-> now, value |-> v] IN
         /\ o \in Origins(x) /\ Drift(x, o)
         /\ Ticks(x.last - o.ns, 0) = 0 /\ x.fraction = Phase(x.last - o.ns, 0) % Second
  <1> DEFINE o == [ns |-> now, value |-> v]
  <1>1. o \in Origins(x) /\ x.last - o.ns = 0
    BY DEF Origins, Fresh
  <1>2. Phase(0, 0) = 0
    BY RateAssumption DEF Phase
  <1>3. 0 = 0 \div Second /\ 0 = 0 % Second
    <2>1. 0 = Second * 0 + 0 /\ 0 \in 0 .. Second - 1 /\ 0 \in Int
      BY RateAssumption
    <2> QED BY <2>1, DivModUnique, RateAssumption, Zenon
  <1>4. Ticks(0, 0) = 0 /\ Phase(0, 0) % Second = 0
    BY <1>2, <1>3 DEF Ticks
  <1>5. Word(x.itc - x.debt) = Word(o.value + 0)
    <2>1. v - 0 = v + 0
      BY DEF Words
    <2> QED BY <2>1 DEF Fresh
  <1> QED BY <1>1, <1>4, <1>5 DEF Drift, Fresh

-----------------------------------------------------------------------------
(* The clock does not drift, and a match is raised once.                   *)

\* A programming that has matched is the one remembered.
CInv ==
    /\ TypeOK
    /\ Drift(s, origin)
    /\ served => s.match = s.itm

LEMMA StepClock ==
  ASSUME CInv, NEW x, Step(x), x \in States, origin \in Origins(x),
         Drift(x, origin), x.itm = s.itm, x.match = s.match \/ x.match = x.itm,
         queued' \in 0 .. MaxQueued
  PROVE  CInv'
  <1>1. now' = now /\ s' = x /\ origin' = origin
        /\ served' = (served \/ x.match # s.match)
    BY DEF Step
  <1>2. TypeOK'
    BY <1>1 DEF CInv, TypeOK, States, Origins
  <1>3. Drift(s, origin)'
    BY <1>1 DEF Drift
  <1>4. (served => s.match = s.itm)'
    BY <1>1, Zenon DEF CInv
  <1> QED BY <1>2, <1>3, <1>4 DEF CInv

\* What a step that leaves ITM and ITC alone does to the match and the request.
Gentle(x) ==
    /\ x.itm = s.itm
    /\ \/ x.match = s.match /\ (x.irr => s.irr)
       \/ s.match # s.itm /\ x.match = x.itm

\* The state after a step of the processor other than a write or a reset.
Stepping(x) ==
    /\ Step(x) /\ x \in States /\ origin \in Origins(x) /\ Drift(x, origin)
    /\ Gentle(x) /\ queued' \in 0 .. MaxQueued

LEMMA CInvParts ==
  ASSUME CInv
  PROVE  /\ now \in Nat /\ s \in States /\ origin \in Origins(s)
         /\ Drift(s, origin) /\ queued \in 0 .. MaxQueued /\ now \in 0 .. MaxNow
  BY BoundAssumption DEF CInv, TypeOK, Origins

LEMMA WorkSteps ==
  ASSUME CInv, TimerFires \/ RunQueued
  PROVE  \E x : Stepping(x)
  <1> DEFINE e == Expired(s)
  <1>0. /\ now \in Nat /\ s \in States /\ origin \in Origins(s)
        /\ Drift(s, origin) /\ queued \in 0 .. MaxQueued
    BY CInvParts
  <1>1. e \in States /\ SameClock(s, e) /\ Matches(s, e) /\ e.match = s.match
    BY <1>0, PreparedDoes, Zenon
  <1>2. origin \in Origins(e) /\ Drift(e, origin)
    BY <1>0, <1>1, SameClockDrift, Zenon
  <1>3. CASE TimerFires /\ Step(TimerWork(e)) /\ UNCHANGED queued
    <2> DEFINE x == TimerWork(e)
    <2>1. x \in States /\ Matches(e, x) /\ Drift(x, origin) /\ origin \in Origins(x)
      BY <1>0, <1>1, <1>2, WorkDrift, Zenon
    <2> HIDE DEF e, x
    <2>2. Gentle(x)
      BY <1>1, <2>1 DEF Matches, Gentle
    <2>3. Step(x) /\ queued' \in 0 .. MaxQueued
      BY <1>0, <1>3 DEF x
    <2> QED BY <2>1, <2>2, <2>3, Zenon DEF Stepping
  <1>4. CASE queued < MaxQueued /\ queued' = queued + 1 /\ Step(e)
    <2> HIDE DEF e
    <2>1. Gentle(e)
      BY <1>1 DEF Matches, Gentle
    <2>2. queued' \in 0 .. MaxQueued
      BY <1>0, <1>4, BoundAssumption
    <2> QED BY <1>1, <1>2, <1>4, <2>1, <2>2, Zenon DEF Stepping
  <1>5. CASE RunQueued
    <2> DEFINE x == TimerWork(s)
    <2>1. x \in States /\ Matches(s, x) /\ Drift(x, origin) /\ origin \in Origins(x)
      BY <1>0, WorkDrift, Zenon
    <2>2. Step(x) /\ queued' \in 0 .. MaxQueued
      BY <1>0, <1>5, BoundAssumption DEF RunQueued
    <2> HIDE DEF x
    <2>3. Gentle(x)
      BY <2>1 DEF Matches, Gentle
    <2> QED BY <2>1, <2>2, <2>3, Zenon DEF Stepping
  <1> QED BY <1>3, <1>4, <1>5 DEF TimerFires, Expired

LEMMA ProcessorSteps ==
  ASSUME CInv,
         ReadItc \/ EnterHalt \/ PreSave \/ AcceptTimer \/ Eoi \/ WriteItv
  PROVE  \E x : Stepping(x)
  <1>0. /\ now \in Nat /\ s \in States /\ origin \in Origins(s)
        /\ Drift(s, origin) /\ queued \in 0 .. MaxQueued
    BY CInvParts
  <1>1. CASE ReadItc
    <2> DEFINE x == AdvancePending(s)
    <2>1. x \in States /\ Same(s, x) /\ Drift(x, origin) /\ origin \in Origins(x)
      BY <1>0, AdvanceDoes, AdvanceDrift, Zenon
    <2>2. Step(x) /\ queued' \in 0 .. MaxQueued
      BY <1>0, <1>1 DEF ReadItc
    <2> HIDE DEF x
    <2>3. Gentle(x)
      BY <2>1 DEF Same, Gentle
    <2> QED BY <2>1, <2>2, <2>3, Zenon DEF Stepping
  <1>2. CASE EnterHalt
    <2> DEFINE y == AdvancePending(s)
               x == ItmUpdate(y)
    <2>1. y \in States /\ Same(s, y) /\ Drift(y, origin) /\ origin \in Origins(y)
      BY <1>0, AdvanceDoes, AdvanceDrift, Zenon
    <2>2. Step(x) /\ queued' \in 0 .. MaxQueued
      BY <1>0, <1>2 DEF EnterHalt
    <2> HIDE DEF y
    <2>3. x \in States /\ Matches(y, x)
      BY <1>0, <2>1, SettledUpdate, ArmedUpdate, Zenon
    <2>4. Drift(x, origin) /\ origin \in Origins(x)
      BY <1>0, <2>1, UpdateDrift, Zenon
    <2> HIDE DEF x
    <2>5. Gentle(x)
      BY <2>1, <2>3 DEF Same, Matches, Gentle
    <2> QED BY <2>2, <2>3, <2>4, <2>5, Zenon DEF Stepping
  <1>3. CASE PreSave
    <2> DEFINE x == Sync(s)
    <2>1. x \in States /\ Same(s, x) /\ Drift(x, origin) /\ origin \in Origins(x)
      BY <1>0, SyncDoes, SyncDrift, Zenon
    <2>2. Step(x) /\ queued' \in 0 .. MaxQueued
      BY <1>0, <1>3 DEF PreSave
    <2> HIDE DEF x
    <2>3. Gentle(x)
      BY <2>1 DEF Same, Gentle
    <2> QED BY <2>1, <2>2, <2>3, Zenon DEF Stepping
  <1>4. CASE AcceptTimer
    <2> DEFINE x == [s EXCEPT !.irr = FALSE, !.isr = TRUE]
    <2>1. x \in States
      BY <1>0, Zenon DEF States
    <2>2. SameClock(s, x) /\ x.itm = s.itm /\ x.match = s.match /\ x.irr = FALSE
      BY <1>0, Zenon DEF States, SameClock
    <2>3. Step(x) /\ queued' \in 0 .. MaxQueued
      BY <1>0, <1>4 DEF AcceptTimer
    <2> HIDE DEF x
    <2>4. Gentle(x)
      BY <2>2 DEF Gentle
    <2>5. Drift(x, origin) /\ origin \in Origins(x)
      BY <1>0, <2>2, SameClockDrift, Zenon
    <2> QED BY <2>1, <2>3, <2>4, <2>5, Zenon DEF Stepping
  <1>5. CASE Eoi
    <2> DEFINE x == [s EXCEPT !.isr = FALSE]
    <2>1. x \in States
      BY <1>0, Zenon DEF States
    <2>2. SameClock(s, x) /\ x.itm = s.itm /\ x.match = s.match /\ x.irr = s.irr
      BY <1>0, Zenon DEF States, SameClock
    <2>3. Step(x) /\ queued' \in 0 .. MaxQueued
      BY <1>0, <1>5 DEF Eoi
    <2> HIDE DEF x
    <2>4. Gentle(x)
      BY <2>2 DEF Gentle
    <2>5. Drift(x, origin) /\ origin \in Origins(x)
      BY <1>0, <2>2, SameClockDrift, Zenon
    <2> QED BY <2>1, <2>3, <2>4, <2>5, Zenon DEF Stepping
  <1>6. CASE WriteItv
    <2>1. PICK v \in Itvs : Step(ItmUpdate(WithItv(s, v)))
      BY <1>6 DEF WriteItv, WithItv
    <2> DEFINE y == WithItv(s, v)
               x == ItmUpdate(y)
    <2>2. y \in States /\ SameClock(s, y) /\ y.itm = s.itm /\ y.match = s.match
          /\ y.irr = s.irr
      BY <1>0, PreparedDoes, Zenon
    <2>3. Step(x) /\ queued' \in 0 .. MaxQueued
      BY <1>0, <1>6, <2>1 DEF WriteItv
    <2> HIDE DEF y
    <2>4. Drift(y, origin) /\ origin \in Origins(y)
      BY <1>0, <2>2, SameClockDrift, Zenon
    <2>5. x \in States /\ Matches(y, x)
      BY <1>0, <2>2, SettledUpdate, ArmedUpdate, Zenon
    <2>6. Drift(x, origin) /\ origin \in Origins(x)
      BY <1>0, <2>2, <2>4, UpdateDrift, Zenon
    <2> HIDE DEF x
    <2>7. Gentle(x)
      BY <2>2, <2>5 DEF Matches, Gentle
    <2> QED BY <2>3, <2>5, <2>6, <2>7, Zenon DEF Stepping
  <1> QED BY <1>1, <1>2, <1>3, <1>4, <1>5, <1>6

LEMMA FreshClock ==
  ASSUME CInv, NEW x \in States, NEW v \in Words, Drift(x, [ns |-> now, value |-> v]),
         [ns |-> now, value |-> v] \in Origins(x), s' = x, now' = now,
         origin' = [ns |-> now, value |-> v], queued' = queued,
         served' \in BOOLEAN, served' => x.match = x.itm
  PROVE  CInv'
  <1>1. TypeOK'
    BY DEF CInv, TypeOK, States, Origins
  <1>2. Drift(s, origin)'
    BY DEF Drift
  <1> QED BY <1>1, <1>2 DEF CInv

LEMMA WritesClock ==
  ASSUME CInv, WriteItm \/ WriteItc \/ Reset
  PROVE  CInv'
  <1>0. /\ now \in Nat /\ s \in States /\ origin \in Origins(s)
        /\ Drift(s, origin) /\ queued \in 0 .. MaxQueued
    BY CInvParts
  <1>1. CASE WriteItm
    <2>1. PICK v \in ItmValue : /\ s' = ItmUpdate(WithItm(s, v))
                                /\ served' = (s'.match # s.match)
                                /\ UNCHANGED <<now, queued, origin>>
      BY <1>1 DEF WriteItm, WithItm
    <2> DEFINE y == WithItm(s, v)
               x == ItmUpdate(y)
    <2>2. v \in Words
      BY ValueAssumption
    <2>3. y \in States /\ SameClock(s, y) /\ y.itm = v /\ y.match = s.match
      BY <1>0, <2>2, PreparedDoes, Zenon
    <2> HIDE DEF y
    <2>4. Drift(y, origin) /\ origin \in Origins(y)
      BY <1>0, <2>3, SameClockDrift, Zenon
    <2>5. x \in States /\ Matches(y, x)
      BY <1>0, <2>3, SettledUpdate, ArmedUpdate, Zenon
    <2>6. Drift(x, origin) /\ origin \in Origins(x)
      BY <1>0, <2>3, <2>4, UpdateDrift, Zenon
    <2>7. s' = x
      BY <2>1 DEF y
    <2> HIDE DEF x
    <2>8. served' => s'.match = s'.itm
      BY <2>1, <2>3, <2>5, <2>7, Zenon DEF Matches
    <2>9. TypeOK'
      BY <2>1, <2>5, <2>6, <2>7 DEF CInv, TypeOK, States, Origins
    <2>10. Drift(s, origin)'
      BY <2>1, <2>6, <2>7 DEF Drift
    <2> QED BY <2>8, <2>9, <2>10 DEF CInv
  <1>2. CASE WriteItc
    <2>1. PICK v \in ItcValue :
            /\ s' = ItmUpdate(IF s.itm = v THEN WithMatch(WithItc(s, v), v)
                              ELSE WithItc(s, v))
            /\ origin' = [ns |-> now, value |-> v]
            /\ served' = (s'.match # NONE)
            /\ UNCHANGED <<now, queued>>
      BY <1>2, Zenon DEF WriteItc, WithItc, WithMatch
    <2> DEFINE y == IF s.itm = v THEN WithMatch(WithItc(s, v), v)
                    ELSE WithItc(s, v)
               x == ItmUpdate(y)
               o == [ns |-> now, value |-> v]
    <2>2. v \in Words
      BY ValueAssumption
    <2>3. y \in States /\ Fresh(y, v) /\ y.itm = s.itm
      BY <1>0, <2>2, RestartedDoes, Zenon
    <2> HIDE DEF y
    <2>4. Drift(y, o) /\ o \in Origins(y)
      BY <1>0, <2>2, <2>3, FreshDrift, Zenon
    <2>5. x \in States /\ Matches(y, x)
      BY <1>0, <2>3, SettledUpdate, ArmedUpdate, Zenon
    <2> HIDE DEF o
    <2>6. Drift(x, o) /\ o \in Origins(x)
      BY <1>0, <2>3, <2>4, UpdateDrift, Zenon
    <2>7. s' = x
      BY <2>1 DEF y
    <2> HIDE DEF x
    <2>8. served' \in BOOLEAN /\ (served' => x.match = x.itm)
      BY <2>1, <2>3, <2>5, <2>7, Zenon DEF Matches, Fresh
    <2> QED BY <2>1, <2>2, <2>5, <2>6, <2>7, <2>8, FreshClock, Zenon DEF o
  <1>3. CASE Reset
    <2> DEFINE x == ResetState(now)
               o == [ns |-> now, value |-> 0]
    <2>1. s' = x /\ origin' = o /\ served' = FALSE /\ UNCHANGED <<now, queued>>
      BY <1>3 DEF Reset
    <2>2. x \in States /\ Fresh(x, 0)
      BY <1>0, ResetDoes, Zenon
    <2>3. 0 \in Words
      BY ModulusType DEF Words
    <2> HIDE DEF x
    <2>4. Drift(x, o) /\ o \in Origins(x)
      BY <1>0, <2>2, <2>3, FreshDrift, Zenon
    <2> QED BY <2>1, <2>2, <2>3, <2>4, FreshClock, Zenon
  <1> QED BY <1>1, <1>2, <1>3

LEMMA InitClock ==
  ASSUME Init
  PROVE  CInv
  <1>1. now = 0 /\ now \in Nat /\ s = ResetState(now) /\ queued = 0
        /\ origin = [ns |-> now, value |-> 0] /\ served = FALSE
    BY DEF Init
  <1>2. s \in States /\ Fresh(s, 0)
    BY <1>1, ResetDoes, Zenon
  <1>3. 0 \in Words
    BY ModulusType DEF Words
  <1>4. Drift(s, origin) /\ origin \in Origins(s)
    BY <1>1, <1>2, <1>3, FreshDrift, Zenon
  <1>5. 0 \in 0 .. MaxNow /\ 0 \in 0 .. MaxQueued
    BY BoundAssumption
  <1>6. TypeOK
    BY <1>1, <1>2, <1>4, <1>5, Zenon DEF TypeOK, Origins
  <1> QED BY <1>1, <1>4, <1>6 DEF CInv

LEMMA CInvariant ==
  Spec => []CInv
  <1>1. Init => CInv
    BY InitClock
  <1>2. CInv /\ [Next]_vars => CInv'
    <2> SUFFICES ASSUME CInv, [Next]_vars PROVE CInv'
      OBVIOUS
    <2>1. ASSUME \E x : Stepping(x) PROVE CInv'
      <3>1. PICK x : Stepping(x)
        BY <2>1
      <3> QED BY <3>1, StepClock DEF Stepping, Gentle
    <2>2. CASE Tick
      <3>1. TypeOK'
        BY <2>2, BoundAssumption DEF Tick, CInv, TypeOK, States
      <3> QED BY <2>2, <3>1 DEF Tick, CInv, Drift
    <2>3. CASE TimerFires \/ RunQueued
      BY <2>1, <2>3, WorkSteps, Zenon
    <2>4. CASE ReadItc \/ EnterHalt \/ PreSave \/ AcceptTimer \/ Eoi \/ WriteItv
      BY <2>1, <2>4, ProcessorSteps, Zenon
    <2>5. CASE WriteItm \/ WriteItc \/ Reset
      BY <2>5, WritesClock, Zenon
    <2>6. CASE UNCHANGED vars
      BY <2>6 DEF vars, CInv, TypeOK, Drift, States
    <2> QED BY <2>2, <2>3, <2>4, <2>5, <2>6 DEF Next
  <1> QED BY <1>1, <1>2, PTL DEF Spec

\* Apart from the ticks it owes, AR.ITC is the oscillator since its last
\* write, whatever the reads, matches, halts and snapshots in between, and
\* whether or not it has wrapped around: ia64_itc_sync() loses no fraction of
\* a tick, and the step past a match is repaid.
THEOREM ClockDoesNotDrift ==
  Spec => []NoDrift
  <1>1. CInv => NoDrift
    <2> SUFFICES ASSUME CInv PROVE NoDrift
      OBVIOUS
    <2> DEFINE n == s.last - origin.ns
    <2>1. n \in Int
      BY CInvParts DEF States, Origins
    <2>2. Phase(n, 0) = n * Frequency
      <3> HIDE DEF n
      <3>1. n * Frequency \in Int
        BY <2>1, RateAssumption
      <3> QED BY <3>1 DEF Phase
    <2>3. Drift(s, origin)
      BY DEF CInv
    <2> QED BY <2>2, <2>3 DEF Drift, NoDrift, Ticks
  <1> QED BY <1>1, CInvariant, PTL

\* The request of a match is raised once for one programming of ITM and ITC:
\* ia64_itm_raise() remembers the value, however often ia64_itm_update() and
\* the callback find the equality.
THEOREM MatchRaisedOnce ==
  Spec => RaisedOnce
  <1>1. CInv /\ Next => (served /\ s'.irr /\ ~s.irr => WriteItm \/ WriteItc)
    <2> SUFFICES ASSUME CInv, Next, served, s'.irr, ~s.irr,
                        ~WriteItm, ~WriteItc
                 PROVE  FALSE
      BY Zenon
    <2>1. served => s.match = s.itm
      BY DEF CInv
    <2>2. ASSUME \E x : Stepping(x) PROVE FALSE
      <3>1. PICK x : Stepping(x)
        BY <2>2
      <3>2. s' = x /\ Gentle(x)
        BY <3>1 DEF Stepping, Step
      <3> QED BY <2>1, <3>2 DEF Gentle
    <2>3. CASE Tick
      BY <2>3 DEF Tick
    <2>4. CASE TimerFires \/ RunQueued
      BY <2>2, <2>4, WorkSteps, Zenon
    <2>5. CASE ReadItc \/ EnterHalt \/ PreSave \/ AcceptTimer \/ Eoi \/ WriteItv
      BY <2>2, <2>5, ProcessorSteps, Zenon
    <2>6. CASE Reset
      <3>1. s' = ResetState(now) /\ now \in Nat
        BY <2>6, CInvParts DEF Reset
      <3> QED BY <3>1, ResetDoes, Zenon
    <2> QED BY <2>3, <2>4, <2>5, <2>6 DEF Next
  <1> QED BY <1>1, CInvariant, PTL DEF Spec, RaisedOnce

LEMMA UpdateMatches ==
  ASSUME NEW y \in States, now \in Nat, y.armed, y.armedValue = y.itm
  PROVE  LET r == ItmUpdate(y) IN
         ~r.armed /\ r.itv = "ON" => r.match = y.itm
  <1> DEFINE r == ItmUpdate(y)
  <1>1. CASE Settled(AdvancePending(y))
    <2>1. Matches(y, r) /\ (y.itv = "ON" => r.match = y.itm)
      BY <1>1, SettledUpdate, Zenon
    <2> HIDE DEF r
    <2>2. r.itv = "ON" => r.match = y.itm
      BY <2>1 DEF Matches
    <2> QED BY <2>2 DEF r
  <1>2. CASE ~Settled(AdvancePending(y))
    BY <1>2, ArmedUpdate, Zenon
  <1> QED BY <1>1, <1>2

LEMMA WorkMatches ==
  ASSUME NEW x \in States, now \in Nat, x.armed
  PROVE  LET r == TimerWork(x) IN
         ~r.armed /\ r.itv = "ON" => r.match = x.itm
  <1> DEFINE v == Unarmed(x)
             y == AdvancePending(v)
             r == TimerWork(x)
  <1>1. v \in States /\ Matches(x, v)
    BY UnarmedDoes, Zenon
  <1>2. WorkDone(x, r)
    BY WorkDoes, Zenon
  <1> HIDE DEF v, r
  <1>3. y \in States /\ Same(v, y) /\ AdvancePending(y) = y
    BY <1>1, AdvanceDoes, AdvanceTwice, Zenon
  <1> HIDE DEF y
  <1>4. y.itm = x.itm
    BY <1>1, <1>3 DEF Same, Matches
  <1>5. CASE r = SettledState(y, TRUE)
    <2>1. Matches(y, r) /\ (y.itv = "ON" => r.match = y.itm)
      BY <1>3, <1>5, SettledStateDoes, Zenon
    <2> QED BY <1>4, <2>1 DEF Matches, r
  <1>6. CASE ~Settled(y) /\ r = ItmUpdate(y)
    <2>1. r.armed
      BY <1>3, <1>6, ArmedUpdate, Zenon
    <2> QED BY <2>1 DEF r
  <1> QED BY <1>2, <1>5, <1>6, Zenon DEF WorkDone, y, v

\* An armed match that is neither reprogrammed nor masked ends in its
\* interrupt: every path that clears itm_armed has passed ia64_itm_raise() or
\* armed the timer again, also when the callback runs late or is stale.
THEOREM ArmedMatchKept ==
  Spec => ArmedEndsInMatch
  <1>1. CInv /\ Next =>
          (/\ s.armed /\ s.itv = "ON" /\ s.armedValue = s.itm
           /\ ~s'.armed /\ s'.itv = "ON" /\ s'.itm = s.itm /\ ~WriteItc
           => s'.match = s.itm)
    <2> SUFFICES ASSUME CInv, Next, s.armed, s.itv = "ON", s.armedValue = s.itm,
                        ~s'.armed, s'.itv = "ON", s'.itm = s.itm, ~WriteItc
                 PROVE  s'.match = s.itm
      BY Zenon
    <2>0. now \in Nat /\ s \in States
      BY CInvParts
    <2>1. CASE Tick
      BY <2>1 DEF Tick
    <2>2. CASE TimerFires
      <3> DEFINE e == Expired(s)
      <3>1. e \in States /\ Matches(s, e) /\ e.armed = s.armed
        BY <2>0, PreparedDoes, Zenon
      <3>2. s' = TimerWork(e) \/ s' = e
        BY <2>2 DEF TimerFires, Step, Expired
      <3> HIDE DEF e
      <3>3. ~TimerWork(e).armed /\ TimerWork(e).itv = "ON"
            => TimerWork(e).match = e.itm
        BY <2>0, <3>1, WorkMatches, Zenon
      <3> QED BY <3>1, <3>2, <3>3, Zenon DEF Matches
    <2>3. CASE RunQueued
      <3>1. s' = TimerWork(s)
        BY <2>3 DEF RunQueued, Step
      <3> QED BY <2>0, <3>1, WorkMatches, Zenon
    <2>4. CASE ReadItc
      <3>1. s' = AdvancePending(s) /\ Same(s, AdvancePending(s))
        BY <2>0, <2>4, AdvanceDoes, Zenon DEF ReadItc, Step
      <3> QED BY <3>1 DEF Same
    <2>5. CASE EnterHalt
      <3> DEFINE y == AdvancePending(s)
      <3>1. s' = ItmUpdate(y) /\ y \in States /\ Same(s, y)
        BY <2>0, <2>5, AdvanceDoes, Zenon DEF EnterHalt, Step
      <3> HIDE DEF y
      <3>2. y.armed /\ y.armedValue = y.itm /\ y.itm = s.itm
        BY <3>1 DEF Same
      <3> QED BY <2>0, <3>1, <3>2, UpdateMatches, Zenon
    <2>6. CASE PreSave
      <3>1. s' = Sync(s) /\ Same(s, Sync(s))
        BY <2>0, <2>6, SyncDoes, Zenon DEF PreSave, Step
      <3> QED BY <3>1 DEF Same
    <2>7. CASE AcceptTimer \/ Eoi
      <3>1. s'.armed = s.armed
        BY <2>0, <2>7, Zenon DEF AcceptTimer, Eoi, Step, States
      <3> QED BY <3>1
    <2>8. CASE WriteItv
      <3>1. PICK v \in Itvs : s' = ItmUpdate(WithItv(s, v))
        BY <2>8 DEF WriteItv, WithItv, Step
      <3> DEFINE y == WithItv(s, v)
      <3>2. y \in States /\ y.itm = s.itm /\ y.armed = s.armed
            /\ y.armedValue = s.armedValue
        BY <2>0, PreparedDoes, Zenon
      <3> HIDE DEF y
      <3>3. y.armed /\ y.armedValue = y.itm /\ s' = ItmUpdate(y)
        BY <3>1, <3>2 DEF y
      <3> QED BY <2>0, <3>2, <3>3, UpdateMatches, Zenon
    <2>9. CASE WriteItm
      <3>1. PICK v \in ItmValue : s' = ItmUpdate(WithItm(s, v))
        BY <2>9 DEF WriteItm, WithItm
      <3> DEFINE y == WithItm(s, v)
      <3>2. v \in Words
        BY ValueAssumption
      <3>3. y \in States /\ y.itm = v /\ y.armed = s.armed
            /\ y.armedValue = s.armedValue
        BY <2>0, <3>2, PreparedDoes, Zenon
      <3> HIDE DEF y
      <3>4. s' = ItmUpdate(y)
        BY <3>1 DEF y
      <3>5. Matches(y, s')
        BY <2>0, <3>3, <3>4, SettledUpdate, ArmedUpdate, Zenon
      <3>6. y.armed /\ y.armedValue = y.itm /\ y.itm = s.itm
        BY <3>3, <3>5 DEF Matches
      <3> QED BY <2>0, <3>3, <3>4, <3>6, UpdateMatches, Zenon
    <2>10. CASE Reset
      <3>1. s' = ResetState(now) /\ ResetState(now).itv = "MASKED"
        BY <2>0, <2>10, ResetDoes, Zenon DEF Reset
      <3> QED BY <3>1
    <2> QED BY <2>1, <2>2, <2>3, <2>4, <2>5, <2>6, <2>7, <2>8, <2>9, <2>10
            DEF Next
  <1> QED BY <1>1, CInvariant, PTL DEF Spec, ArmedEndsInMatch

-----------------------------------------------------------------------------
(* On the horizon no match is lost and no timer is early.                  *)

HInv ==
    /\ CInv
    /\ Placed(s, origin)
    /\ Early(s)
    /\ FutureIsArmed

LEMMA HInvParts ==
  ASSUME HInv
  PROVE  /\ now \in 0 .. MaxNow /\ now \in Nat /\ s \in States
         /\ Held(s, origin) /\ Early(s) /\ Waited(s)
         /\ Future(s) => s.timer # NONE \/ queued > 0
  <1>1. /\ now \in 0 .. MaxNow /\ now \in Nat /\ s \in States
        /\ origin \in Origins(s)
    BY CInvParts DEF HInv
  <1> QED BY <1>1 DEF HInv, Held, Waited, Future, FutureIsArmed

\* A state that holds all of it, whoever wrote it.
LEMMA HInvNext ==
  ASSUME CInv', Held(s', origin'), Early(s'),
         Future(s') => /\ s'.armed /\ s'.armedValue = s'.itm
                       /\ s'.timer # NONE \/ queued' > 0
  PROVE  HInv'
  <1>1. Placed(s, origin)' /\ Early(s)'
    BY DEF Held, Placed, Early
  <1>2. FutureIsArmed'
    BY DEF Future, FutureIsArmed
  <1> QED BY <1>1, <1>2 DEF HInv

LEMMA StepHorizon ==
  ASSUME HInv, CInv', NEW x, Step(x), Held(x, origin), Early(x),
         Future(x) => /\ x.armed /\ x.armedValue = x.itm
                      /\ x.timer # NONE \/ queued' > 0
  PROVE  HInv'
  <1>1. s' = x /\ origin' = origin
    BY DEF Step
  <1> QED BY <1>1, HInvNext

LEMMA SyncWaited ==
  ASSUME NEW x, NEW o, Held(x, o), now \in 0 .. MaxNow
  PROVE  Held(Sync(x), o) /\ Same(x, Sync(x)) /\ (Future(Sync(x)) => Future(x))
  <1> DEFINE z == Sync(x)
  <1>0. now \in Nat /\ x \in States /\ o \in Origins(x) /\ Placed(x, o)
    BY BoundAssumption DEF Held
  <1>1. Held(z, o) /\ Offset(z.itc) >= Offset(x.itc)
    BY <1>0, SyncPlaced, Zenon DEF Held
  <1>2. Same(x, z)
    BY <1>0, SyncDoes, Zenon
  <1> HIDE DEF z
  <1>3. /\ Signed(x.itm, x.itc) = Offset(x.itm) - Offset(x.itc)
        /\ Offset(x.itm) \in Int /\ Offset(x.itc) \in Int
    BY AheadIs, Zenon
  <1>4. Signed(z.itm, z.itc) = Offset(z.itm) - Offset(z.itc) /\ Offset(z.itc) \in Int
    BY <1>1, AheadIs, Zenon
  <1>5. z.itm = x.itm /\ z.itv = x.itv
    BY <1>2 DEF Same
  <1>6. Future(z) => Future(x)
    BY <1>1, <1>3, <1>4, <1>5 DEF Future
  <1> QED BY <1>1, <1>2, <1>6 DEF z

LEMMA FreshHeld ==
  ASSUME NEW x \in States, NEW v \in Words, Fresh(x, v), now \in Nat,
         Offset(v) \in Near, Offset(x.itm) \in Near
  PROVE  Held(x, [ns |-> now, value |-> v])
  <1> DEFINE o == [ns |-> now, value |-> v]
  <1>1. /\ o \in Origins(x) /\ Ticks(x.last - o.ns, 0) = 0
        /\ x.fraction = Phase(x.last - o.ns, 0) % Second
    BY FreshDrift, Zenon
  <1>2. o.value = v
    OBVIOUS
  <1> HIDE DEF o
  <1> DEFINE u == Offset(v)
  <1>3. u - 0 = u + 0 /\ u \in -Span .. Reach
    BY HorizonType DEF Near
  <1>4. Placed(x, o)
    BY <1>1, <1>2, <1>3 DEF Placed, Fresh
  <1> QED BY <1>1, <1>4 DEF Held, o

LEMMA WorkHorizon ==
  ASSUME HInv, CInv', TimerFires \/ RunQueued
  PROVE  HInv'
  <1> DEFINE e == Expired(s)
  <1>0. /\ now \in 0 .. MaxNow /\ now \in Nat /\ s \in States
        /\ Held(s, origin) /\ Early(s) /\ Waited(s) /\ queued \in 0 .. MaxQueued
    BY HInvParts, CInvParts DEF HInv
  <1>1. /\ e \in States /\ SameClock(s, e) /\ Matches(s, e) /\ e.match = s.match
        /\ e.armed = s.armed /\ e.armedValue = s.armedValue /\ e.timer = NONE
    BY <1>0, PreparedDoes, Zenon
  <1>2. CASE Step(TimerWork(e))
    <2> HIDE DEF e
    <2>1. Held(e, origin) /\ Early(e) /\ Waited(e)
      BY <1>0, <1>1 DEF Held, Placed, Origins, SameClock, Matches, Early, Waited, Future
    <2> DEFINE r == TimerWork(e)
    <2>2. /\ Held(r, origin) /\ Early(r)
          /\ Future(r) => r.armed /\ r.armedValue = r.itm /\ r.timer # NONE
      BY <1>0, <2>1, WorkHeld, Zenon
    <2> QED BY <1>2, <2>2, StepHorizon, Zenon
  <1>3. CASE queued' = queued + 1 /\ Step(e)
    <2> HIDE DEF e
    <2>1. Held(e, origin) /\ Early(e) /\ Waited(e)
      BY <1>0, <1>1 DEF Held, Placed, Origins, SameClock, Matches, Early, Waited, Future
    <2>2. queued' > 0
      BY <1>0, <1>3, BoundAssumption
    <2> QED BY <1>3, <2>1, <2>2, StepHorizon, Zenon DEF Waited
  <1>4. CASE RunQueued
    <2> DEFINE r == TimerWork(s)
    <2>1. /\ Held(r, origin) /\ Early(r)
          /\ Future(r) => r.armed /\ r.armedValue = r.itm /\ r.timer # NONE
      BY <1>0, WorkHeld, Zenon
    <2>2. Step(r)
      BY <1>4 DEF RunQueued
    <2> QED BY <2>1, <2>2, StepHorizon, Zenon
  <1> QED BY <1>2, <1>3, <1>4 DEF TimerFires, Expired

LEMMA ProcessorHorizon ==
  ASSUME HInv, CInv',
         ReadItc \/ EnterHalt \/ PreSave \/ AcceptTimer \/ Eoi \/ WriteItv
  PROVE  HInv'
  <1>0. /\ now \in 0 .. MaxNow /\ now \in Nat /\ s \in States
        /\ Held(s, origin) /\ Early(s) /\ Waited(s)
        /\ Future(s) => s.timer # NONE \/ queued > 0
    BY HInvParts
  <1>1. CASE ReadItc
    <2> DEFINE x == AdvancePending(s)
    <2>1. Held(x, origin) /\ Early(x) /\ Same(s, x) /\ (Future(x) => Future(s))
      BY <1>0, AdvanceHeld, AdvanceEarly, AdvanceWaited, AdvanceDoes, Zenon
    <2>2. Step(x) /\ queued' = queued
      BY <1>1 DEF ReadItc
    <2> HIDE DEF x
    <2>3. Future(x) => /\ x.armed /\ x.armedValue = x.itm
                       /\ x.timer # NONE \/ queued' > 0
      BY <1>0, <2>1, <2>2 DEF Same, Waited
    <2> QED BY <2>1, <2>2, <2>3, StepHorizon, Zenon
  <1>2. CASE EnterHalt
    <2> DEFINE y == AdvancePending(s)
               x == ItmUpdate(y)
    <2>1. Held(y, origin)
      BY <1>0, AdvanceHeld, Zenon
    <2>2. Step(x)
      BY <1>2 DEF EnterHalt
    <2> HIDE DEF y
    <2>3. /\ Held(x, origin) /\ Early(x)
          /\ Future(x) => x.armed /\ x.armedValue = x.itm /\ x.timer # NONE
      BY <1>0, <2>1, UpdateHeld, Zenon
    <2> QED BY <2>2, <2>3, StepHorizon, Zenon
  <1>3. CASE PreSave
    <2> DEFINE x == Sync(s)
    <2>1. Held(x, origin) /\ Early(x) /\ Same(s, x) /\ (Future(x) => Future(s))
      BY <1>0, SyncWaited, SyncEarly, Zenon
    <2>2. Step(x) /\ queued' = queued
      BY <1>3 DEF PreSave
    <2> HIDE DEF x
    <2>3. Future(x) => /\ x.armed /\ x.armedValue = x.itm
                       /\ x.timer # NONE \/ queued' > 0
      BY <1>0, <2>1, <2>2 DEF Same, Waited
    <2> QED BY <2>1, <2>2, <2>3, StepHorizon, Zenon
  <1>4. CASE AcceptTimer \/ Eoi
    <2>1. PICK x : /\ x = [s EXCEPT !.irr = FALSE, !.isr = TRUE]
                      \/ x = [s EXCEPT !.isr = FALSE]
                   /\ Step(x) /\ queued' = queued
      BY <1>4, Zenon DEF AcceptTimer, Eoi
    <2>2. x \in States
      BY <1>0, <2>1, ZenonT(60) DEF States
    <2>3. /\ SameClock(s, x) /\ x.itm = s.itm /\ x.match = s.match
          /\ x.itv = s.itv /\ x.armed = s.armed /\ x.armedValue = s.armedValue
          /\ x.timer = s.timer
      BY <1>0, <2>1, Zenon DEF States, SameClock
    <2>4. /\ Held(x, origin) /\ Early(x)
          /\ Future(x) => /\ x.armed /\ x.armedValue = x.itm
                          /\ x.timer # NONE \/ queued' > 0
      BY <1>0, <2>1, <2>2, <2>3
         DEF Held, Placed, Origins, SameClock, Early, Waited, Future
    <2> QED BY <2>1, <2>4, StepHorizon, Zenon
  <1>5. CASE WriteItv
    <2>1. PICK v \in Itvs : Step(ItmUpdate(WithItv(s, v)))
      BY <1>5 DEF WriteItv, WithItv
    <2> DEFINE y == WithItv(s, v)
               x == ItmUpdate(y)
    <2>2. y \in States /\ SameClock(s, y) /\ y.itm = s.itm /\ y.match = s.match
      BY <1>0, PreparedDoes, Zenon
    <2>3. Step(x)
      BY <2>1, SMTT(40)
    <2> HIDE DEF y
    <2>4. Held(y, origin)
      BY <1>0, <2>2 DEF Held, Placed, Origins, SameClock
    <2>5. /\ Held(x, origin) /\ Early(x)
          /\ Future(x) => x.armed /\ x.armedValue = x.itm /\ x.timer # NONE
      BY <1>0, <2>4, UpdateHeld, Zenon
    <2> QED BY <2>3, <2>5, StepHorizon, Zenon
  <1> QED BY <1>1, <1>2, <1>3, <1>4, <1>5

LEMMA WritesHorizon ==
  ASSUME HInv, CInv', WriteItm \/ WriteItc \/ Reset
  PROVE  HInv'
  <1>0. /\ now \in 0 .. MaxNow /\ now \in Nat /\ s \in States
        /\ Held(s, origin) /\ Offset(s.itm) \in Near
    BY HInvParts, SMTT(40) DEF Held, Placed
  <1>1. CASE WriteItm
    <2>1. PICK v \in ItmValue : s' = ItmUpdate(WithItm(s, v)) /\ origin' = origin
      BY <1>1 DEF WriteItm, WithItm
    <2> DEFINE y == WithItm(s, v)
               x == ItmUpdate(y)
    <2>2. v \in Words /\ Offset(v) \in Near
      BY ValueAssumption, HorizonType
    <2>3. y \in States /\ SameClock(s, y) /\ y.itm = v /\ y.match = s.match
      BY <1>0, <2>2, PreparedDoes, Zenon
    <2>4. s' = x
      BY <2>1
    <2> HIDE DEF y
    <2>5. Held(y, origin)
      BY <1>0, <2>2, <2>3 DEF Held, Placed, Origins, SameClock
    <2>6. /\ Held(x, origin) /\ Early(x)
          /\ Future(x) => x.armed /\ x.armedValue = x.itm /\ x.timer # NONE
      BY <1>0, <2>5, UpdateHeld, Zenon
    <2> HIDE DEF x
    <2> QED BY <2>1, <2>4, <2>6, HInvNext
  <1>2. CASE WriteItc
    <2>1. PICK v \in ItcValue :
            /\ s' = ItmUpdate(IF s.itm = v THEN WithMatch(WithItc(s, v), v)
                              ELSE WithItc(s, v))
            /\ origin' = [ns |-> now, value |-> v]
      BY <1>2, Zenon DEF WriteItc, WithItc, WithMatch
    <2> DEFINE y == IF s.itm = v THEN WithMatch(WithItc(s, v), v)
                    ELSE WithItc(s, v)
               x == ItmUpdate(y)
               o == [ns |-> now, value |-> v]
    <2>2. v \in Words /\ Offset(v) \in Near
      BY ValueAssumption, HorizonType
    <2>3. y \in States /\ Fresh(y, v) /\ y.itm = s.itm
      BY <1>0, <2>2, RestartedDoes, Zenon
    <2>4. s' = x
      BY <2>1
    <2> HIDE DEF y
    <2>5. Held(y, o)
      BY <1>0, <2>2, <2>3, FreshHeld
    <2> HIDE DEF o
    <2>6. /\ Held(x, o) /\ Early(x)
          /\ Future(x) => x.armed /\ x.armedValue = x.itm /\ x.timer # NONE
      BY <1>0, <2>5, UpdateHeld, Zenon
    <2> HIDE DEF x
    <2>7. origin' = o
      BY <2>1 DEF o
    <2> QED BY <2>4, <2>6, <2>7, HInvNext, SMTT(40)
  <1>3. CASE Reset
    <2> DEFINE x == ResetState(now)
               o == [ns |-> now, value |-> 0]
    <2>1. s' = x /\ origin' = o
      BY <1>3 DEF Reset
    <2>2. /\ x \in States /\ Fresh(x, 0) /\ x.itm = 0 /\ x.itv = "MASKED"
          /\ x.armed = FALSE
      BY <1>0, ResetDoes, Zenon
    <2>3. 0 \in Words /\ Offset(0) \in Near
      BY ModulusType, HorizonType DEF Words
    <2> HIDE DEF x
    <2>4. Held(x, o)
      BY <1>0, <2>2, <2>3, FreshHeld
    <2>5. Early(x) /\ ~Future(x)
      BY <2>2 DEF Early, Future
    <2> HIDE DEF o
    <2> QED BY <2>1, <2>4, <2>5, HInvNext
  <1> QED BY <1>1, <1>2, <1>3, SMTT(40)

LEMMA HInvariant ==
  Spec => []HInv
  <1>1. Init => HInv
    <2> SUFFICES ASSUME Init PROVE HInv
      OBVIOUS
    <2>1. now = 0 /\ now \in Nat /\ s = ResetState(now)
          /\ origin = [ns |-> now, value |-> 0]
      BY DEF Init
    <2>2. /\ s \in States /\ Fresh(s, 0) /\ s.itm = 0 /\ s.itv = "MASKED"
          /\ s.armed = FALSE
      BY <2>1, ResetDoes, Zenon
    <2>3. 0 \in Words /\ Offset(0) \in Near
      BY ModulusType, HorizonType DEF Words
    <2>4. Placed(s, origin)
      BY <2>1, <2>2, <2>3, FreshHeld DEF Held
    <2>5. Early(s) /\ FutureIsArmed
      BY <2>2 DEF Early, FutureIsArmed
    <2>6. CInv
      BY InitClock
    <2> QED BY <2>4, <2>5, <2>6 DEF HInv
  <1>2. CInv' /\ HInv /\ [Next]_vars => HInv'
    <2> SUFFICES ASSUME CInv', HInv, [Next]_vars PROVE HInv'
      OBVIOUS
    <2>1. CASE Tick
      BY <2>1 DEF Tick, HInv, Placed, Early, FutureIsArmed
    <2>2. CASE TimerFires \/ RunQueued
      BY <2>2, WorkHorizon, Zenon
    <2>3. CASE ReadItc \/ EnterHalt \/ PreSave \/ AcceptTimer \/ Eoi \/ WriteItv
      BY <2>3, ProcessorHorizon, Zenon
    <2>4. CASE WriteItm \/ WriteItc \/ Reset
      BY <2>4, WritesHorizon, Zenon
    <2>5. CASE UNCHANGED vars
      BY <2>5 DEF vars, HInv, Placed, Early, FutureIsArmed
    <2> QED BY <2>1, <2>2, <2>3, <2>4, <2>5 DEF Next
  <1> QED BY <1>1, <1>2, CInvariant, PTL DEF Spec

\* A match that lies ahead has its host timer or its callback is on the way,
\* in every order of reprogramming, masking, halts, resets, late and stale
\* callbacks, as long as the guest's values and the run stay on the horizon.
THEOREM FutureMatchArmed ==
  Spec => []FutureIsArmed
  <1>1. HInv => FutureIsArmed
    BY DEF HInv
  <1> QED BY <1>1, HInvariant, PTL

\* The host timer never expires before the oscillator has reached the match:
\* ia64_itc_delay_ns() rounds up, and later readings of ITC and the ticks it
\* owes leave the deadline right.
THEOREM DeadlineLateEnough ==
  Spec => []DeadlineNotEarly
  <1>1. HInv => DeadlineNotEarly
    BY DEF HInv, Early, DeadlineNotEarly
  <1> QED BY <1>1, HInvariant, PTL
=============================================================================
