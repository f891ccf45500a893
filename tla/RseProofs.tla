----------------------------- MODULE RseProofs ------------------------------
(***************************************************************************)
(* The register stack engine without a clean partition: its partitions     *)
(* cover the register file, its counts of collections are exact, what is   *)
(* interrupted finds the rest of its work, and values are kept, for any    *)
(* number of physical registers and any group size.                        *)
(***************************************************************************)
EXTENDS Rse, TLAPS

-----------------------------------------------------------------------------
(* The invariant.                                                          *)

\* Register words below the word a.
Index(a) == a - a \div Group

States == [sof : 0 .. N, sol : 0 .. N, bol : Regs, dirty : Int, dirtyNat : Int,
           clean : {0}, cleanNat : {0}, invalid : Nat, bsp : Int, bspstore : Int]

\* The partitions r: BSP is the word of a register and the dirty partition
\* is what lies between BSPSTORE and BSP.
Sound(r) ==
    /\ r \in States /\ r.sol <= r.sof
    /\ r.sof + r.dirty + r.invalid = N
    /\ r.bspstore = r.bsp - (r.dirty + r.dirtyNat)
    /\ ~IsCollection(r.bsp)
    /\ r.dirtyNat = r.bsp \div Group - r.bspstore \div Group

\* What is left of the instruction under way.
Pending ==
    /\ op \in [kind : {"none", "loads"}]
              \union [kind : {"alloc"}, frame : Frames, growth : Nat]
              \union [kind : {"loadrs"}, words : Int, left : Nat]
    /\ op.kind \in {"alloc", "loadrs"} => Complete(s)
    /\ op.kind = "loads" => ~Complete(s)
    /\ op.kind = "alloc" =>
          op.growth = op.frame.sof - s.sof - s.invalid - s.clean
    /\ op.kind = "loadrs" =>
          /\ s.sof = 0 /\ op.left > 0 /\ op.left = op.words - Live(s)
          /\ Index(s.bsp) - Index(s.bsp - op.words) <= N

PInv == Sound(s) /\ Pending

Contents == [gr : SUBSET Int, grDirty : SUBSET Nat, pgr : SUBSET Int, mem : SUBSET Int]

\* The physical register of the i-th register word.
Place(r, i) == (r.bol + (i - Index(r.bsp))) % N

\* The i-th register word, not yet saved, is in its physical register or, in
\* the current frame, in the view and, unless it is marked as written there,
\* in its physical register too.
Held(r, k, i) ==
    /\ i < Index(r.bsp) => Place(r, i) \in k.pgr
    /\ i >= Index(r.bsp) => /\ i - Index(r.bsp) \in k.gr
                            /\ i - Index(r.bsp) \in k.grDirty \/ Place(r, i) \in k.pgr

\* The value of word w is found in the contents k under the partitions r.
Found(r, k, w) ==
    /\ w \in Nat /\ ~IsCollection(w)
    /\ Index(w) < Index(r.bsp) + r.sof
    /\ Index(w) < Index(r.bspstore) => w \in k.mem
    /\ Index(w) >= Index(r.bspstore) => Held(r, k, Index(w))

VInv ==
    /\ c \in Contents
    /\ ~Complete(s) => c.grDirty = {}
    /\ word # Nowhere => Found(s, c, word)

\* No address of the backing store is below the first word.
BInv ==
    /\ s.bsp >= 0 /\ s.bspstore >= 0
    /\ op.kind = "loadrs" => s.bsp - op.words >= 0

IInv == PInv /\ BInv /\ VInv

-----------------------------------------------------------------------------
(* Division with remainder.                                                *)

LEMMA Quotient ==
    ASSUME NEW a \in Int, NEW b \in Nat \ {0}
    PROVE  /\ a \div b \in Int /\ a % b \in 0 .. b - 1
           /\ a = b * (a \div b) + (a % b)
OBVIOUS

LEMMA QuotientUnique ==
    ASSUME NEW a \in Int, NEW b \in Nat \ {0}, NEW q \in Int, NEW r \in 0 .. b - 1,
           a = b * q + r
    PROVE  a \div b = q /\ a % b = r
<1> DEFINE q1 == a \div b
           r1 == a % b
<1>1. q1 \in Int /\ r1 \in 0 .. b - 1 /\ a = b * q1 + r1
  BY Quotient, Zenon
<1> HIDE DEF q1, r1
<1>2. b * (q - q1) = r1 - r
  BY <1>1
<1>3. ~(q - q1 >= 1)
  BY <1>1, <1>2
<1>4. ~(q - q1 <= -1)
  BY <1>1, <1>2
<1>5. q = q1
  BY <1>1, <1>3, <1>4
<1>6. r = r1
  BY <1>1, <1>5
<1> QED
  BY <1>5, <1>6 DEF q1, r1

LEMMA Sizes == N \in Nat \ {0} /\ Group \in Nat \ {0, 1} /\ Group - 1 \in Nat \ {0}
               /\ Group \in Nat \ {0} /\ HasClean \in BOOLEAN
BY RseAssumption

\* A word, its group and its place in the group.
LEMMA Places ==
    ASSUME NEW a \in Int
    PROVE  /\ a \div Group \in Int /\ CollectBit(a) \in 0 .. Group - 1
           /\ a = Group * (a \div Group) + CollectBit(a)
           /\ Index(a) \in Int
           /\ ~IsCollection(a) <=> CollectBit(a) \in 0 .. Group - 2
<1>1. a \div Group \in Int /\ a % Group \in 0 .. Group - 1 /\ a = Group * (a \div Group) + (a % Group)
  BY Sizes, Quotient, Zenon
<1>2. Index(a) \in Int
  BY <1>1 DEF Index
<1>3. ~IsCollection(a) <=> CollectBit(a) \in 0 .. Group - 2
  BY <1>1, Sizes DEF IsCollection, CollectBit
<1> QED
  BY <1>1, <1>2, <1>3 DEF CollectBit

\* Going up by n registers and the collections among them.
LEMMA Grow ==
    ASSUME NEW a \in Int, NEW n \in Int
    PROVE  /\ NatWordsGrow(a, n) \in Int
           /\ ~IsCollection(a + n + NatWordsGrow(a, n))
           /\ (a + n + NatWordsGrow(a, n)) \div Group = a \div Group + NatWordsGrow(a, n)
           /\ Index(a + n + NatWordsGrow(a, n)) = Index(a) + n
<1> DEFINE x == a \div Group
           b == CollectBit(a)
           g == Group - 1
           q == (b + n) \div g
           r == (b + n) % g
           z == a + n + q
<1>1. x \in Int /\ b \in 0 .. Group - 1 /\ a = Group * x + b
  BY Places
<1>2. g \in Nat \ {0} /\ Group = g + 1
  BY Sizes
<1> HIDE DEF x, b, g
<1>3. b + n \in Int
  BY <1>1, <1>2
<1>4. q \in Int /\ r \in 0 .. g - 1 /\ b + n = g * q + r
  BY <1>2, <1>3, Quotient, Zenon
<1>5. q = NatWordsGrow(a, n)
  BY DEF NatWordsGrow, b, g
<1> HIDE DEF q, r
<1>6. z \in Int /\ x + q \in Int /\ r \in 0 .. Group - 1 /\ r # Group - 1
  BY <1>1, <1>2, <1>4
<1>7. z = Group * (x + q) + r
  <2>0. Group * x \in Int /\ g * q \in Int
    BY <1>1, <1>2, <1>4
  <2>1. z = Group * x + (g * q + r) + q
    BY <1>1, <1>2, <1>4, <2>0
  <2>2. Group * (x + q) = Group * x + g * q + q
    <3>1. g \in Int /\ x \in Int /\ q \in Int
      BY <1>1, <1>2, <1>4
    <3>2. (g + 1) * (x + q) = (g + 1) * x + (g + 1) * q
      BY <3>1
    <3>3. (g + 1) * q = g * q + q
      BY <3>1
    <3>4. (g + 1) * x \in Int /\ g * q \in Int
      BY <3>1
    <3> QED
      BY <1>2, <3>1, <3>2, <3>3, <3>4
  <2>3. Group * x \in Int /\ g * q \in Int
    BY <1>1, <1>2, <1>4
  <2> QED
    BY <1>4, <2>1, <2>2, <2>3
<1> HIDE DEF z
<1>8. z \div Group = x + q /\ z % Group = r
  BY <1>6, <1>7, Sizes, QuotientUnique, Zenon
<1>9. ~IsCollection(z)
  BY <1>6, <1>8 DEF IsCollection, CollectBit
<1>10. Index(z) = Index(a) + n
  BY <1>1, <1>4, <1>8 DEF Index, z, x
<1> QED
  BY <1>4, <1>5, <1>8, <1>9, <1>10 DEF z, x

\* Going down by n registers.
LEMMA Shrink ==
    ASSUME NEW a \in Int, NEW n \in Int
    PROVE  /\ NatWordsShrink(a, n) \in Int
           /\ ~IsCollection(a - (n + NatWordsShrink(a, n)))
           /\ (a - (n + NatWordsShrink(a, n))) \div Group = a \div Group - NatWordsShrink(a, n)
           /\ Index(a - (n + NatWordsShrink(a, n))) = Index(a) - n
<1> DEFINE x == a \div Group
           b == CollectBit(a)
           g == Group - 1
           e == Group - 2 - b + n
           q == e \div g
           r == e % g
           z == a - (n + q)
<1>1. x \in Int /\ b \in 0 .. Group - 1 /\ a = Group * x + b
  BY Places
<1>2. g \in Nat \ {0} /\ Group = g + 1
  BY Sizes
<1> HIDE DEF x, b, g
<1>3. e \in Int /\ e = g - 1 - b + n
  BY <1>1, <1>2
<1> HIDE DEF e
<1>4. q \in Int /\ r \in 0 .. g - 1 /\ e = g * q + r
  BY <1>2, <1>3, Quotient, Zenon
<1>5. q = NatWordsShrink(a, n)
  BY DEF NatWordsShrink, b, g, e
<1> HIDE DEF q, r
<1>6. z \in Int /\ x - q \in Int /\ g - 1 - r \in 0 .. Group - 1 /\ g - 1 - r # Group - 1
  BY <1>1, <1>2, <1>4
<1>7. z = Group * (x - q) + (g - 1 - r)
  <2>0. Group * x \in Int /\ g * q \in Int
    BY <1>1, <1>2, <1>4
  <2>1. z = Group * x + b - n - q
    BY <1>1, <1>2, <1>4, <2>0
  <2>2. Group * (x - q) = Group * x - g * q - q
    <3>1. g \in Int /\ x \in Int /\ q \in Int
      BY <1>1, <1>2, <1>4
    <3>2. (g + 1) * (x - q) = (g + 1) * x - (g + 1) * q
      BY <3>1
    <3>3. (g + 1) * q = g * q + q
      BY <3>1
    <3>4. (g + 1) * x \in Int /\ g * q \in Int
      BY <3>1
    <3> QED
      BY <1>2, <3>1, <3>2, <3>3, <3>4
  <2>3. Group * x \in Int /\ g * q \in Int
    BY <1>1, <1>2, <1>4
  <2> QED
    BY <1>1, <1>2, <1>3, <1>4, <2>1, <2>2, <2>3
<1> HIDE DEF z
<1>8. z \div Group = x - q /\ z % Group = g - 1 - r
  BY <1>6, <1>7, Sizes, QuotientUnique, Zenon
<1>9. ~IsCollection(z)
  BY <1>6, <1>8 DEF IsCollection, CollectBit
<1>10. Index(z) = Index(a) - n
  BY <1>1, <1>4, <1>8 DEF Index, z, x
<1> QED
  BY <1>4, <1>5, <1>8, <1>9, <1>10 DEF z, x

\* One word further: a register is passed, or a collection.
LEMMA NextWord ==
    ASSUME NEW a \in Int
    PROVE  /\ IsCollection(a) => (a + 1) \div Group = a \div Group + 1 /\ Index(a + 1) = Index(a)
           /\ ~IsCollection(a) => (a + 1) \div Group = a \div Group /\ Index(a + 1) = Index(a) + 1
<1> DEFINE x == a \div Group
           b == CollectBit(a)
<1>1. /\ x \in Int /\ b \in 0 .. Group - 1 /\ a = Group * x + b
      /\ ~IsCollection(a) <=> b \in 0 .. Group - 2
  BY Places
<1>2. Group \in Nat \ {0, 1}
  BY Sizes
<1> HIDE DEF x, b
<1>3. CASE IsCollection(a)
  <2>1. b = Group - 1
    BY <1>1, <1>2, <1>3
  <2>2. a + 1 = Group * (x + 1) + 0
    BY <1>1, <1>2, <2>1
  <2>3. a + 1 \in Int /\ x + 1 \in Int /\ 0 \in 0 .. Group - 1
    BY <1>1, <1>2
  <2>4. (a + 1) \div Group = x + 1
    BY <2>2, <2>3, Sizes, QuotientUnique, Zenon
  <2>5. Index(a + 1) = Index(a)
    BY <1>1, <2>4 DEF Index, x
  <2> QED
    BY <1>3, <2>4, <2>5 DEF x
<1>4. CASE ~IsCollection(a)
  <2>1. a + 1 = Group * x + (b + 1)
    BY <1>1, <1>2
  <2>2. a + 1 \in Int /\ b + 1 \in 0 .. Group - 1
    BY <1>1, <1>2, <1>4
  <2>3. (a + 1) \div Group = x
    BY <1>1, <2>1, <2>2, Sizes, QuotientUnique, Zenon
  <2>4. Index(a + 1) = Index(a) + 1
    BY <1>1, <2>3 DEF Index, x
  <2> QED
    BY <1>4, <2>3, <2>4 DEF x
<1> QED
  BY <1>3, <1>4

\* Words below are at lower places.
LEMMA IndexMonotone ==
    ASSUME NEW a \in Int, NEW b \in Int, a <= b
    PROVE  /\ Index(a) <= Index(b) /\ a \div Group <= b \div Group
           /\ a < b /\ ~IsCollection(a) => Index(a) < Index(b)
<1> DEFINE x == a \div Group
           y == b \div Group
           i == CollectBit(a)
           j == CollectBit(b)
<1>1. /\ x \in Int /\ i \in 0 .. Group - 1 /\ a = Group * x + i
      /\ ~IsCollection(a) <=> i \in 0 .. Group - 2
      /\ y \in Int /\ j \in 0 .. Group - 1 /\ b = Group * y + j
  BY Places
<1>2. Group \in Nat \ {0, 1} /\ Index(a) = a - x /\ Index(b) = b - y
  BY Sizes DEF Index
<1> HIDE DEF x, y, i, j
<1> DEFINE d == y - x
<1>3. d \in Int /\ b - a = Group * d + (j - i)
  BY <1>1, <1>2
<1>4. d >= 0
  <2> SUFFICES ASSUME d <= -1 PROVE FALSE
    BY <1>3
  <2>1. Group * d <= -Group
    BY <1>2, <1>3
  <2>2. Group * d \in Int
    BY <1>2, <1>3
  <2> HIDE DEF d
  <2> QED
    BY <1>1, <1>2, <1>3, <2>1, <2>2
<1>5. Index(b) - Index(a) = (b - a) - d
  BY <1>1, <1>2
<1>6. CASE d = 0
  BY <1>1, <1>2, <1>3, <1>5, <1>6
<1>7. CASE d >= 1
  <2>1. (Group - 1) * d >= Group - 1
    BY <1>2, <1>3, <1>7
  <2>2. Group * d - d = (Group - 1) * d
    BY <1>2, <1>3
  <2>3. (Group - 1) * d \in Int /\ Group * d \in Int
    BY <1>2, <1>3
  <2>4. Index(b) - Index(a) = (Group - 1) * d + (j - i)
    BY <1>1, <1>2, <1>3, <1>5, <2>2, <2>3
  <2>5. Index(a) \in Int /\ Index(b) \in Int
    BY <1>1, <1>2
  <2> HIDE DEF d
  <2> QED
    BY <1>1, <1>2, <2>1, <2>3, <2>4, <2>5
<1>8. a \div Group <= b \div Group
  BY <1>1, <1>4 DEF x, y
<1> QED
  BY <1>3, <1>4, <1>6, <1>7, <1>8

\* Register words are ordered as their places are.
LEMMA IndexOrder ==
    ASSUME NEW a \in Int, NEW b \in Int, ~IsCollection(a)
    PROVE  /\ a < b <=> Index(a) < Index(b)
           /\ ~IsCollection(b) /\ Index(a) = Index(b) => a = b
<1>1. Index(a) \in Int /\ Index(b) \in Int
  BY Places
<1>2. CASE a < b
  BY <1>1, <1>2, IndexMonotone
<1>3. CASE b < a
  BY <1>1, <1>3, IndexMonotone
<1>4. CASE a = b
  BY <1>1, <1>4
<1> QED
  BY <1>2, <1>3, <1>4

\* Registers of the ring.
LEMMA Rotate ==
    ASSUME NEW a \in Int, NEW b \in Int
    PROVE  /\ a % N \in Regs /\ ((a % N) + b) % N = (a + b) % N
           /\ a \in Regs => a % N = a
<1> DEFINE q == a \div N
           r == a % N
           t == (r + b) \div N
           u == (r + b) % N
<1>0. N \in Nat \ {0}
  BY Sizes
<1>1. q \in Int /\ r \in 0 .. N - 1 /\ a = N * q + r
  BY <1>0, Quotient, Zenon
<1>2. a \in 0 .. N - 1 => a % N = a
  <2> SUFFICES ASSUME a \in 0 .. N - 1 PROVE a % N = a
    OBVIOUS
  <2>1. a = N * 0 + a /\ 0 \in Int
    BY <1>0
  <2> QED
    BY <1>0, <2>1, QuotientUnique, Zenon
<1> HIDE DEF q, r
<1>3. r + b \in Int
  BY <1>0, <1>1
<1>4. t \in Int /\ u \in 0 .. N - 1 /\ r + b = N * t + u
  BY <1>0, <1>3, Quotient, Zenon
<1> HIDE DEF t, u
<1>5. a + b = N * (q + t) + u
  <2>1. N * (q + t) = N * q + N * t /\ N * q \in Int /\ N * t \in Int
    BY <1>0, <1>1, <1>4
  <2> QED
    BY <1>0, <1>1, <1>4, <2>1
<1>6. a + b \in Int /\ q + t \in Int
  BY <1>1, <1>4
<1>7. (a + b) % N = u
  BY <1>0, <1>4, <1>5, <1>6, QuotientUnique, Zenon
<1> QED
  BY <1>1, <1>2, <1>7 DEF r, u, Regs

LEMMA RotateApart ==
    ASSUME NEW a \in Int, NEW b \in Int, a % N = b % N, a - b < N, b - a < N
    PROVE  a = b
<1> DEFINE q == a \div N
           t == b \div N
           r == a % N
<1>0. N \in Nat \ {0}
  BY Sizes
<1>1. q \in Int /\ r \in 0 .. N - 1 /\ a = N * q + r
  BY <1>0, Quotient, Zenon
<1>2. t \in Int /\ b = N * t + r
  BY <1>0, Quotient, Zenon
<1> HIDE DEF q, t, r
<1> DEFINE d == q - t
<1>3. d \in Int /\ a - b = N * d
  BY <1>0, <1>1, <1>2
<1> HIDE DEF d
<1>4. CASE d >= 1
  BY <1>0, <1>3, <1>4
<1>5. CASE d <= -1
  BY <1>0, <1>3, <1>5
<1>6. CASE d = 0
  BY <1>0, <1>3, <1>6
<1> QED
  BY <1>3, <1>4, <1>5, <1>6

-----------------------------------------------------------------------------
(* Partitions.                                                             *)

LEMMA SoundFacts ==
    ASSUME NEW r, Sound(r)
    PROVE  /\ r.sof \in 0 .. N /\ r.sol \in 0 .. N /\ r.bol \in Int /\ r.bol \in Regs
           /\ r.dirty \in Int /\ r.dirtyNat \in Int /\ r.invalid \in Nat
           /\ r.clean = 0 /\ r.cleanNat = 0 /\ r.bsp \in Int /\ r.bspstore \in Int
           /\ r.sol <= r.sof
           /\ r.dirty = Index(r.bsp) - Index(r.bspstore)
           /\ Live(r) = r.bsp - r.bspstore /\ BspLoad(r) = r.bspstore - 1
           /\ Complete(r) <=> r.bspstore <= r.bsp
           /\ Complete(r) <=> r.dirty >= 0
           /\ Index(r.bsp) \in Int /\ Index(r.bspstore) \in Int
<1>1. /\ r.sof \in 0 .. N /\ r.sol \in 0 .. N /\ r.bol \in Regs
      /\ r.dirty \in Int /\ r.dirtyNat \in Int /\ r.invalid \in Nat
      /\ r.clean = 0 /\ r.cleanNat = 0 /\ r.bsp \in Int /\ r.bspstore \in Int
      /\ r.sol <= r.sof
  BY Zenon DEF Sound, States
<1>2. r.bol \in Int
  BY <1>1, Sizes DEF Regs
<1>3. /\ r.bspstore = r.bsp - (r.dirty + r.dirtyNat)
      /\ r.dirtyNat = r.bsp \div Group - r.bspstore \div Group
      /\ ~IsCollection(r.bsp)
  BY DEF Sound
<1>4. /\ r.bsp \div Group \in Int /\ r.bspstore \div Group \in Int
      /\ Index(r.bsp) \in Int /\ Index(r.bspstore) \in Int
  BY <1>1, Places
<1>5. r.dirty = Index(r.bsp) - Index(r.bspstore)
  BY <1>1, <1>3, <1>4 DEF Index
<1>6. Live(r) = r.bsp - r.bspstore /\ BspLoad(r) = r.bspstore - 1
  BY <1>1, <1>3 DEF Live, BspLoad
<1>7. CASE r.bspstore <= r.bsp
  <2>1. Index(r.bspstore) <= Index(r.bsp) /\ r.bspstore \div Group <= r.bsp \div Group
    BY <1>1, <1>7, IndexMonotone
  <2>2. r.dirty >= 0 /\ r.dirtyNat >= 0
    BY <1>1, <1>3, <1>4, <1>5, <2>1
  <2> QED
    BY <1>1, <1>2, <1>4, <1>5, <1>6, <1>7, <2>2 DEF Complete
<1>8. CASE r.bsp < r.bspstore
  <2>1. Index(r.bsp) < Index(r.bspstore)
    BY <1>1, <1>3, <1>8, IndexMonotone
  <2>2. ~(r.dirty >= 0)
    BY <1>1, <1>4, <1>5, <2>1
  <2> QED
    BY <1>1, <1>2, <1>4, <1>5, <1>6, <1>8, <2>2 DEF Complete
<1> QED
  BY <1>1, <1>7, <1>8

\* Another frame of the same size as the partitions allow.
LEMMA SoundFrame ==
    ASSUME NEW r, Sound(r), NEW f \in Frames, NEW i \in Nat,
           f.sof + r.dirty + i = N
    PROVE  /\ Sound(SetFrame([r EXCEPT !.invalid = i], f))
           /\ SetFrame([r EXCEPT !.invalid = i], f) =
                 [r EXCEPT !.invalid = i, !.sof = f.sof, !.sol = f.sol]
<1> DEFINE t == SetFrame([r EXCEPT !.invalid = i], f)
<1>1. r \in States /\ f.sof \in 0 .. N /\ f.sol \in 0 .. N /\ f.sol <= f.sof
  BY DEF Sound, Frames
<1>2. t = [r EXCEPT !.invalid = i, !.sof = f.sof, !.sol = f.sol]
  BY <1>1 DEF SetFrame, States
<1>3. /\ t \in States /\ t.sof = f.sof /\ t.sol = f.sol /\ t.invalid = i
      /\ t.dirty = r.dirty /\ t.dirtyNat = r.dirtyNat /\ t.bsp = r.bsp
      /\ t.bspstore = r.bspstore
  BY <1>1, <1>2, Zenon DEF States
<1> HIDE DEF t
<1>4. Sound(t)
  BY <1>1, <1>3, Zenon DEF Sound
<1> QED
  BY <1>2, <1>4 DEF t

\* What one mandatory store does to the partitions.
LEMMA StoreSound ==
    ASSUME ~HasClean, NEW r, Sound(r)
    PROVE  /\ Sound(StoreOne(r))
           /\ StoreOne(r) \in States
           /\ StoreOne(r).sof = r.sof /\ StoreOne(r).sol = r.sol
           /\ StoreOne(r).bol = r.bol /\ StoreOne(r).bsp = r.bsp
           /\ StoreOne(r).bspstore = r.bspstore + 1
           /\ IsCollection(r.bspstore) => StoreOne(r).invalid = r.invalid
           /\ ~IsCollection(r.bspstore) => StoreOne(r).invalid = r.invalid + 1
<1> DEFINE t == StoreOne(r)
<1>0. /\ r \in States /\ r.sol <= r.sof /\ r.sof + r.dirty + r.invalid = N
      /\ r.bspstore = r.bsp - (r.dirty + r.dirtyNat) /\ ~IsCollection(r.bsp)
      /\ r.dirtyNat = r.bsp \div Group - r.bspstore \div Group
  BY DEF Sound
<1>1. /\ r.dirty \in Int /\ r.dirtyNat \in Int /\ r.invalid \in Nat /\ r.sof \in 0 .. N
      /\ r.bsp \in Int /\ r.bspstore \in Int /\ N \in Nat
      /\ r.bsp \div Group \in Int /\ r.bspstore \div Group \in Int
  BY <1>0, SoundFacts, Sizes, Places, Zenon DEF States, Regs
<1>2. CASE IsCollection(r.bspstore)
  <2>1. t = [r EXCEPT !.bspstore = r.bspstore + 1, !.dirtyNat = r.dirtyNat - 1]
    BY <1>0, <1>2, Zenon DEF StoreOne, States
  <2>2. r.bspstore + 1 \in Int /\ r.dirtyNat - 1 \in Int
    BY <1>1
  <2> HIDE DEF t
  <2>3. /\ t \in States /\ t.sof = r.sof /\ t.sol = r.sol /\ t.bol = r.bol /\ t.bsp = r.bsp
        /\ t.bspstore = r.bspstore + 1 /\ t.dirtyNat = r.dirtyNat - 1
        /\ t.dirty = r.dirty /\ t.invalid = r.invalid
    BY <1>0, <2>1, <2>2, Zenon DEF States
  <2>4. t.bspstore \div Group = r.bspstore \div Group + 1
    BY <1>1, <1>2, <2>3, NextWord
  <2>5. Sound(t)
    BY <1>0, <1>1, <2>3, <2>4 DEF Sound
  <2> QED
    BY <1>2, <2>3, <2>5 DEF t
<1>3. CASE ~IsCollection(r.bspstore)
  <2>1. t = [r EXCEPT !.bspstore = r.bspstore + 1, !.dirty = r.dirty - 1,
                      !.invalid = r.invalid + 1]
    BY <1>0, <1>3 DEF StoreOne, States
  <2>2. r.bspstore + 1 \in Int /\ r.dirty - 1 \in Int /\ r.invalid + 1 \in Nat
    BY <1>1
  <2> HIDE DEF t
  <2>3. /\ t \in States /\ t.sof = r.sof /\ t.sol = r.sol /\ t.bol = r.bol /\ t.bsp = r.bsp
        /\ t.bspstore = r.bspstore + 1 /\ t.dirtyNat = r.dirtyNat
        /\ t.dirty = r.dirty - 1 /\ t.invalid = r.invalid + 1
    BY <1>0, <2>1, <2>2, Zenon DEF States
  <2>4. t.bspstore \div Group = r.bspstore \div Group
    BY <1>1, <1>3, <2>3, NextWord
  <2>5. Sound(t)
    BY <1>0, <1>1, <2>3, <2>4 DEF Sound
  <2> QED
    BY <1>3, <2>3, <2>5 DEF t
<1> QED
  BY <1>2, <1>3

\* What one mandatory load does: BSPSTORE goes down by a word.
LEMMA LoadSound ==
    ASSUME NEW r, Sound(r), NEW t, t = [LoadOne(r) EXCEPT !.bspstore = r.bspstore - 1],
           IsCollection(r.bspstore - 1) \/ r.invalid > 0
    PROVE  /\ Sound(t)
           /\ t.sof = r.sof /\ t.sol = r.sol /\ t.bol = r.bol /\ t.bsp = r.bsp
           /\ t.bspstore = r.bspstore - 1
           /\ SetBspstore(LoadOne(r)) = t
<1>0. /\ r \in States /\ r.sol <= r.sof /\ r.sof + r.dirty + r.invalid = N
      /\ r.bspstore = r.bsp - (r.dirty + r.dirtyNat) /\ ~IsCollection(r.bsp)
      /\ r.dirtyNat = r.bsp \div Group - r.bspstore \div Group
  BY DEF Sound
<1>1. /\ r.dirty \in Int /\ r.dirtyNat \in Int /\ r.invalid \in Nat /\ r.sof \in 0 .. N
      /\ r.bsp \in Int /\ r.bspstore \in Int /\ N \in Nat /\ BspLoad(r) = r.bspstore - 1
      /\ r.bsp \div Group \in Int /\ r.bspstore \div Group \in Int
  BY <1>0, SoundFacts, Sizes, Places DEF States, Regs
<1>2. r.bspstore - 1 \in Int /\ (r.bspstore - 1) + 1 = r.bspstore
      /\ (r.bspstore - 1) \div Group \in Int
  BY <1>1, Places
<1>3. CASE IsCollection(r.bspstore - 1)
  <2>1. LoadOne(r) = [r EXCEPT !.dirtyNat = r.dirtyNat + 1]
    BY <1>0, <1>1, <1>3, Zenon DEF LoadOne
  <2>2. r.dirtyNat + 1 \in Int
    BY <1>1
  <2>3. /\ t \in States /\ t.sof = r.sof /\ t.sol = r.sol /\ t.bol = r.bol /\ t.bsp = r.bsp
        /\ t.bspstore = r.bspstore - 1 /\ t.dirtyNat = r.dirtyNat + 1
        /\ t.dirty = r.dirty /\ t.invalid = r.invalid
    BY <1>0, <1>2, <2>1, <2>2, Zenon DEF States
  <2>4. r.bspstore \div Group = (r.bspstore - 1) \div Group + 1
    BY <1>2, <1>3, NextWord
  <2>5. Sound(t)
    <3>1. t.dirtyNat = t.bsp \div Group - t.bspstore \div Group
      BY <1>0, <1>1, <1>2, <2>3, <2>4
    <3>2. t.bspstore = t.bsp - (t.dirty + t.dirtyNat)
      BY <1>0, <1>1, <2>3
    <3> QED
      BY <1>0, <2>3, <3>1, <3>2, Zenon DEF Sound
  <2>6. SetBspstore(LoadOne(r)) = t
    <3>1. /\ LoadOne(r).bsp = r.bsp /\ LoadOne(r).dirty = r.dirty
          /\ LoadOne(r).dirtyNat = r.dirtyNat + 1
      BY <1>0, <2>1, Zenon DEF States
    <3>2. r.bsp - (r.dirty + (r.dirtyNat + 1)) = r.bspstore - 1
      BY <1>0, <1>1
    <3> QED
      BY <3>1, <3>2 DEF SetBspstore
  <2> QED
    BY <2>3, <2>5, <2>6
<1>4. CASE ~IsCollection(r.bspstore - 1)
  <2>1. LoadOne(r) = [r EXCEPT !.dirty = r.dirty + 1, !.invalid = r.invalid - 1]
    BY <1>0, <1>1, <1>4, Zenon DEF LoadOne, States
  <2>2. r.dirty + 1 \in Int /\ r.invalid - 1 \in Nat
    BY <1>1, <1>4
  <2>3. /\ t \in States /\ t.sof = r.sof /\ t.sol = r.sol /\ t.bol = r.bol /\ t.bsp = r.bsp
        /\ t.bspstore = r.bspstore - 1 /\ t.dirtyNat = r.dirtyNat
        /\ t.dirty = r.dirty + 1 /\ t.invalid = r.invalid - 1
    BY <1>0, <1>2, <2>1, <2>2, ZenonT(60) DEF States
  <2>4. r.bspstore \div Group = (r.bspstore - 1) \div Group
    BY <1>2, <1>4, NextWord
  <2>5. Sound(t)
    BY <1>0, <1>1, <1>2, <2>3, <2>4 DEF Sound
  <2>6. SetBspstore(LoadOne(r)) = t
    <3>1. /\ LoadOne(r).bsp = r.bsp /\ LoadOne(r).dirty = r.dirty + 1
          /\ LoadOne(r).dirtyNat = r.dirtyNat
      BY <1>0, <2>1, Zenon DEF States
    <3>2. r.bsp - ((r.dirty + 1) + r.dirtyNat) = r.bspstore - 1
      BY <1>0, <1>1
    <3> QED
      BY <3>1, <3>2 DEF SetBspstore
  <2> QED
    BY <2>3, <2>5, <2>6
<1> QED
  BY <1>3, <1>4

\* br.call and cover: n registers of the frame become dirty.
LEMMA PreserveSound ==
    ASSUME NEW r, Sound(r), NEW n \in 0 .. N, n <= r.sof, NEW f \in Frames,
           f.sof = r.sof - n
    PROVE  LET t == SetFrame(PreserveFrame(r, n), f) IN
           /\ Sound(t) /\ t.sof = r.sof - n /\ t.invalid = r.invalid
           /\ t.bol = (r.bol + n) % N /\ t.bspstore = r.bspstore
           /\ Index(t.bsp) = Index(r.bsp) + n
           /\ t.bsp >= r.bsp
<1> DEFINE nats == NatWordsGrow(r.bsp, n)
           t == SetFrame(PreserveFrame(r, n), f)
<1>0. /\ r \in States /\ r.sol <= r.sof /\ r.sof + r.dirty + r.invalid = N
      /\ r.bspstore = r.bsp - (r.dirty + r.dirtyNat) /\ ~IsCollection(r.bsp)
      /\ r.dirtyNat = r.bsp \div Group - r.bspstore \div Group
  BY DEF Sound
<1>1. /\ r.dirty \in Int /\ r.dirtyNat \in Int /\ r.invalid \in Nat /\ r.sof \in 0 .. N
      /\ r.bsp \in Int /\ r.bspstore \in Int /\ N \in Nat /\ n \in Int
      /\ r.bsp \div Group \in Int /\ r.bspstore \div Group \in Int
      /\ r.bol \in Int /\ r.bol \in Regs
  <2>1. n \in Int /\ N \in Nat
    BY Sizes
  <2>2. r.bsp \in Int /\ r.bspstore \in Int
    BY SoundFacts
  <2> QED
    BY <2>1, <2>2, SoundFacts, Places
<1>2. f.sof \in 0 .. N /\ f.sol \in 0 .. N /\ f.sol <= f.sof
  BY DEF Frames
<1>3. /\ nats \in Int /\ ~IsCollection(r.bsp + n + nats)
      /\ (r.bsp + n + nats) \div Group = r.bsp \div Group + nats
      /\ Index(r.bsp + n + nats) = Index(r.bsp) + n
  BY <1>1, Grow, Zenon
<1>4. n = 0 => nats = 0
  <2> SUFFICES ASSUME n = 0 PROVE nats = 0
    OBVIOUS
  <2>1. Index(r.bsp + n + nats) = Index(r.bsp) /\ r.bsp + n + nats \in Int /\ Index(r.bsp) \in Int
    BY <1>1, <1>3, Places
  <2>2. r.bsp = r.bsp + n + nats
    BY <1>0, <1>1, <1>3, <2>1, IndexOrder
  <2> QED
    BY <1>1, <1>3, <2>2
<1> HIDE DEF nats
<1>5. (r.bol + n) % N \in Regs /\ (n = 0 => (r.bol + n) % N = r.bol)
  <2>1. r.bol + n \in Int
    BY <1>1
  <2>2. (r.bol + n) % N \in Regs
    BY <2>1, Rotate, Zenon
  <2>3. r.bol % N = r.bol
    BY <1>1, Rotate, Zenon
  <2>4. n = 0 => r.bol + n = r.bol
    BY <1>1
  <2> QED
    BY <2>2, <2>3, <2>4
<1>6. PreserveFrame(r, n) =
         [r EXCEPT !.bol = (r.bol + n) % N, !.bsp = r.bsp + n + nats,
                   !.dirty = r.dirty + n, !.dirtyNat = r.dirtyNat + nats]
  <2>1. CASE n = 0
    <3>1. PreserveFrame(r, n) = r
      BY <2>1 DEF PreserveFrame
    <3>2. /\ (r.bol + n) % N = r.bol /\ r.bsp + n + nats = r.bsp
          /\ r.dirty + n = r.dirty /\ r.dirtyNat + nats = r.dirtyNat
      BY <1>1, <1>4, <1>5, <2>1
    <3> QED
      BY <1>0, <3>1, <3>2, Zenon DEF States
  <2>2. CASE n # 0
    BY <1>0, <2>2 DEF PreserveFrame, nats, States
  <2> QED
    BY <2>1, <2>2
<1>7. r.bsp + n + nats \in Int /\ r.dirty + n \in Int /\ r.dirtyNat + nats \in Int
  BY <1>1, <1>3
<1>8. /\ t \in States /\ t.sof = f.sof /\ t.sol = f.sol /\ t.bol = (r.bol + n) % N
      /\ t.bsp = r.bsp + n + nats /\ t.dirty = r.dirty + n
      /\ t.dirtyNat = r.dirtyNat + nats /\ t.invalid = r.invalid
      /\ t.bspstore = r.bspstore
  BY <1>0, <1>2, <1>5, <1>6, <1>7, ZenonT(60) DEF States, SetFrame
<1> HIDE DEF t
<1>9. Sound(t)
  <2>1. t.bsp \div Group = r.bsp \div Group + nats
    BY <1>3, <1>8
  <2> QED
    BY <1>0, <1>1, <1>2, <1>3, <1>8, <2>1 DEF Sound
<1>10. t.bsp >= r.bsp
  <2>1. Index(r.bsp) \in Int /\ t.bsp \in Int /\ Index(t.bsp) = Index(r.bsp) + n
    BY <1>1, <1>3, <1>7, <1>8, Places
  <2>2. ~(Index(t.bsp) < Index(r.bsp))
    BY <2>1
  <2>3. ~(t.bsp < r.bsp)
    BY <1>1, <1>3, <1>8, <2>1, <2>2, IndexOrder
  <2> QED
    BY <1>1, <2>1, <2>3
<1> QED
  BY <1>3, <1>8, <1>9, <1>10 DEF t

\* br.ret and rfi: n registers below the frame are part of the new one.
LEMMA RestoreSound ==
    ASSUME NEW r, Sound(r), NEW f \in Frames, NEW n \in 0 .. N, n <= f.sof,
           NEW t, t = RestoreFrame(r, f, n)
    PROVE  /\ Sound(t) /\ t.bspstore = r.bspstore /\ t.bol = (r.bol - n) % N
           /\ Index(t.bsp) = Index(r.bsp) - n
           /\ t.bsp <= r.bsp
           /\ \/ t.sof = 0
              \/ t.sof = f.sof /\ f.sof - n - r.sof <= r.invalid
<1> DEFINE nats == NatWordsShrink(r.bsp, n)
           growth == f.sof - n - r.sof
           bad == growth > r.invalid
           i == IF bad THEN r.invalid + n + r.sof ELSE r.invalid - growth
           g == IF bad THEN EmptyFrame ELSE f
           down == [r EXCEPT !.bol = (r.bol - n) % N, !.bsp = r.bsp - (n + nats)]
<1>0. /\ r \in States /\ r.sol <= r.sof /\ r.sof + r.dirty + r.invalid = N
      /\ r.bspstore = r.bsp - (r.dirty + r.dirtyNat) /\ ~IsCollection(r.bsp)
      /\ r.dirtyNat = r.bsp \div Group - r.bspstore \div Group
  BY DEF Sound
<1>1. /\ r.dirty \in Int /\ r.dirtyNat \in Int /\ r.invalid \in Nat /\ r.sof \in 0 .. N
      /\ r.bsp \in Int /\ r.bspstore \in Int /\ N \in Nat /\ n \in Int /\ n >= 0
      /\ r.bsp \div Group \in Int /\ r.bspstore \div Group \in Int
      /\ r.bol \in Int /\ r.bol \in Regs /\ r.clean = 0 /\ r.cleanNat = 0
  <2>1. n \in Int /\ N \in Nat /\ n >= 0
    BY Sizes
  <2>2. r.bsp \in Int /\ r.bspstore \in Int
    BY SoundFacts
  <2> QED
    BY <2>1, <2>2, SoundFacts, Places
<1>2. f.sof \in 0 .. N /\ f.sol \in 0 .. N /\ f.sol <= f.sof
  BY DEF Frames
<1>3. /\ nats \in Int /\ ~IsCollection(r.bsp - (n + nats))
      /\ (r.bsp - (n + nats)) \div Group = r.bsp \div Group - nats
      /\ Index(r.bsp - (n + nats)) = Index(r.bsp) - n
  BY <1>1, Shrink, Zenon
<1>4. (r.bol - n) % N \in Regs
  <2>1. r.bol - n \in Int
    BY <1>1
  <2> QED
    BY <2>1, Rotate, Zenon
<1>5. r.bsp - (n + nats) \in Int /\ r.dirty - n \in Int /\ r.dirtyNat - nats \in Int
      /\ i \in Nat /\ growth \in Int
  BY <1>1, <1>2, <1>3
<1>6. g.sof \in 0 .. N /\ g.sol \in 0 .. N /\ g.sol <= g.sof
      /\ g.sof + (r.dirty - n) + i = N
  <2>1. CASE bad
    BY <1>0, <1>1, <2>1 DEF EmptyFrame
  <2>2. CASE ~bad
    BY <1>0, <1>1, <1>2, <2>2
  <2> QED
    BY <2>1, <2>2
<1> HIDE DEF nats
<1>7. /\ down \in States /\ down.sof = r.sof /\ down.sol = r.sol
      /\ down.bol = (r.bol - n) % N /\ down.bsp = r.bsp - (n + nats)
      /\ down.dirty = r.dirty /\ down.dirtyNat = r.dirtyNat /\ down.clean = 0
      /\ down.cleanNat = 0 /\ down.invalid = r.invalid /\ down.bspstore = r.bspstore
  BY <1>0, <1>1, <1>4, <1>5, Zenon DEF States
<1>8. t = [down EXCEPT !.dirty = r.dirty - n, !.dirtyNat = r.dirtyNat - nats,
                       !.invalid = i, !.sof = g.sof, !.sol = g.sol]
  <2>1. CASE bad
    <3>1. growth > r.invalid + r.clean
      BY <1>1, <1>5, <2>1
    <3>2. t = SetFrame([down EXCEPT !.invalid = @ + n + r.sof, !.dirty = @ - n,
                                    !.dirtyNat = @ - nats], EmptyFrame)
      BY <3>1 DEF RestoreFrame, nats
    <3> QED
      BY <1>7, <2>1, <3>2, ZenonT(60) DEF SetFrame, States
  <2>2. CASE ~bad
    <3> DEFINE top == [down EXCEPT !.invalid = r.invalid - growth]
               missing == n - r.dirty
    <3>1. ~(growth > r.invalid + r.clean)
      BY <1>1, <1>5, <2>2
    <3>2. growth <= r.invalid
      BY <1>1, <1>5, <2>2
    <3>3. TakeRegisters(down, growth) = top
      BY <1>7, <3>2 DEF TakeRegisters
    <3>4. /\ top.sof = r.sof /\ top.sol = r.sol
          /\ top.bol = (r.bol - n) % N /\ top.bsp = r.bsp - (n + nats)
          /\ top.dirty = r.dirty /\ top.dirtyNat = r.dirtyNat /\ top.clean = 0
          /\ top.cleanNat = 0 /\ top.bspstore = r.bspstore
          /\ top.invalid = r.invalid - growth /\ DOMAIN top = DOMAIN down
      BY <1>7 DEF States
    <3>5. t = SetFrame(
              CASE missing <= 0 ->
                     [top EXCEPT !.dirty = @ - n, !.dirtyNat = @ - nats]
                [] missing > 0 /\ missing <= top.clean ->
                     [top EXCEPT !.clean = @ - missing, !.cleanNat = @ - (nats - top.dirtyNat),
                                 !.dirty = 0, !.dirtyNat = 0, !.bspstore = top.bsp]
                [] missing > top.clean ->
                     SetBspstore([top EXCEPT !.dirty = top.clean - missing,
                                             !.dirtyNat = top.cleanNat - (nats - top.dirtyNat),
                                             !.clean = 0, !.cleanNat = 0]), f)
      BY <3>1, <3>3, <3>4, Zenon DEF RestoreFrame, nats
    <3> DEFINE u == [top EXCEPT !.dirty = r.dirty - n, !.dirtyNat = r.dirtyNat - nats]
    <3>6. t = SetFrame(u, f)
      <4>1. CASE missing <= 0
        BY <1>1, <3>4, <3>5, <4>1
      <4>2. CASE missing > 0
        <5>1. top.clean - missing = r.dirty - n /\ missing > top.clean /\ ~(missing <= top.clean)
              /\ top.cleanNat - (nats - top.dirtyNat) = r.dirtyNat - nats /\ ~(missing <= 0)
          BY <1>1, <1>3, <3>4, <4>2
        <5> HIDE DEF top, missing
        <5>2. t = SetFrame(SetBspstore([top EXCEPT !.dirty = r.dirty - n,
                                           !.dirtyNat = r.dirtyNat - nats,
                                           !.clean = 0, !.cleanNat = 0]), f)
          BY <3>5, <5>1, Zenon
        <5> DEFINE v == [top EXCEPT !.dirty = r.dirty - n,
                                    !.dirtyNat = r.dirtyNat - nats,
                                    !.clean = 0, !.cleanNat = 0]
        <5>3. v.bsp - (v.dirty + v.dirtyNat) = r.bspstore
          <6>1. v.bsp = r.bsp - (n + nats) /\ v.dirty = r.dirty - n /\ v.dirtyNat = r.dirtyNat - nats
            BY <1>7, <3>4 DEF States
          <6> HIDE DEF v
          <6> QED
            BY <1>0, <1>1, <1>3, <6>1
        <5>4. SetBspstore(v) = [v EXCEPT !.bspstore = r.bspstore]
          BY <5>3, Zenon DEF SetBspstore
        <5>5. [v EXCEPT !.bspstore = r.bspstore] = u
          BY <1>7, <3>4, Zenon DEF States
        <5> QED
          BY <5>2, <5>4, <5>5
      <4> QED
        BY <1>1, <4>1, <4>2
    <3>7. SetFrame(u, f) = [down EXCEPT !.dirty = r.dirty - n, !.dirtyNat = r.dirtyNat - nats,
                       !.invalid = i, !.sof = g.sof, !.sol = g.sol]
      BY <1>7, <2>2, ZenonT(60) DEF SetFrame, States
    <3> QED
      BY <3>6, <3>7
  <2> QED
    BY <2>1, <2>2
<1>9. (bad => g.sof = 0) /\ (~bad => g.sof = f.sof)
  BY DEF EmptyFrame
<1> HIDE DEF i, g, down
<1>10. /\ t \in States /\ t.sof = g.sof /\ t.sol = g.sol /\ t.bol = (r.bol - n) % N
       /\ t.bsp = r.bsp - (n + nats) /\ t.dirty = r.dirty - n
       /\ t.dirtyNat = r.dirtyNat - nats /\ t.invalid = i
       /\ t.bspstore = r.bspstore
  <2> DEFINE x == r.dirty - n
             y == r.dirtyNat - nats
  <2>1. /\ down \in States /\ x \in Int /\ y \in Int /\ i \in Nat
        /\ g.sof \in 0 .. N /\ g.sol \in 0 .. N
        /\ t = [down EXCEPT !.dirty = x, !.dirtyNat = y, !.invalid = i,
                           !.sof = g.sof, !.sol = g.sol]
    BY <1>5, <1>6, <1>7, <1>8, Zenon
  <2> HIDE DEF x, y
  <2>2. t \in States
    BY <2>1, ZenonT(60) DEF States
  <2>3. /\ t.sof = g.sof /\ t.sol = g.sol /\ t.dirty = x /\ t.dirtyNat = y
        /\ t.invalid = i /\ t.bol = down.bol /\ t.bsp = down.bsp
        /\ t.bspstore = down.bspstore
    BY <2>1, ZenonT(60) DEF States
  <2> QED
    BY <1>7, <2>2, <2>3, Zenon DEF x, y
<1>11. Sound(t)
  <2>1. t.bsp \div Group = r.bsp \div Group - nats
    BY <1>3, <1>10
  <2>2. t.dirtyNat = t.bsp \div Group - t.bspstore \div Group
    <3>1. t.dirtyNat = r.dirtyNat - nats /\ t.bspstore = r.bspstore
      BY <1>10, Zenon
    <3>2. r.dirtyNat = r.bsp \div Group - r.bspstore \div Group
      BY <1>0, Zenon
    <3>3. r.bsp \div Group \in Int /\ r.bspstore \div Group \in Int /\ nats \in Int
      BY <1>1, <1>3, Zenon
    <3> QED
      BY <2>1, <3>1, <3>2, <3>3
  <2>3. t.bspstore = t.bsp - (t.dirty + t.dirtyNat)
    <3>1. /\ t.bsp = r.bsp - (n + nats) /\ t.dirty = r.dirty - n
          /\ t.dirtyNat = r.dirtyNat - nats /\ t.bspstore = r.bspstore
      BY <1>10, Zenon
    <3>2. r.bspstore = r.bsp - (r.dirty + r.dirtyNat)
      BY <1>0, Zenon
    <3>3. r.bsp \in Int /\ r.dirty \in Int /\ r.dirtyNat \in Int /\ n \in Int /\ nats \in Int
      BY <1>1, <1>3, Zenon
    <3> QED
      BY <3>1, <3>2, <3>3
  <2>4. t.sol <= t.sof /\ t.sof + t.dirty + t.invalid = N /\ ~IsCollection(t.bsp)
    BY <1>3, <1>6, <1>10
  <2> QED
    BY <1>10, <2>2, <2>3, <2>4, Zenon DEF Sound
<1>12. t.bsp <= r.bsp
  <2>1. Index(r.bsp) \in Int /\ t.bsp \in Int /\ Index(t.bsp) = Index(r.bsp) - n
    BY <1>1, <1>3, <1>5, <1>10, Places
  <2>2. ~(Index(r.bsp) < Index(t.bsp))
    BY <1>1, <2>1
  <2>3. ~(r.bsp < t.bsp)
    BY <1>0, <1>1, <2>1, <2>2, IndexOrder
  <2> QED
    BY <1>1, <2>1, <2>3
<1>13. t.sof = 0 \/ (t.sof = f.sof /\ growth <= r.invalid)
  BY <1>1, <1>5, <1>9, <1>10
<1> QED
  BY <1>3, <1>10, <1>11, <1>12, <1>13

\* The four partitions after an instruction that sets BSP, BSPSTORE and the
\* counts itself.
LEMMA SoundIntro ==
    ASSUME NEW r, r \in States, r.sol <= r.sof, r.sof + r.dirty + r.invalid = N,
           ~IsCollection(r.bsp),
           r.dirty = Index(r.bsp) - Index(r.bspstore),
           r.dirtyNat = r.bsp \div Group - r.bspstore \div Group
    PROVE  Sound(r)
<1>1. r.bsp \in Int /\ r.bspstore \in Int
  BY DEF States
<1>2. r.bsp \div Group \in Int /\ r.bspstore \div Group \in Int
  BY <1>1, Places
<1>3. r.bspstore = r.bsp - (r.dirty + r.dirtyNat)
  BY <1>1, <1>2 DEF Index
<1> QED
  BY <1>3 DEF Sound

\* Register words among the w words below the word of a register.
LEMMA WordsBelow ==
    ASSUME NEW a \in Int, ~IsCollection(a), NEW w \in Nat
    PROVE  RegisterWordsBelow(a, w) = Index(a) - Index(a - w)
<1> DEFINE x == a \div Group
           b == CollectBit(a)
           e == w - (b + 1)
           q == e \div Group
           m == e % Group
<1>1. x \in Int /\ b \in 0 .. Group - 2 /\ a = Group * x + b
  BY Places
<1>2. Group \in Nat \ {0, 1} /\ Group \in Nat \ {0}
  BY Sizes
<1> HIDE DEF x, b
<1>3. e \in Int
  BY <1>1, <1>2
<1> HIDE DEF e
<1>4. q \in Int /\ m \in 0 .. Group - 1 /\ e = Group * q + m
  BY <1>2, <1>3, Quotient, Zenon
<1>5. a - w \in Int
  BY <1>1
<1>6. CASE w < b + 1
  <2>1. a - w = Group * x + (b - w) /\ b - w \in 0 .. Group - 1
    BY <1>1, <1>2, <1>6
  <2>2. (a - w) \div Group = x
    BY <1>1, <1>2, <1>5, <2>1, QuotientUnique, Zenon
  <2>3. RegisterWordsBelow(a, w) = w
    BY <1>6 DEF RegisterWordsBelow, b
  <2> QED
    BY <1>1, <2>2, <2>3 DEF Index, x
<1>7. CASE ~(w < b + 1)
  <2>1. RegisterWordsBelow(a, w) = w - (1 + q)
    BY <1>7 DEF RegisterWordsBelow, b, e
  <2> HIDE DEF q, m
  <2>2. a - w = Group * x - e - 1
    <3>1. Group * x \in Int
      BY <1>1, <1>2
    <3> QED
      BY <1>1, <3>1 DEF e
  <2>3. Group * (x - q - 1) = Group * x - Group * q - Group
        /\ Group * x \in Int /\ Group * q \in Int
    <3>1. Group \in Int /\ x \in Int /\ q \in Int /\ x - q \in Int
      BY <1>1, <1>2, <1>4
    <3>2. Group * ((x - q) - 1) = Group * (x - q) - Group
      BY <3>1
    <3>3. Group * (x - q) = Group * x - Group * q
      BY <3>1
    <3>4. Group * x \in Int /\ Group * q \in Int
      BY <3>1
    <3> QED
      BY <3>1, <3>2, <3>3, <3>4
  <2>4. a - w = Group * (x - q - 1) + (Group - 1 - m)
    BY <1>2, <1>4, <2>2, <2>3
  <2>5. x - q - 1 \in Int /\ Group - 1 - m \in 0 .. Group - 1
    BY <1>1, <1>2, <1>4
  <2>6. (a - w) \div Group = x - q - 1
    BY <1>2, <1>5, <2>4, <2>5, QuotientUnique, Zenon
  <2> QED
    BY <1>1, <1>4, <2>1, <2>6 DEF Index, x
<1> QED
  BY <1>6, <1>7

-----------------------------------------------------------------------------
(* The partitions are sound in every reachable state.                      *)

LEMMA Quiet ==
    ASSUME Sound(s'), op' = None
    PROVE  PInv'
<1>1. None \in [kind : {"none", "loads"}] /\ None.kind = "none"
  BY DEF None
<1> QED
  BY <1>1 DEF PInv, Pending

LEMMA Same ==
    ASSUME PInv, s' = s, op' = op
    PROVE  PInv'
<1>1. Sound(s') /\ Pending
  BY DEF PInv
<1>2. Pending'
  BY <1>1 DEF Pending, Complete, Live
<1> QED
  BY <1>1, <1>2 DEF PInv

LEMMA Stepped ==
    ASSUME NEW r, NEW k, NEW w, Step(r, k, w)
    PROVE  s' = r
BY DEF Step

LEMMA EndsAlloc ==
    ASSUME NEW r, NEW k, NEW f, NEW r1, SetAllocFrame(r, k, f, r1)
    PROVE  s' = SetFrame(r, f)
BY Zenon DEF SetAllocFrame, Step

LEMMA AllocPInv ==
    ASSUME PInv, NEW f \in Frames, NEW r1 \in Targets, Alloc(f, r1)
    PROVE  PInv'
<1> DEFINE growth == f.sof - s.sof
           i == s.invalid - growth
<1>1. Sound(s) /\ op = None /\ Complete(s)
  BY DEF PInv, Alloc, Ready
<1>2. /\ s.sof \in 0 .. N /\ s.dirty \in Int /\ s.invalid \in Nat /\ s.clean = 0
      /\ f.sof \in 0 .. N /\ N \in Nat /\ s.sof + s.dirty + s.invalid = N
  BY <1>1, SoundFacts, Sizes, Zenon DEF Frames, Sound
<1>3. CASE growth <= s.invalid + s.clean /\ SetAllocFrame(TakeRegisters(s, growth), SyncFrameOut(s, c), f, r1)
           /\ UNCHANGED op
  <2>1. s' = SetFrame(TakeRegisters(s, growth), f)
    BY <1>3, EndsAlloc
  <2>2. TakeRegisters(s, growth) = [s EXCEPT !.invalid = i]
    BY <1>2, <1>3 DEF TakeRegisters
  <2>3. i \in Nat /\ f.sof + s.dirty + i = N
    BY <1>2, <1>3
  <2>4. Sound(s')
    BY <1>1, <2>1, <2>2, <2>3, SoundFrame, Zenon
  <2> QED
    BY <1>1, <1>3, <2>4, Quiet
<1>4. CASE growth > s.invalid + s.clean /\ Step(s, SyncFrameOut(s, c), word)
           /\ op' = [kind |-> "alloc", frame |-> f, growth |-> growth - s.invalid - s.clean]
  <2>1. s' = s
    BY <1>4, Stepped
  <2>2. growth - s.invalid - s.clean \in Nat
    BY <1>2, <1>4
  <2>3. op' \in [kind : {"alloc"}, frame : Frames, growth : Nat] /\ op'.kind = "alloc"
        /\ op'.growth = op'.frame.sof - s'.sof - s'.invalid - s'.clean
    BY <1>4, <2>1, <2>2
  <2> QED
    BY <1>1, <2>1, <2>3 DEF PInv, Pending
<1> QED
  BY <1>3, <1>4 DEF Alloc

LEMMA AllocStorePInv ==
    ASSUME ~HasClean, PInv, AllocStore
    PROVE  PInv'
<1>1. Sound(s) /\ Pending /\ op.kind = "alloc" /\ op.growth > 0
  BY DEF PInv, AllocStore
<1>2. s' = StoreOne(s)
  BY Stepped DEF AllocStore
<1>3. /\ op \in [kind : {"alloc"}, frame : Frames, growth : Nat]
      /\ op.growth = op.frame.sof - s.sof - s.invalid - s.clean
  BY <1>1 DEF Pending
<1>4. op.frame.sof \in 0 .. N /\ op.growth \in Nat /\ op.frame \in Frames
  BY <1>3 DEF Frames
<1>5. /\ s.sof \in 0 .. N /\ s.dirty \in Int /\ s.invalid \in Nat /\ s.clean = 0
      /\ s.bsp \in Int /\ s.bspstore \in Int /\ Index(s.bsp) \in Int /\ Index(s.bspstore) \in Int
      /\ s.dirty = Index(s.bsp) - Index(s.bspstore)
      /\ N \in Nat /\ s.sof + s.dirty + s.invalid = N
  BY <1>1, SoundFacts, Sizes, Zenon DEF Sound
<1>6. s.bspstore < s.bsp
  <2>1. s.dirty > 0
    BY <1>1, <1>3, <1>4, <1>5
  <2>2. ~(s.bsp <= s.bspstore)
    BY <1>5, <2>1, IndexMonotone
  <2> QED
    BY <1>5, <2>2
<1>7. /\ Sound(s') /\ s'.sof = s.sof /\ s'.bsp = s.bsp /\ s'.bspstore = s.bspstore + 1
      /\ IsCollection(s.bspstore) => s'.invalid = s.invalid
      /\ ~IsCollection(s.bspstore) => s'.invalid = s.invalid + 1
  BY <1>1, <1>2, StoreSound
<1>8. Complete(s') /\ s'.clean = 0
  <2>1. s'.bspstore <= s'.bsp
    BY <1>5, <1>6, <1>7
  <2> QED
    BY <1>7, <2>1, SoundFacts
<1>9. op' = [op EXCEPT !.growth = IF IsCollection(s.bspstore) THEN op.growth ELSE op.growth - 1]
  BY DEF AllocStore
<1>10. (IF IsCollection(s.bspstore) THEN op.growth ELSE op.growth - 1) \in Nat
  BY <1>1, <1>4
<1>11. op' \in [kind : {"alloc"}, frame : Frames, growth : Nat] /\ op'.kind = "alloc"
       /\ op'.frame = op.frame
       /\ op'.growth = IF IsCollection(s.bspstore) THEN op.growth ELSE op.growth - 1
  BY <1>3, <1>9, <1>10
<1>12. op'.growth = op'.frame.sof - s'.sof - s'.invalid - s'.clean
  <2>1. CASE IsCollection(s.bspstore)
    BY <1>3, <1>4, <1>5, <1>7, <1>8, <1>11, <2>1
  <2>2. CASE ~IsCollection(s.bspstore)
    <3>1. op'.growth = op.growth - 1 /\ s'.invalid = s.invalid + 1
      BY <1>7, <1>11, <2>2
    <3>2. op.growth = op.frame.sof - s.sof - s.invalid
      BY <1>3, <1>4, <1>5
    <3> QED
      BY <1>4, <1>5, <1>7, <1>8, <1>11, <3>1, <3>2
  <2> QED
    BY <2>1, <2>2
<1> QED
  BY <1>7, <1>8, <1>11, <1>12 DEF PInv, Pending

LEMMA AllocEndPInv ==
    ASSUME PInv, NEW r1 \in Targets, AllocEnd(r1)
    PROVE  PInv'
<1>1. Sound(s) /\ Pending /\ op.kind = "alloc" /\ op.growth = 0
  BY DEF PInv, AllocEnd
<1>2. /\ op \in [kind : {"alloc"}, frame : Frames, growth : Nat]
      /\ op.growth = op.frame.sof - s.sof - s.invalid - s.clean
  BY <1>1 DEF Pending
<1>3. op.frame.sof \in 0 .. N /\ op.frame \in Frames
  BY <1>2 DEF Frames
<1>4. /\ s.sof \in 0 .. N /\ s.dirty \in Int /\ s.invalid \in Nat /\ s.clean = 0
      /\ s.cleanNat = 0 /\ N \in Nat /\ s.sof + s.dirty + s.invalid = N /\ s \in States
  BY <1>1, SoundFacts, Sizes, Zenon DEF Sound
<1>5. s' = SetFrame([s EXCEPT !.invalid = 0, !.clean = 0, !.cleanNat = 0], op.frame)
  BY EndsAlloc DEF AllocEnd
<1>6. [s EXCEPT !.invalid = 0, !.clean = 0, !.cleanNat = 0] = [s EXCEPT !.invalid = 0]
  <2> DEFINE u == [s EXCEPT !.invalid = 0]
  <2>1. u \in States /\ u.clean = 0 /\ u.cleanNat = 0
    BY <1>4, Zenon DEF States
  <2>2. [s EXCEPT !.invalid = 0, !.clean = 0, !.cleanNat = 0]
           = [u EXCEPT !.clean = 0, !.cleanNat = 0]
    BY <1>4 DEF States
  <2> HIDE DEF u
  <2>3. [u EXCEPT !.clean = 0, !.cleanNat = 0] = u
    BY <2>1, Zenon DEF States
  <2> QED
    BY <2>2, <2>3 DEF u
<1>7. op.frame.sof + s.dirty + 0 = N
  BY <1>1, <1>2, <1>3, <1>4
<1> DEFINE i == 0
<1>8. /\ i \in Nat /\ op.frame.sof + s.dirty + i = N
      /\ s' = SetFrame([s EXCEPT !.invalid = i], op.frame)
  BY <1>5, <1>6, <1>7, Zenon
<1> HIDE DEF i
<1>9. Sound(s')
  BY <1>1, <1>3, <1>8, SoundFrame, Zenon
<1> QED
  BY <1>9, Quiet DEF AllocEnd

LEMMA BrCallPInv ==
    ASSUME PInv, BrCall
    PROVE  PInv'
<1> DEFINE f == [sof |-> s.sof - s.sol, sol |-> 0]
<1>1. Sound(s) /\ op' = None
  BY DEF PInv, BrCall, Ready
<1>2. s.sof \in 0 .. N /\ s.sol \in 0 .. N /\ s.sol <= s.sof /\ N \in Nat
  BY <1>1, SoundFacts, Sizes
<1>3. f \in Frames /\ f.sof = s.sof - s.sol
  BY <1>2 DEF Frames
<1>4. s' = SetFrame(PreserveFrame(s, s.sol), f)
  BY Stepped DEF BrCall
<1> HIDE DEF f
<1> QED
  BY <1>1, <1>2, <1>3, <1>4, PreserveSound, Quiet

LEMMA CoverPInv ==
    ASSUME PInv, Cover
    PROVE  PInv'
<1>1. Sound(s) /\ op' = None
  BY DEF PInv, Cover
<1>2. s.sof \in 0 .. N /\ N \in Nat
  BY <1>1, SoundFacts, Sizes
<1>3. EmptyFrame \in Frames /\ EmptyFrame.sof = s.sof - s.sof
  BY <1>2 DEF Frames, EmptyFrame
<1>4. s' = SetFrame(PreserveFrame(s, s.sof), EmptyFrame)
  BY Stepped DEF Cover
<1>5. s.sof <= s.sof
  BY <1>2
<1> QED
  BY <1>1, <1>2, <1>3, <1>4, <1>5, PreserveSound, Quiet

LEMMA ReturnPInv ==
    ASSUME PInv, NEW f \in Frames, NEW n \in 0 .. N, n <= f.sof, ReturnToFrame(f, n)
    PROVE  PInv'
<1>1. Sound(s)
  BY DEF PInv
<1>2. /\ s' = RestoreFrame(s, f, n)
      /\ op' = IF Complete(RestoreFrame(s, f, n)) THEN None ELSE [kind |-> "loads"]
  BY Stepped DEF ReturnToFrame
<1>3. Sound(s')
  BY <1>1, <1>2, RestoreSound
<1>4. CASE Complete(s')
  BY <1>2, <1>3, <1>4, Quiet
<1>5. CASE ~Complete(s')
  <2>1. op' = [kind |-> "loads"]
    BY <1>2, <1>5
  <2> QED
    BY <1>3, <1>5, <2>1 DEF PInv, Pending
<1> QED
  BY <1>4, <1>5

LEMMA RfiResumePInv ==
    ASSUME PInv, RfiResume
    PROVE  PInv'
<1>1. Sound(s') /\ ~Complete(s') /\ op' = [kind |-> "loads"]
  BY DEF PInv, RfiResume, Complete
<1> QED
  BY <1>1 DEF PInv, Pending

\* A mandatory load of an incomplete frame finds an invalid register.
LEMMA FrameLoadShape ==
    ASSUME PInv, FrameLoad
    PROVE  /\ Sound(s) /\ s.bsp < s.bspstore /\ s.invalid > s.sof - N /\ s.invalid > 0
           /\ s' = [LoadOne(s) EXCEPT !.bspstore = s.bspstore - 1]
           /\ Sound(s') /\ s'.sof = s.sof /\ s'.bol = s.bol /\ s'.bsp = s.bsp
           /\ s'.bspstore = s.bspstore - 1
<1>1. Sound(s) /\ ~Complete(s)
  BY DEF PInv, Pending, FrameLoad
<1>2. /\ s.sof \in 0 .. N /\ s.dirty \in Int /\ s.invalid \in Nat
      /\ s.bsp \in Int /\ s.bspstore \in Int
      /\ N \in Nat /\ s.sof + s.dirty + s.invalid = N
      /\ ~(s.dirty >= 0) /\ ~(s.bspstore <= s.bsp) /\ s \in States
  BY <1>1, SoundFacts, Sizes, Zenon DEF Sound
<1>3. s.invalid > 0 /\ s.bsp < s.bspstore /\ s.invalid > s.sof - N
  BY <1>2
<1>4. LoadOne(s).bspstore = s.bspstore
  BY <1>2 DEF LoadOne, States
<1>5. s' = [LoadOne(s) EXCEPT !.bspstore = s.bspstore - 1]
  BY <1>4, Stepped DEF FrameLoad
<1> QED
  BY <1>1, <1>3, <1>5, LoadSound, Zenon

LEMMA FrameLoadPInv ==
    ASSUME PInv, FrameLoad
    PROVE  PInv'
<1>1. Sound(s') /\ s' = [LoadOne(s) EXCEPT !.bspstore = s.bspstore - 1]
  BY FrameLoadShape
<1>2. op' = IF Complete(s') THEN None ELSE op
  BY Stepped DEF FrameLoad
<1>3. op.kind = "loads" /\ Pending
  BY DEF FrameLoad, PInv
<1>4. CASE Complete(s')
  BY <1>1, <1>2, <1>4, Quiet
<1>5. CASE ~Complete(s')
  <2>1. op' = op
    BY <1>2, <1>5
  <2>2. op \in [kind : {"none", "loads"}]
    BY <1>3 DEF Pending
  <2> QED
    BY <1>1, <1>3, <1>5, <2>1, <2>2 DEF PInv, Pending
<1> QED
  BY <1>4, <1>5

LEMMA FlushStorePInv ==
    ASSUME ~HasClean, PInv, FlushStore
    PROVE  PInv'
<1>1. Sound(s) /\ op' = None /\ s' = StoreOne(s)
  BY Stepped DEF PInv, FlushStore, Ready
<1> QED
  BY <1>1, StoreSound, Quiet

\* loadrs: the w words below BSP are dirty, and no others.
LEMMA LoadrsShape ==
    ASSUME PInv, NEW w \in Nat, Loadrs(w)
    PROVE  /\ Sound(s) /\ Sound(s') /\ op = None /\ s.bspstore <= s.bsp
           /\ s'.sof = s.sof /\ s'.bol = s.bol /\ s'.bsp = s.bsp
           /\ w >= Live(s) => s' = s
           /\ w < Live(s) => s'.bspstore = s.bsp - w /\ s.bspstore < s'.bspstore
           /\ Index(s.bsp) - Index(s.bsp - w) <= N
<1> DEFINE d == Index(s.bsp) - Index(s.bsp - w)
           e == s.bsp \div Group - (s.bsp - w) \div Group
           i == N - (s.sof + d)
<1>1. Sound(s) /\ op = None /\ Complete(s)
  BY DEF PInv, Loadrs, Ready
<1>2. /\ s.sof \in 0 .. N /\ s.dirty \in Int /\ s.dirtyNat \in Int /\ s.invalid \in Nat
      /\ s.clean = 0 /\ s.cleanNat = 0 /\ s.bsp \in Int /\ s.bspstore \in Int /\ N \in Nat
      /\ Index(s.bsp) \in Int /\ Index(s.bspstore) \in Int
      /\ s.dirty = Index(s.bsp) - Index(s.bspstore)
      /\ s.sof + s.dirty + s.invalid = N /\ Live(s) = s.bsp - s.bspstore
      /\ s.bspstore = s.bsp - (s.dirty + s.dirtyNat) /\ s.bspstore <= s.bsp
      /\ ~IsCollection(s.bsp) /\ s \in States /\ s.sol <= s.sof
  BY <1>1, SoundFacts, Sizes, Zenon DEF Sound
<1>3. s.bsp - w \in Int /\ d \in Int /\ e \in Int /\ d = w - e
  <2>1. s.bsp - w \in Int
    BY <1>2
  <2>2. Index(s.bsp - w) \in Int /\ (s.bsp - w) \div Group \in Int /\ s.bsp \div Group \in Int
    BY <1>2, <2>1, Places
  <2> QED
    BY <1>2, <2>1, <2>2 DEF Index
<1>4. d <= N
  <2>1. RegisterWordsBelow(s.bsp, w) <= N
    BY DEF Loadrs
  <2>2. RegisterWordsBelow(s.bsp, w) = d
    BY <1>2, WordsBelow
  <2> QED
    BY <2>1, <2>2
<1> HIDE DEF d, e
<1>5. CASE w >= Live(s)
  <2>1. s' = CleanToDirty(s)
    BY <1>5, Stepped DEF Loadrs
  <2>2. s.dirty + s.clean = s.dirty /\ s.dirtyNat + s.cleanNat = s.dirtyNat
    BY <1>2
  <2>3. [s EXCEPT !.dirty = @ + s.clean, !.clean = 0, !.dirtyNat = @ + s.cleanNat, !.cleanNat = 0] = s
    BY <1>2, <2>2, Zenon DEF States
  <2>4. SetBspstore(s) = s
    BY <1>2, Zenon DEF SetBspstore, States
  <2>5. s' = s
    BY <2>1, <2>3, <2>4 DEF CleanToDirty
  <2>6. ~(w < Live(s))
    BY <1>2, <1>5
  <2> QED
    BY <1>1, <1>2, <1>4, <1>5, <2>5, <2>6 DEF d
<1>6. CASE w < Live(s)
  <2>0. ~(w >= Live(s))
    BY <1>2, <1>6
  <2>1. s' = LoadrsKeep(w)
    BY <2>0, Stepped DEF Loadrs
  <2>2. s.bspstore < s.bsp - w /\ d <= s.dirty
    <3>1. s.bspstore < s.bsp - w
      BY <1>2, <1>6
    <3>2. Index(s.bspstore) <= Index(s.bsp - w) /\ Index(s.bsp - w) \in Int
      <4>1. s.bspstore \in Int /\ s.bsp - w \in Int /\ s.bspstore <= s.bsp - w
        BY <1>2, <1>3, <3>1
      <4> QED
        BY <4>1, IndexMonotone, Places, Zenon
    <3> QED
      <4>1. d \in Int /\ d = Index(s.bsp) - Index(s.bsp - w)
        BY <1>3 DEF d
      <4>2. s.dirty = Index(s.bsp) - Index(s.bspstore) /\ Index(s.bsp) \in Int
            /\ Index(s.bspstore) \in Int
        BY <1>2, Zenon
      <4> QED
        BY <3>1, <3>2, <4>1, <4>2
  <2>3. i \in Nat /\ s.sof + d + i = N
    BY <1>2, <1>3, <2>2
  <2> DEFINE u == [s EXCEPT !.dirty = d, !.dirtyNat = e, !.clean = 0, !.cleanNat = 0, !.invalid = i]
  <2>4. s' = SetBspstore(u)
    <3>1. w - e = d /\ N - (s.sof + w - e) = i
      BY <1>2, <1>3
    <3> HIDE DEF i
    <3> QED
      BY <2>1, <3>1, Zenon DEF LoadrsKeep, e
  <2> HIDE DEF i
  <2>5. /\ u \in States /\ u.sof = s.sof /\ u.sol = s.sol /\ u.bol = s.bol /\ u.bsp = s.bsp
        /\ u.dirty = d /\ u.dirtyNat = e /\ u.invalid = i
    BY <1>2, <1>3, <2>3, Zenon DEF States
  <2>6. s' = [u EXCEPT !.bspstore = s.bsp - w]
    <3>1. s.bsp - (d + e) = s.bsp - w
      BY <1>2, <1>3
    <3> QED
      BY <2>4, <2>5, <3>1, Zenon DEF SetBspstore
  <2> HIDE DEF u
  <2>7. /\ s' \in States /\ s'.sof = s.sof /\ s'.sol = s.sol /\ s'.bol = s.bol /\ s'.bsp = s.bsp
        /\ s'.dirty = d /\ s'.dirtyNat = e /\ s'.invalid = i /\ s'.bspstore = s.bsp - w
    BY <1>3, <2>5, <2>6, Zenon DEF States
  <2>8. Sound(s')
    <3>1. s'.dirty = Index(s'.bsp) - Index(s'.bspstore)
          /\ s'.dirtyNat = s'.bsp \div Group - s'.bspstore \div Group
      BY <2>7 DEF d, e
    <3>2. s'.sol <= s'.sof /\ s'.sof + s'.dirty + s'.invalid = N /\ ~IsCollection(s'.bsp)
      BY <1>2, <2>3, <2>7
    <3> QED
      BY <2>7, <3>1, <3>2, SoundIntro
  <2> QED
    BY <1>1, <1>2, <1>4, <1>6, <2>0, <2>2, <2>7, <2>8 DEF d
<1> QED
  BY <1>2, <1>5, <1>6

LEMMA LoadrsPInv ==
    ASSUME PInv, NEW w \in Nat, Loadrs(w)
    PROVE  PInv'
<1>1. /\ Sound(s) /\ Sound(s') /\ op = None /\ s.bspstore <= s.bsp
      /\ w >= Live(s) => s' = s
      /\ Index(s.bsp) - Index(s.bsp - w) <= N
  BY LoadrsShape
<1>2. /\ op' = IF w > Live(s) THEN [kind |-> "loadrs", words |-> w, left |-> w - Live(s)] ELSE None
      /\ s.sof = 0 \/ w = 0
  BY DEF Loadrs, Ready
<1>3. s.bsp \in Int /\ s.bspstore \in Int /\ Live(s) = s.bsp - s.bspstore /\ Complete(s)
  BY <1>1, SoundFacts
<1>4. CASE w > Live(s)
  <2>1. w - Live(s) \in Nat /\ w - Live(s) > 0 /\ w \in Int /\ w # 0 /\ w >= Live(s)
    BY <1>1, <1>3, <1>4
  <2>2. s' = s /\ s.sof = 0
    BY <1>1, <1>2, <2>1
  <2>3. op' = [kind |-> "loadrs", words |-> w, left |-> w - Live(s)]
    BY <1>2, <1>4
  <2>4. /\ op' \in [kind : {"loadrs"}, words : Int, left : Nat] /\ op'.kind = "loadrs"
        /\ op'.left = w - Live(s) /\ op'.words = w
    BY <2>1, <2>3
  <2> QED
    BY <1>1, <1>3, <2>1, <2>2, <2>4 DEF PInv, Pending
<1>5. CASE ~(w > Live(s))
  BY <1>1, <1>2, <1>5, Quiet
<1> QED
  BY <1>4, <1>5

\* A mandatory load of loadrs finds an invalid register, too.
LEMMA LoadrsLoadShape ==
    ASSUME PInv, LoadrsLoad
    PROVE  /\ Sound(s) /\ Sound(s') /\ s.bspstore <= s.bsp /\ s.sof = 0
           /\ s'.sof = s.sof /\ s'.bol = s.bol /\ s'.bsp = s.bsp
           /\ s'.bspstore = s.bspstore - 1
           /\ IsCollection(s.bspstore - 1) \/ s.invalid > 0
<1>1. Sound(s) /\ Pending /\ op.kind = "loadrs"
  BY DEF PInv, LoadrsLoad
<1>2. /\ op \in [kind : {"loadrs"}, words : Int, left : Nat]
      /\ s.sof = 0 /\ op.left > 0 /\ op.left = op.words - Live(s) /\ Complete(s)
      /\ Index(s.bsp) - Index(s.bsp - op.words) <= N
  BY <1>1 DEF Pending
<1>3. op.words \in Int /\ op.left \in Nat
  BY <1>2
<1>4. /\ s.dirty \in Int /\ s.invalid \in Nat /\ s.bsp \in Int /\ s.bspstore \in Int /\ N \in Nat
      /\ Index(s.bsp) \in Int /\ Index(s.bspstore) \in Int
      /\ s.dirty = Index(s.bsp) - Index(s.bspstore)
      /\ s.sof + s.dirty + s.invalid = N /\ Live(s) = s.bsp - s.bspstore
      /\ s.bspstore <= s.bsp
  BY <1>1, <1>2, SoundFacts, Sizes, Zenon DEF Sound
<1>5. ~IsCollection(s.bspstore - 1) => s.invalid > 0
  <2> SUFFICES ASSUME ~IsCollection(s.bspstore - 1) PROVE s.invalid > 0
    OBVIOUS
  <2>1. s.bspstore - 1 \in Int /\ s.bsp - op.words \in Int /\ s.bsp - op.words <= s.bspstore - 1
        /\ (s.bspstore - 1) + 1 = s.bspstore
    BY <1>2, <1>3, <1>4
  <2>2. Index(s.bspstore) = Index(s.bspstore - 1) + 1
    BY <2>1, NextWord
  <2>3. Index(s.bsp - op.words) <= Index(s.bspstore - 1)
    BY <2>1, IndexMonotone
  <2>4. Index(s.bsp - op.words) \in Int /\ Index(s.bspstore - 1) \in Int
    BY <2>1, Places
  <2>5. s.dirty + 1 <= N
    BY <1>2, <1>4, <2>2, <2>3, <2>4
  <2> QED
    BY <1>2, <1>4, <2>5
<1>6. s' = SetBspstore(LoadOne(s))
  BY Stepped DEF LoadrsLoad
<1> DEFINE t == [LoadOne(s) EXCEPT !.bspstore = s.bspstore - 1]
<1>7. /\ Sound(t) /\ t.sof = s.sof /\ t.bol = s.bol /\ t.bsp = s.bsp
      /\ t.bspstore = s.bspstore - 1 /\ SetBspstore(LoadOne(s)) = t
  BY <1>1, <1>5, LoadSound, Zenon
<1> HIDE DEF t
<1> QED
  BY <1>1, <1>2, <1>4, <1>5, <1>6, <1>7

LEMMA LoadrsLoadPInv ==
    ASSUME PInv, LoadrsLoad
    PROVE  PInv'
<1>1. /\ Sound(s) /\ Sound(s') /\ s.bspstore <= s.bsp /\ s'.sof = 0
      /\ s'.bsp = s.bsp /\ s'.bspstore = s.bspstore - 1
  BY LoadrsLoadShape
<1>2. /\ op \in [kind : {"loadrs"}, words : Int, left : Nat] /\ op.kind = "loadrs"
      /\ op.left > 0 /\ op.left = op.words - Live(s)
      /\ Index(s.bsp) - Index(s.bsp - op.words) <= N
  BY DEF PInv, Pending, LoadrsLoad
<1>3. op' = IF op.left > 1 THEN [op EXCEPT !.left = op.left - 1] ELSE None
  BY DEF LoadrsLoad
<1>4. /\ s.bsp \in Int /\ s.bspstore \in Int /\ Live(s) = s.bsp - s.bspstore
      /\ s'.bsp \in Int /\ s'.bspstore \in Int /\ Live(s') = s'.bsp - s'.bspstore
      /\ Complete(s') <=> s'.bspstore <= s'.bsp
      /\ op.words \in Int /\ op.left \in Nat
  BY <1>1, <1>2, SoundFacts
<1>5. CASE op.left > 1
  <2>1. op.left - 1 \in Nat /\ op.left - 1 > 0
    BY <1>4, <1>5
  <2>2. op' = [op EXCEPT !.left = op.left - 1]
    BY <1>3, <1>5
  <2>3. /\ op' \in [kind : {"loadrs"}, words : Int, left : Nat] /\ op'.kind = "loadrs"
        /\ op'.words = op.words /\ op'.left = op.left - 1
    BY <1>2, <2>1, <2>2
  <2>4. Complete(s') /\ op.left - 1 = op.words - Live(s')
    BY <1>1, <1>2, <1>4
  <2> QED
    BY <1>1, <1>2, <2>1, <2>3, <2>4 DEF PInv, Pending
<1>6. CASE ~(op.left > 1)
  BY <1>1, <1>3, <1>6, Quiet
<1> QED
  BY <1>5, <1>6

\* mov to AR.BSPSTORE: the dirty registers get words from a on.
LEMMA MovShape ==
    ASSUME PInv, NEW a \in Int, MovToBspstore(a)
    PROVE  /\ Sound(s) /\ Sound(s') /\ op = None /\ s.bspstore <= s.bsp
           /\ s'.sof = s.sof /\ s'.bol = s.bol /\ s'.bspstore = a
           /\ Index(s'.bsp) = Index(a) + s.dirty
<1> DEFINE nats == NatWordsGrow(a, s.dirty)
<1>1. Sound(s) /\ op = None /\ Complete(s)
  BY DEF PInv, MovToBspstore, Ready
<1>2. /\ s.dirty \in Int /\ s.invalid \in Nat /\ s.clean = 0 /\ s.bspstore <= s.bsp
      /\ s.sof + s.dirty + s.invalid = N /\ s.sol <= s.sof /\ s \in States
  BY <1>1, SoundFacts, Zenon DEF Sound
<1>3. /\ nats \in Int /\ ~IsCollection(a + s.dirty + nats)
      /\ (a + s.dirty + nats) \div Group = a \div Group + nats
      /\ Index(a + s.dirty + nats) = Index(a) + s.dirty
  BY <1>2, Grow, Zenon
<1>4. s' = [s EXCEPT !.bspstore = a, !.dirtyNat = nats, !.bsp = a + s.dirty + nats,
                     !.invalid = s.invalid + s.clean, !.clean = 0, !.cleanNat = 0]
  BY Stepped DEF MovToBspstore
<1>5. a + s.dirty + nats \in Int /\ s.invalid + s.clean = s.invalid /\ s.invalid + s.clean \in Nat
  BY <1>2, <1>3
<1> HIDE DEF nats
<1>6. /\ s' \in States /\ s'.sof = s.sof /\ s'.sol = s.sol /\ s'.bol = s.bol
      /\ s'.bsp = a + s.dirty + nats /\ s'.bspstore = a /\ s'.dirty = s.dirty
      /\ s'.dirtyNat = nats /\ s'.invalid = s.invalid + s.clean
  BY <1>2, <1>3, <1>4, <1>5, Zenon DEF States
<1>7. Sound(s')
  <2>1. Index(a) \in Int /\ a \div Group \in Int
    BY Places
  <2>2. s'.dirty = Index(s'.bsp) - Index(s'.bspstore)
    BY <1>2, <1>3, <1>6, <2>1
  <2>3. s'.dirtyNat = s'.bsp \div Group - s'.bspstore \div Group
    BY <1>3, <1>6, <2>1
  <2>4. s'.sol <= s'.sof /\ s'.sof + s'.dirty + s'.invalid = N /\ ~IsCollection(s'.bsp)
    BY <1>2, <1>3, <1>5, <1>6, Zenon
  <2> QED
    BY <1>6, <2>2, <2>3, <2>4, SoundIntro
<1> QED
  BY <1>1, <1>2, <1>3, <1>6, <1>7

LEMMA MovPInv ==
    ASSUME PInv, NEW a \in Int, MovToBspstore(a)
    PROVE  PInv'
BY MovShape, Quiet, Zenon DEF MovToBspstore

\* br.ia: nothing is in the register stack.
LEMMA Ia32Shape ==
    ASSUME PInv, EnterIa32
    PROVE  /\ Sound(s) /\ Sound(s') /\ op = None /\ s.bspstore <= s.bsp
           /\ s'.sof = 0 /\ s'.bol = s.bol /\ s'.bsp = s.bsp /\ s'.bspstore = s.bsp
<1>1. Sound(s) /\ op = None /\ Complete(s)
  BY DEF PInv, EnterIa32, Ready
<1>2. /\ s.bsp \in Int /\ s.bspstore <= s.bsp /\ ~IsCollection(s.bsp)
      /\ s \in States /\ N \in Nat /\ 0 \in 0 .. N /\ s.bsp \div Group \in Int /\ Index(s.bsp) \in Int
  <2>1. s.bsp \in Int
    BY <1>1, SoundFacts
  <2>2. s.bspstore <= s.bsp
    BY <1>1, SoundFacts
  <2>3. N \in Nat /\ 0 \in 0 .. N
    BY Sizes
  <2>4. ~IsCollection(s.bsp) /\ s \in States
    BY <1>1 DEF Sound
  <2>5. s.bsp \div Group \in Int /\ Index(s.bsp) \in Int
    BY <2>1, Places
  <2> QED
    BY <2>1, <2>2, <2>3, <2>4, <2>5
<1>3. s' = [s EXCEPT !.sof = 0, !.sol = 0, !.dirty = 0, !.dirtyNat = 0, !.clean = 0,
                     !.cleanNat = 0, !.invalid = N, !.bspstore = s.bsp]
  BY Stepped DEF EnterIa32
<1>4. /\ s' \in States /\ s'.sof = 0 /\ s'.sol = 0 /\ s'.bol = s.bol
      /\ s'.bsp = s.bsp /\ s'.bspstore = s.bsp /\ s'.dirty = 0
      /\ s'.dirtyNat = 0 /\ s'.invalid = N
  <2>1. 0 \in Int
    OBVIOUS
  <2> QED
    BY <1>2, <1>3, <2>1, Zenon DEF States
<1>5. Sound(s')
  <2>1. s'.sol <= s'.sof /\ s'.sof + s'.dirty + s'.invalid = N /\ ~IsCollection(s'.bsp)
        /\ s'.dirty = Index(s'.bsp) - Index(s'.bspstore)
        /\ s'.dirtyNat = s'.bsp \div Group - s'.bspstore \div Group
    BY <1>2, <1>4
  <2> QED
    BY <1>4, <2>1, SoundIntro
<1> QED
  BY <1>1, <1>2, <1>4, <1>5

LEMMA Ia32PInv ==
    ASSUME PInv, EnterIa32
    PROVE  PInv'
BY Ia32Shape, Quiet DEF EnterIa32

LEMMA ResetShape ==
    ASSUME NEW a \in Int, ~IsCollection(a)
    PROVE  Sound(Reset) /\ Sound(Handoff(a))
<1>0. N \in Nat \ {0} /\ 0 \in 0 .. N /\ N \in 0 .. N /\ 0 \in Int /\ 0 \in Nat /\ 0 \in Regs
  BY Sizes DEF Regs
<1>1. 0 \in Int /\ ~IsCollection(0)
  <2>1. 0 \div Group = 0 /\ 0 % Group = 0
    <3>1. 0 = Group * 0 + 0 /\ 0 \in 0 .. Group - 1
      BY Sizes
    <3> QED
      BY <3>1, Sizes, QuotientUnique
  <2> QED
    BY <2>1, Sizes DEF IsCollection, CollectBit
<1>2. Sound(Reset)
  <2>1. /\ Reset \in States /\ Reset.sof = N /\ Reset.sol = 0 /\ Reset.dirty = 0
        /\ Reset.dirtyNat = 0 /\ Reset.invalid = 0 /\ Reset.bsp = 0 /\ Reset.bspstore = 0
    BY <1>0, Zenon DEF Reset, States
  <2>2. Index(0) \in Int /\ 0 \div Group \in Int
    BY <1>1, Places
  <2>3. Reset.sol <= Reset.sof /\ Reset.sof + Reset.dirty + Reset.invalid = N
        /\ Reset.dirty = Index(Reset.bsp) - Index(Reset.bspstore)
        /\ Reset.dirtyNat = Reset.bsp \div Group - Reset.bspstore \div Group
    BY <1>0, <2>1, <2>2
  <2> QED
    BY <1>1, <2>1, <2>3, SoundIntro
<1>3. Sound(Handoff(a))
  <2> DEFINE h == Handoff(a)
  <2>1. /\ h \in States /\ h.sof = 0 /\ h.sol = 0 /\ h.dirty = 0
        /\ h.dirtyNat = 0 /\ h.invalid = N /\ h.bsp = a /\ h.bspstore = a
    BY <1>0, Zenon DEF Handoff, Reset, States
  <2>2. Index(a) \in Int /\ a \div Group \in Int
    BY Places
  <2> HIDE DEF h
  <2>3. h.sol <= h.sof /\ h.sof + h.dirty + h.invalid = N
        /\ h.dirty = Index(h.bsp) - Index(h.bspstore)
        /\ h.dirtyNat = h.bsp \div Group - h.bspstore \div Group /\ ~IsCollection(h.bsp)
    BY <1>0, <2>1, <2>2
  <2>4. Sound(h)
    BY <2>1, <2>3, SoundIntro
  <2> QED
    BY <2>4 DEF h
<1> QED
  BY <1>2, <1>3

LEMMA InitPInv == Init => PInv
<1> SUFFICES ASSUME Init PROVE PInv
  OBVIOUS
<1>1. Sound(s)
  <2>1. CASE s = Reset
    <3>1. \E a \in Int : ~IsCollection(a)
      <4>1. IsCollection(0) => ~IsCollection(1)
        <5>1. 0 \in Int /\ 0 + 1 = 1 /\ 0 % Group = 0
          <6>1. 0 = Group * 0 + 0 /\ 0 \in 0 .. Group - 1
            BY Sizes
          <6> QED
            BY <6>1, Sizes, QuotientUnique
        <5> QED
          BY <5>1, Sizes DEF IsCollection, CollectBit
      <4> QED
        BY <4>1
    <3> QED
      BY <2>1, <3>1, ResetShape
  <2>2. CASE \E a \in {b \in 0 .. MaxWord : ~IsCollection(b)} : s = Handoff(a)
    BY <2>2, ResetShape
  <2> QED
    BY <2>1, <2>2 DEF Init
<1>2. op = None /\ None \in [kind : {"none", "loads"}] /\ None.kind = "none"
  BY DEF Init, None
<1> QED
  BY <1>1, <1>2 DEF PInv, Pending

LEMMA NextPInv ==
    ASSUME ~HasClean, PInv, [Next]_vars
    PROVE  PInv'
<1>1. ASSUME NEW f \in Frames, NEW r1 \in Targets, Alloc(f, r1) PROVE PInv'
  BY <1>1, AllocPInv
<1>2. ASSUME NEW f \in Frames, BrRet(f) PROVE PInv'
  <2>1. f.sol \in 0 .. N /\ f.sol <= f.sof
    BY DEF Frames
  <2> QED
    BY <1>2, <2>1, ReturnPInv DEF BrRet
<1>3. ASSUME NEW f \in Frames, Rfi(f) PROVE PInv'
  <2>1. f.sof \in 0 .. N /\ f.sof <= f.sof
    BY Sizes DEF Frames
  <2> QED
    BY <1>3, <2>1, ReturnPInv DEF Rfi
<1>4. ASSUME NEW v \in 0 .. N - 1, WriteFollowed(v) \/ WriteOther(v) PROVE PInv'
  <2>1. s' = s /\ op' = op
    BY <1>4, Stepped DEF WriteFollowed, WriteOther
  <2> QED
    BY <2>1, Same
<1>5. ASSUME NEW r1 \in Targets, AllocEnd(r1) PROVE PInv'
  BY <1>5, AllocEndPInv
<1>6. CASE AllocStore \/ BrCall \/ Cover \/ RfiResume \/ FrameLoad
  BY <1>6, AllocStorePInv, BrCallPInv, CoverPInv, RfiResumePInv, FrameLoadPInv
<1>7. CASE FlushStore \/ LoadrsLoad \/ EnterIa32
  BY <1>7, FlushStorePInv, LoadrsLoadPInv, Ia32PInv
<1>8. CASE Interruption
  <2>1. Sound(s') /\ op' = None
    BY <1>8 DEF Interruption, PInv
  <2> QED
    BY <2>1, Quiet
<1>9. ASSUME NEW w \in 0 .. MaxWord, Loadrs(w) PROVE PInv'
  <2>1. w \in Nat
    BY RseAssumption
  <2> QED
    BY <1>9, <2>1, LoadrsPInv
<1>10. ASSUME NEW a \in 0 .. MaxWord, MovToBspstore(a) PROVE PInv'
  BY <1>10, MovPInv
<1>11. CASE UNCHANGED vars
  BY <1>11, Same DEF vars
<1> QED
  BY <1>1, <1>2, <1>3, <1>4, <1>5, <1>6, <1>7, <1>8, <1>9, <1>10, <1>11 DEF Next

LEMMA PartitionInvariant ==
    ASSUME ~HasClean
    PROVE  Spec => []PInv
<1>1. Init => PInv
  BY InitPInv
<1>2. PInv /\ [Next]_vars => PInv'
  BY NextPInv
<1> QED
  BY <1>1, <1>2, PTL DEF Spec

-----------------------------------------------------------------------------
(* The theorems about the partitions, for a processor without a clean      *)
(* partition, as all the processor models are.                             *)

\* What ia64_rse_check asserts of the partition sizes and of BSPSTORE holds
\* after every mandatory access and every instruction, for every number of
\* physical registers and every group size.
THEOREM PartitionsCoverFile ==
    ASSUME ~HasClean
    PROVE  Spec => []Partitioned
<1>1. PInv => Partitioned
  <2> SUFFICES ASSUME PInv PROVE Partitioned
    OBVIOUS
  <2>1. Sound(s)
    BY DEF PInv
  <2>2. /\ s.sof \in 0 .. N /\ s.dirty \in Int /\ s.invalid \in Nat /\ s.clean = 0 /\ s.cleanNat = 0
        /\ s.sof + s.dirty + s.invalid = N /\ s.bspstore = s.bsp - (s.dirty + s.dirtyNat)
    BY <2>1, SoundFacts, Zenon DEF Sound
  <2>3. s.sof + s.dirty + s.clean + s.invalid = N
    BY <2>2, Sizes
  <2> QED
    BY <2>2, <2>3 DEF Partitioned
<1> QED
  BY <1>1, PartitionInvariant, PTL

\* The count of collection words kept beside the dirty partition is the
\* number of collections between BSPSTORE and BSP, in an incomplete frame
\* too, and BSP is never the address of a collection.
THEOREM CollectionsExact ==
    ASSUME ~HasClean
    PROVE  Spec => []CollectionsCounted
<1>1. PInv => CollectionsCounted
  <2> SUFFICES ASSUME PInv PROVE CollectionsCounted
    OBVIOUS
  <2>1. Sound(s)
    BY DEF PInv
  <2>2. /\ s.clean = 0 /\ s.cleanNat = 0 /\ s.bspstore \in Int
        /\ ~IsCollection(s.bsp) /\ s.dirtyNat = s.bsp \div Group - s.bspstore \div Group
    BY <2>1, SoundFacts, Zenon DEF Sound
  <2>3. s.bspstore - (s.clean + s.cleanNat) = s.bspstore /\ s.bspstore \div Group \in Int
    BY <2>2, Places
  <2> QED
    BY <2>2, <2>3 DEF CollectionsCounted
<1> QED
  BY <1>1, PartitionInvariant, PTL

\* An alloc or a loadrs that is interrupted after some of its mandatory
\* accesses finds, when it is executed again, exactly the rest of the work.
THEOREM RestartFindsTheRest ==
    ASSUME ~HasClean
    PROVE  Spec => []RestartExact
<1>1. PInv => RestartExact
  BY DEF PInv, Pending, RestartExact
<1> QED
  BY <1>1, PartitionInvariant, PTL

-----------------------------------------------------------------------------
(* Addresses.                                                              *)

LEMMA NextBInv ==
    ASSUME ~HasClean, PInv, BInv, [Next]_vars
    PROVE  BInv'
<1>0. /\ Sound(s) /\ s.bsp \in Int /\ s.bspstore \in Int /\ s.bsp >= 0 /\ s.bspstore >= 0
      /\ PInv'
  BY SoundFacts, NextPInv DEF PInv, BInv
<1>1. ASSUME s'.bsp = s.bsp, s'.bspstore = s.bspstore, op'.kind # "loadrs" PROVE BInv'
  BY <1>0, <1>1 DEF BInv
<1>2. None.kind # "loadrs"
  BY DEF None
<1>3. ASSUME NEW r1, NEW k, NEW f \in Frames, NEW i, NEW r, r = [s EXCEPT !.invalid = i],
             s' = SetFrame(r, f)
      PROVE  s'.bsp = s.bsp /\ s'.bspstore = s.bspstore
  <2>1. s \in States
    BY <1>0 DEF Sound
  <2> QED
    BY <1>3, <2>1 DEF SetFrame, States
<1>4. ASSUME NEW f \in Frames, NEW r1 \in Targets, Alloc(f, r1) PROVE BInv'
  <2>1. op = None /\ s.clean = 0 /\ s.invalid \in Nat /\ s.sof \in 0 .. N /\ f.sof \in 0 .. N
    BY <1>0, <1>4, SoundFacts DEF Alloc, Ready, Frames
  <2>2. CASE f.sof - s.sof <= s.invalid + s.clean /\ UNCHANGED op
             /\ SetAllocFrame(TakeRegisters(s, f.sof - s.sof), SyncFrameOut(s, c), f, r1)
    <3>1. TakeRegisters(s, f.sof - s.sof) = [s EXCEPT !.invalid = s.invalid - (f.sof - s.sof)]
      BY <2>1, <2>2 DEF TakeRegisters
    <3>2. s' = SetFrame(TakeRegisters(s, f.sof - s.sof), f)
      BY <2>2, EndsAlloc
    <3> QED
      BY <1>1, <1>2, <1>3, <2>1, <2>2, <3>1, <3>2, Zenon
  <2>3. CASE Step(s, SyncFrameOut(s, c), word) /\ op'.kind = "alloc"
    BY <1>1, <2>3, Stepped
  <2> QED
    BY <1>4, <2>2, <2>3 DEF Alloc
<1>5. ASSUME NEW f \in Frames, NEW n \in 0 .. N, n <= f.sof, ReturnToFrame(f, n) PROVE BInv'
  <2>1. s' = RestoreFrame(s, f, n) /\ InRange(s') /\ op'.kind # "loadrs"
    BY <1>2, <1>5, Stepped DEF ReturnToFrame
  <2> QED
    BY <2>1, RseAssumption DEF BInv, InRange
<1>6. ASSUME NEW v \in 0 .. N - 1, WriteFollowed(v) \/ WriteOther(v) PROVE BInv'
  BY <1>1, <1>2, <1>6, Stepped DEF WriteFollowed, WriteOther, Ready
<1>7. ASSUME NEW r1 \in Targets, AllocEnd(r1) PROVE BInv'
  <2>1. s' = SetFrame([s EXCEPT !.invalid = 0, !.clean = 0, !.cleanNat = 0], op.frame) /\ op' = None
    BY <1>7, EndsAlloc DEF AllocEnd
  <2>2. s \in States
    BY <1>0 DEF Sound
  <2>3. s'.bsp = s.bsp /\ s'.bspstore = s.bspstore
    BY <2>1, <2>2 DEF SetFrame, States
  <2> QED
    BY <1>1, <1>2, <2>1, <2>3
<1>8. ASSUME s' = StoreOne(s), op'.kind # "loadrs" PROVE BInv'
  <2>1. s'.bsp = s.bsp /\ s'.bspstore = s.bspstore + 1
    BY <1>0, <1>8, StoreSound
  <2> QED
    BY <1>0, <1>8, <2>1 DEF BInv
<1>9. CASE AllocStore
  <2>1. op'.kind # "loadrs"
    <3>1. op \in [kind : {"alloc"}, frame : Frames, growth : Nat]
      BY <1>9 DEF AllocStore, PInv, Pending
    <3> QED
      BY <1>9, <3>1 DEF AllocStore
  <2> QED
    BY <1>8, <1>9, <2>1, Stepped DEF AllocStore
<1>10. CASE FlushStore
  BY <1>2, <1>8, <1>10, Stepped DEF FlushStore, Ready
<1>11. CASE BrCall \/ Cover
  <2>1. InRange(s') /\ op'.kind # "loadrs"
    BY <1>2, <1>11 DEF BrCall, Cover, Ready
  <2> QED
    BY <2>1, RseAssumption DEF BInv, InRange
<1>12. CASE RfiResume
  BY <1>1, <1>12 DEF RfiResume
<1>13. CASE FrameLoad
  <2>1. s'.bsp = s.bsp /\ s'.bspstore = s.bspstore - 1
    BY <1>13, FrameLoadShape
  <2>2. BspLoad(s) >= 0 /\ BspLoad(s) = s.bspstore - 1
    BY <1>0, <1>13, SoundFacts DEF FrameLoad
  <2>3. op'.kind # "loadrs"
    BY <1>2, <1>13 DEF FrameLoad
  <2> QED
    BY <1>0, <2>1, <2>2, <2>3 DEF BInv
<1>14. CASE LoadrsLoad
  <2>1. s'.bsp = s.bsp /\ s'.bspstore = s.bspstore - 1
    BY <1>14, LoadrsLoadShape
  <2>2. /\ op \in [kind : {"loadrs"}, words : Int, left : Nat] /\ op.kind = "loadrs"
        /\ op.left > 0 /\ op.left = op.words - Live(s)
    BY <1>14 DEF LoadrsLoad, PInv, Pending
  <2>3. Live(s) = s.bsp - s.bspstore /\ op.words \in Int /\ op.left \in Nat
    BY <1>0, <2>2, SoundFacts
  <2>4. s.bsp - op.words >= 0
    BY <2>2 DEF BInv
  <2>5. s.bspstore - 1 >= 0
    BY <1>0, <2>2, <2>3, <2>4
  <2>6. op'.kind = "loadrs" => op'.words = op.words
    BY <1>2, <1>14, <2>2 DEF LoadrsLoad
  <2> QED
    BY <1>0, <2>1, <2>4, <2>5, <2>6 DEF BInv
<1>15. CASE EnterIa32
  BY <1>0, <1>2, <1>15, Ia32Shape DEF BInv, EnterIa32
<1>16. CASE Interruption
  BY <1>1, <1>2, <1>16 DEF Interruption
<1>17. ASSUME NEW w \in 0 .. MaxWord, Loadrs(w) PROVE BInv'
  <2>1. w \in Nat
    BY RseAssumption
  <2>2. /\ s'.bsp = s.bsp /\ (w >= Live(s) => s' = s)
        /\ w < Live(s) => s'.bspstore = s.bsp - w
    BY <1>17, <2>1, LoadrsShape
  <2>3. s.bsp - w >= 0 /\ (op'.kind = "loadrs" => op'.words = w)
    BY <1>2, <1>17 DEF Loadrs
  <2>4. Live(s) \in Int
    BY <1>0, SoundFacts
  <2>5. s'.bspstore >= 0
    BY <1>0, <2>1, <2>2, <2>3, <2>4
  <2> QED
    BY <1>0, <2>2, <2>3, <2>5 DEF BInv
<1>18. ASSUME NEW a \in 0 .. MaxWord, MovToBspstore(a) PROVE BInv'
  <2>1. InRange(s') /\ op'.kind # "loadrs"
    BY <1>2, <1>18, Stepped DEF MovToBspstore, Ready
  <2> QED
    BY <2>1, RseAssumption DEF BInv, InRange
<1>19. CASE UNCHANGED vars
  BY <1>19 DEF vars, BInv
<1>20. ASSUME NEW f \in Frames, BrRet(f) PROVE BInv'
  <2>1. f.sol \in 0 .. N /\ f.sol <= f.sof
    BY DEF Frames
  <2> QED
    BY <1>5, <1>20, <2>1 DEF BrRet
<1>21. ASSUME NEW f \in Frames, Rfi(f) PROVE BInv'
  <2>1. f.sof \in 0 .. N /\ f.sof <= f.sof
    BY Sizes DEF Frames
  <2> QED
    BY <1>5, <1>21, <2>1 DEF Rfi
<1> QED
  BY <1>4, <1>6, <1>7, <1>9, <1>10, <1>11, <1>12, <1>13, <1>14, <1>15, <1>16, <1>17, <1>18,
     <1>19, <1>20, <1>21 DEF Next

-----------------------------------------------------------------------------
(* Contents.                                                               *)

LEMMA RegOf ==
    ASSUME NEW r, r.bsp \in Int, NEW w \in Int
    PROVE  FrameReg(r, w) = Index(w) - Index(r.bsp) /\ Home(r, w) = Place(r, Index(w))
<1>1. /\ w \div Group \in Int /\ r.bsp \div Group \in Int
      /\ Index(w) \in Int /\ Index(r.bsp) \in Int
  BY Places
<1>2. FrameReg(r, w) = Index(w) - Index(r.bsp)
  BY <1>1 DEF FrameReg, RegsBetween, Index
<1> QED
  BY <1>2 DEF Home, Phys, Place

LEMMA WordOf ==
    ASSUME NEW r, r.bsp \in Int, NEW v \in Int
    PROVE  /\ FrameWord(r, v) \in Int /\ ~IsCollection(FrameWord(r, v))
           /\ Index(FrameWord(r, v)) = Index(r.bsp) + v
<1>1. /\ NatWordsGrow(r.bsp, v) \in Int
      /\ ~IsCollection(r.bsp + v + NatWordsGrow(r.bsp, v))
      /\ Index(r.bsp + v + NatWordsGrow(r.bsp, v)) = Index(r.bsp) + v
  BY Grow, Zenon
<1>2. r.bsp + v + NatWordsGrow(r.bsp, v) \in Int
  BY <1>1
<1> QED
  BY <1>1, <1>2 DEF FrameWord

LEMMA PlaceType ==
    ASSUME NEW r, r.bol \in Int, r.bsp \in Int, NEW i \in Int
    PROVE  Place(r, i) \in Regs /\ Place(r, i) \in Int
<1>1. Index(r.bsp) \in Int
  BY Places
<1>2. r.bol + (i - Index(r.bsp)) \in Int
  BY <1>1
<1>3. Place(r, i) \in Regs
  BY <1>2, Rotate DEF Place
<1> QED
  BY <1>3, Sizes DEF Regs

\* Words whose places are less than N apart have different registers.
LEMMA PlacesApart ==
    ASSUME NEW r, r.bol \in Int, r.bsp \in Int, NEW i \in Int, NEW j \in Int,
           Place(r, i) = Place(r, j), i - j < N, j - i < N
    PROVE  i = j
<1>1. Index(r.bsp) \in Int
  BY Places
<1> DEFINE a == r.bol + (i - Index(r.bsp))
           b == r.bol + (j - Index(r.bsp))
<1>2. a \in Int /\ b \in Int /\ a - b < N /\ b - a < N
  BY <1>1
<1>3. a % N = b % N
  BY DEF Place
<1> HIDE DEF a, b
<1>4. a = b
  BY <1>2, <1>3, RotateApart
<1> QED
  BY <1>1, <1>4 DEF a, b

\* Moving BSP and the bottom of the frame together moves no word.
LEMMA PlaceMoves ==
    ASSUME NEW r, NEW t, r.bol \in Int, r.bsp \in Int, t.bsp \in Int, NEW n \in Int, NEW i \in Int,
           t.bol = (r.bol + n) % N, Index(t.bsp) = Index(r.bsp) + n
    PROVE  Place(t, i) = Place(r, i)
<1>1. Index(r.bsp) \in Int
  BY Places
<1> DEFINE a == r.bol + n
           b == i - (Index(r.bsp) + n)
<1>2. a \in Int /\ b \in Int /\ a + b = r.bol + (i - Index(r.bsp))
  BY <1>1
<1>3. Place(t, i) = ((a % N) + b) % N
  BY DEF Place
<1> HIDE DEF a, b
<1>4. ((a % N) + b) % N = (a + b) % N
  BY <1>2, Rotate
<1> QED
  BY <1>2, <1>3, <1>4 DEF Place

LEMMA SamePlace ==
    ASSUME NEW r, NEW t, t.bol = r.bol, t.bsp = r.bsp
    PROVE  /\ \A i : Place(t, i) = Place(r, i)
           /\ \A v : Phys(t, v) = Phys(r, v)
           /\ \A v : FrameWord(t, v) = FrameWord(r, v)
           /\ \A k, i : Held(t, k, i) <=> Held(r, k, i)
BY DEF Place, Phys, FrameWord, Held

\* The word is the program's: where it is.
LEMMA WordFacts ==
    ASSUME PInv, VInv, word # Nowhere
    PROVE  /\ word \in Nat /\ word \in Int /\ ~IsCollection(word) /\ Index(word) \in Int
           /\ word < s.bspstore <=> Index(word) < Index(s.bspstore)
           /\ word < s.bsp <=> Index(word) < Index(s.bsp)
           /\ Index(word) < Index(s.bsp) + s.sof
           /\ Index(word) < Index(s.bspstore) => word \in c.mem
           /\ Index(word) >= Index(s.bspstore) => Held(s, c, Index(word))
<1>1. Found(s, c, word) /\ Sound(s)
  BY DEF VInv, PInv
<1>2. word \in Nat /\ word \in Int /\ ~IsCollection(word) /\ s.bsp \in Int /\ s.bspstore \in Int
  BY <1>1, SoundFacts DEF Found
<1>3. /\ word < s.bspstore <=> Index(word) < Index(s.bspstore)
      /\ word < s.bsp <=> Index(word) < Index(s.bsp)
      /\ Index(word) \in Int
  BY <1>2, IndexOrder, Places, Zenon
<1> QED
  BY <1>1, <1>2, <1>3 DEF Found

\* What is left to show of a step: the word is found where it belongs.
LEMMA StepFound ==
    ASSUME NEW r, NEW k, NEW w, Step(r, k, w), Sound(r), k \in Contents, w \in Int,
           ~Complete(r) => k.grDirty = {},
           w # Nowhere => w \in Nat /\ ~IsCollection(w),
           w # Nowhere /\ Index(w) < Index(r.bsp) + r.sof =>
              /\ Index(w) < Index(r.bspstore) => w \in k.mem
              /\ Index(w) >= Index(r.bspstore) => Held(r, k, Index(w))
    PROVE  VInv'
<1>1. /\ r.bsp \in Int /\ r.bspstore \in Int /\ r.sof \in Int /\ r.bol \in Int
      /\ Index(r.bsp) \in Int /\ Index(w) \in Int
  <2>1. r.sof \in 0 .. N /\ r.bsp \in Int /\ r.bspstore \in Int /\ r.bol \in Int /\ Index(r.bsp) \in Int
    BY SoundFacts
  <2>2. r.sof \in Int
    BY <2>1, Sizes
  <2>3. Index(w) \in Int
    BY Places
  <2> QED
    BY <2>1, <2>2, <2>3
<1>2. s' = r
  BY Stepped
<1>3. CASE word' = Nowhere
  <2>1. c' = [NoCopy EXCEPT !.grDirty = k.grDirty]
    BY <1>3, Zenon DEF Step
  <2>2. k.grDirty \in SUBSET Nat
    BY DEF Contents
  <2>3. c' \in Contents /\ c'.grDirty = k.grDirty
    BY <2>1, <2>2 DEF NoCopy, Contents
  <2> QED
    BY <1>2, <1>3, <2>3 DEF VInv
<1>4. CASE word' # Nowhere
  <2>1. word' = w /\ w < FrameWord(r, r.sof)
    BY <1>4 DEF Step
  <2>2. w # Nowhere /\ w \in Nat /\ ~IsCollection(w)
    BY <1>4, <2>1
  <2>3. Index(w) < Index(r.bsp) + r.sof
    <3>1. FrameWord(r, r.sof) \in Int /\ Index(FrameWord(r, r.sof)) = Index(r.bsp) + r.sof
      BY <1>1, WordOf
    <3> QED
      BY <2>1, <2>2, <3>1, IndexOrder
  <2>4. c' = [gr |-> k.gr \cap {FrameReg(r, w)}, grDirty |-> k.grDirty,
              pgr |-> k.pgr \cap {Home(r, w)}, mem |-> k.mem \cap {w}]
    BY <1>4, ZenonT(60) DEF Step
  <2>5. c'.gr = k.gr \cap {Index(w) - Index(r.bsp)} /\ c'.grDirty = k.grDirty
        /\ c'.pgr = k.pgr \cap {Place(r, Index(w))} /\ c'.mem = k.mem \cap {w}
    BY <1>1, <2>4, RegOf
  <2>6. c' \in Contents
    <3>1. k.gr \in SUBSET Int /\ k.grDirty \in SUBSET Nat /\ k.pgr \in SUBSET Int /\ k.mem \in SUBSET Int
      BY Zenon DEF Contents
    <3> QED
      BY <2>4, <3>1 DEF Contents
  <2>7. Index(w) >= Index(r.bspstore) => Held(r, c', Index(w))
    <3> SUFFICES ASSUME Held(r, k, Index(w)) PROVE Held(r, c', Index(w))
      BY <2>2, <2>3
    <3> QED
      BY <2>5, Zenon DEF Held
  <2>8. Found(r, c', w)
    BY <2>2, <2>3, <2>5, <2>7 DEF Found
  <2> QED
    BY <1>2, <2>1, <2>5, <2>6, <2>8 DEF VInv
<1> QED
  BY <1>3, <1>4

\* The program's stores to registers.
LEMMA WriteFollowedVInv ==
    ASSUME PInv, BInv, VInv, NEW v \in 0 .. N - 1, WriteFollowed(v)
    PROVE  VInv'
<1>1. Sound(s) /\ Complete(s) /\ s' = s /\ v < s.sof /\ word' = FrameWord(s, v)
      /\ c' = [NoCopy EXCEPT !.gr = {v}, !.grDirty = c.grDirty \cup {v}]
  BY DEF PInv, WriteFollowed, Ready
<1>2. /\ s.bsp \in Int /\ s.bspstore \in Int /\ s.sof \in 0 .. N /\ Index(s.bsp) \in Int
      /\ Index(s.bspstore) \in Int /\ s.bspstore <= s.bsp /\ v \in Int /\ v \in Nat /\ N \in Nat
  <2>1. v \in Int /\ v \in Nat /\ N \in Nat
    BY Sizes
  <2> QED
    BY <1>1, <2>1, SoundFacts
<1>3. word' \in Int /\ ~IsCollection(word') /\ Index(word') = Index(s.bsp) + v
  BY <1>1, <1>2, WordOf
<1>4. word' \in Nat
  <2>1. s.bsp >= 0
    BY DEF BInv
  <2>2. ~(word' < s.bsp)
    <3> SUFFICES ASSUME word' < s.bsp PROVE FALSE
      OBVIOUS
    <3>1. Index(word') < Index(s.bsp)
      BY <1>2, <1>3, IndexOrder
    <3> QED
      BY <1>2, <1>3, <3>1
  <2> QED
    BY <1>2, <1>3, <2>1, <2>2
<1>5. c.grDirty \in SUBSET Nat
  BY DEF VInv, Contents
<1>6. c' \in Contents /\ c'.gr = {v} /\ c'.grDirty = c.grDirty \cup {v}
  BY <1>1, <1>2, <1>5, Zenon DEF NoCopy, Contents
<1>7. Index(s.bspstore) <= Index(s.bsp)
  BY <1>2, IndexMonotone
<1>8. Found(s, c', word')
  <2>1. ~(Index(word') < Index(s.bspstore)) /\ ~(Index(word') < Index(s.bsp))
        /\ Index(word') < Index(s.bsp) + s.sof /\ Index(word') - Index(s.bsp) = v
    BY <1>1, <1>2, <1>3, <1>7
  <2>2. Held(s, c', Index(word'))
    BY <1>6, <2>1 DEF Held
  <2> QED
    BY <1>3, <1>4, <2>1, <2>2 DEF Found
<1> QED
  BY <1>1, <1>6, <1>8 DEF VInv

\* Register v is overwritten: the word survives unless it is the register's.
LEMMA Survivor ==
    ASSUME NEW r, r.bsp \in Int, NEW v \in Int, NEW w,
           w # Nowhere => w \in Nat /\ ~IsCollection(w)
    PROVE  /\ Survives(r, w, v) \in {w, Nowhere}
           /\ Survives(r, w, v) # Nowhere => Index(w) - Index(r.bsp) # v
<1>1. Survives(r, w, v) \in {w, Nowhere}
  BY DEF Survives
<1>2. ASSUME Survives(r, w, v) # Nowhere PROVE Index(w) - Index(r.bsp) # v
  <2>1. w # FrameWord(r, v) /\ w # Nowhere /\ w \in Int /\ ~IsCollection(w)
    BY <1>2 DEF Survives
  <2>2. /\ FrameWord(r, v) \in Int /\ ~IsCollection(FrameWord(r, v))
        /\ Index(FrameWord(r, v)) = Index(r.bsp) + v
    BY WordOf
  <2>3. Index(w) \in Int /\ Index(r.bsp) \in Int
    BY <2>1, Places
  <2>4. Index(w) # Index(FrameWord(r, v))
    BY <2>1, <2>2, IndexOrder
  <2> QED
    BY <2>2, <2>3, <2>4
<1> QED
  BY <1>1, <1>2

LEMMA OverwriteHeld ==
    ASSUME NEW r, NEW k \in Contents, NEW v \in Nat, NEW i, Held(r, k, i), i - Index(r.bsp) # v
    PROVE  Held(r, Overwrite(k, v), i)
<1> DEFINE o == Overwrite(k, v)
<1>1. o.gr = k.gr \ {v} /\ o.grDirty = k.grDirty \cup {v} /\ o.pgr = k.pgr
  BY DEF Overwrite, Contents
<1> HIDE DEF o
<1>2. Held(r, o, i)
  BY <1>1 DEF Held
<1> QED
  BY <1>2 DEF o

LEMMA OverwriteType ==
    ASSUME NEW k \in Contents, NEW v \in Nat
    PROVE  Overwrite(k, v) \in Contents /\ Overwrite(k, v).mem = k.mem
<1>1. k.gr \in SUBSET Int /\ k.grDirty \in SUBSET Nat /\ k.pgr \in SUBSET Int /\ k.mem \in SUBSET Int
  BY DEF Contents
<1>2. k.gr \ {v} \in SUBSET Int /\ k.grDirty \cup {v} \in SUBSET Nat
  BY <1>1
<1> QED
  BY <1>2, Zenon DEF Overwrite, Contents

LEMMA WordType ==
    ASSUME VInv
    PROVE  word \in Int /\ (word # Nowhere => word \in Nat /\ ~IsCollection(word))
BY DEF VInv, Found, Nowhere

LEMMA WriteOtherVInv ==
    ASSUME PInv, VInv, NEW v \in 0 .. N - 1, WriteOther(v)
    PROVE  VInv'
<1> DEFINE w == Survives(s, word, v)
           k == Overwrite(c, v)
<1>1. Sound(s) /\ Complete(s) /\ Step(s, k, w)
  BY DEF PInv, WriteOther, Ready
<1>2. s.bsp \in Int /\ v \in Int /\ v \in Nat /\ c \in Contents
  BY <1>1, SoundFacts, Sizes DEF VInv
<1>3. word \in Int /\ (word # Nowhere => word \in Nat /\ ~IsCollection(word)) /\ Nowhere \in Int
  BY WordType DEF Nowhere
<1>4. w \in {word, Nowhere} /\ (w # Nowhere => Index(word) - Index(s.bsp) # v)
  BY <1>2, <1>3, Survivor
<1>5. k \in Contents /\ k.mem = c.mem
  BY <1>2, OverwriteType, Zenon
<1>6. ASSUME w # Nowhere
      PROVE  /\ Index(w) < Index(s.bspstore) => w \in k.mem
             /\ Index(w) >= Index(s.bspstore) => Held(s, k, Index(w))
  <2>1. w = word /\ word # Nowhere /\ Index(word) - Index(s.bsp) # v
    BY <1>4, <1>6
  <2>2. /\ Index(word) < Index(s.bspstore) => word \in c.mem
        /\ Index(word) >= Index(s.bspstore) => Held(s, c, Index(word))
    BY <2>1, WordFacts
  <2> QED
    BY <1>2, <1>5, <2>1, <2>2, OverwriteHeld
<1>7. w \in Int /\ (w # Nowhere => w \in Nat /\ ~IsCollection(w))
  BY <1>3, <1>4, Zenon
<1> HIDE DEF w, k
<1> QED
  BY <1>1, <1>5, <1>6, <1>7, StepFound

\* ia64_rse_sync_frame_out leaves every register of the frame and every dirty
\* one in its physical register.
LEMMA SyncOut ==
    ASSUME PInv, VInv
    PROVE  /\ SyncFrameOut(s, c) \in Contents /\ SyncFrameOut(s, c).grDirty = {}
           /\ SyncFrameOut(s, c).gr = c.gr /\ SyncFrameOut(s, c).mem = c.mem
           /\ word # Nowhere /\ Index(word) >= Index(s.bspstore) =>
                 /\ Place(s, Index(word)) \in SyncFrameOut(s, c).pgr
                 /\ Held(s, SyncFrameOut(s, c), Index(word))
<1> DEFINE written == {v \in c.grDirty : v < s.sof}
           gone == {Phys(s, v) : v \in written}
           put == {Phys(s, v) : v \in written \cap c.gr}
           k == SyncFrameOut(s, c)
           i == Index(word)
           B == Index(s.bsp)
<1>1. Sound(s) /\ c \in Contents
  BY DEF PInv, VInv
<1>2. /\ c.gr \in SUBSET Int /\ c.grDirty \in SUBSET Nat /\ c.pgr \in SUBSET Int
      /\ c.mem \in SUBSET Int
  BY <1>1 DEF Contents
<1>3. /\ s.sof \in 0 .. N /\ s.bol \in Int /\ s.bsp \in Int /\ s.bspstore \in Int
      /\ s.dirty \in Int /\ s.invalid \in Nat /\ B \in Int /\ Index(s.bspstore) \in Int
      /\ s.dirty = B - Index(s.bspstore) /\ s.sof + s.dirty + s.invalid = N /\ N \in Nat
  BY <1>1, SoundFacts, Sizes, Zenon DEF Sound
<1>4. \A v \in Int : Phys(s, v) = Place(s, B + v)
  BY <1>3 DEF Phys, Place
<1>5. \A v \in Int : Phys(s, v) \in Int
  <2> TAKE v \in Int
  <2>1. B + v \in Int
    BY <1>3
  <2> QED
    BY <1>3, <1>4, <2>1, PlaceType
<1>6. k = [c EXCEPT !.grDirty = {}, !.pgr = (c.pgr \ gone) \cup put]
  BY DEF SyncFrameOut
<1>7. (c.pgr \ gone) \cup put \in SUBSET Int
  BY <1>2, <1>5
<1> HIDE DEF gone, put, k
<1>8. /\ k \in Contents /\ k.grDirty = {} /\ k.gr = c.gr /\ k.mem = c.mem
      /\ k.pgr = (c.pgr \ gone) \cup put
  BY <1>1, <1>6, <1>7, Zenon DEF Contents
<1>9. ASSUME word # Nowhere, i >= Index(s.bspstore)
      PROVE  Place(s, i) \in k.pgr /\ Held(s, k, i)
  <2>1. i \in Int /\ i < B + s.sof /\ Held(s, c, i)
    BY <1>9, WordFacts
  <2> HIDE DEF i, B
  <2>2. ASSUME NEW v \in Int, v >= 0, v < s.sof, Phys(s, v) = Place(s, i) PROVE v = i - B
    <3>1. B + v \in Int /\ i - (B + v) < N /\ (B + v) - i < N
      BY <1>3, <1>9, <2>1, <2>2
    <3>2. Place(s, B + v) = Place(s, i)
      BY <1>4, <2>2
    <3>3. B + v = i
      BY <1>3, <2>1, <3>1, <3>2, PlacesApart
    <3> QED
      BY <1>3, <2>1, <3>3
  <2>3. Place(s, i) \in k.pgr
    <3>1. CASE i >= B /\ i - B \in c.grDirty
      <4>1. i - B \in c.gr /\ i - B \in Int /\ i - B < s.sof /\ i = B + (i - B)
        BY <1>3, <2>1, <3>1 DEF Held, B
      <4>2. Phys(s, i - B) = Place(s, i)
        BY <1>4, <4>1
      <4>3. Phys(s, i - B) \in put
        BY <3>1, <4>1 DEF put
      <4> QED
        BY <1>8, <4>2, <4>3
    <3>2. CASE i >= B /\ i - B \notin c.grDirty
      <4>1. Place(s, i) \in c.pgr
        BY <2>1, <3>2 DEF Held, B
      <4>2. Place(s, i) \notin gone
        <5> SUFFICES ASSUME NEW v \in c.grDirty, v < s.sof, Phys(s, v) = Place(s, i) PROVE FALSE
          BY DEF gone
        <5>1. v \in Int /\ v >= 0
          BY <1>2
        <5> QED
          BY <2>2, <3>2, <5>1
      <4> QED
        BY <1>8, <4>1, <4>2
    <3>3. CASE i < B
      <4>1. Place(s, i) \in c.pgr
        BY <2>1, <3>3 DEF Held, B
      <4>2. Place(s, i) \notin gone
        <5> SUFFICES ASSUME NEW v \in c.grDirty, v < s.sof, Phys(s, v) = Place(s, i) PROVE FALSE
          BY DEF gone
        <5>1. v \in Int /\ v >= 0
          BY <1>2
        <5>2. v = i - B
          BY <2>2, <5>1
        <5> QED
          BY <1>3, <2>1, <3>3, <5>1, <5>2
      <4> QED
        BY <1>8, <4>1, <4>2
    <3> QED
      BY <1>3, <2>1, <3>1, <3>2, <3>3
  <2>4. Held(s, k, i)
    BY <1>8, <2>1, <2>3, Zenon DEF Held
  <2> QED
    BY <2>3, <2>4
<1> QED
  BY <1>8, <1>9, Zenon DEF k

\* The end of alloc.
LEMMA AllocFrameVInv ==
    ASSUME PInv, VInv, NEW r, NEW k \in Contents, NEW f \in Frames, NEW r1 \in Targets,
           SetAllocFrame(r, k, f, r1),
           r.sof = s.sof, r.bol = s.bol, r.bsp = s.bsp, r.bspstore = s.bspstore,
           NEW t, t = SetFrame(r, f), Sound(t), Complete(t),
           t.bol = s.bol, t.bsp = s.bsp, t.bspstore = s.bspstore, t.sof = f.sof,
           k.mem = c.mem,
           word # Nowhere /\ Index(word) >= Index(s.bspstore) => Held(s, k, Index(word))
    PROVE  VInv'
<1> DEFINE g == IF f.sof > r.sof THEN SyncFrameIn(t, k, r.sof) ELSE k
           B == Index(s.bsp)
<1>0. Sound(s)
  BY Zenon DEF PInv
<1>1. /\ s.bsp \in Int /\ s.sof \in 0 .. N /\ f.sof \in 0 .. N /\ N \in Nat /\ B \in Int
      /\ s.bspstore \in Int /\ Index(s.bspstore) \in Int
  BY <1>0, SoundFacts, Sizes, Zenon DEF Frames
<1>2. /\ g \in Contents /\ g.grDirty = k.grDirty /\ g.pgr = k.pgr /\ g.mem = c.mem
      /\ \A v \in k.gr : v \in Int /\ v < s.sof => v \in g.gr
  <2>1. CASE f.sof > r.sof
    <3> DEFINE new == {v \in k.gr : v < r.sof \/ v >= t.sof}
                      \cup {v \in r.sof .. t.sof - 1 : Phys(t, v) \in k.pgr}
    <3>1. g = [k EXCEPT !.gr = new]
      BY <2>1, Zenon DEF SyncFrameIn
    <3>2. new \in SUBSET Int
      <4>1. k.gr \in SUBSET Int
        BY Zenon DEF Contents
      <4> QED
        BY <1>1, <4>1
    <3>3. \A v \in k.gr : v \in Int /\ v < s.sof => v \in new
      BY Zenon
    <3> HIDE DEF new
    <3> QED
      BY <3>1, <3>2, <3>3 DEF Contents
  <2>2. CASE ~(f.sof > r.sof)
    BY <2>2, Zenon
  <2> QED
    BY <2>1, <2>2, Zenon
<1>3. ASSUME word # Nowhere, Index(word) >= Index(s.bspstore)
      PROVE  Held(s, g, Index(word))
  <2>1. Held(s, k, Index(word)) /\ Index(word) \in Int /\ Index(word) < B + s.sof
    BY <1>3, WordFacts, ZenonT(60)
  <2>2. Index(word) - B \in Int /\ Index(word) - B < s.sof
    BY <1>1, <2>1, SMTT(40)
  <2> QED
    BY <1>2, <2>1, <2>2, Zenon DEF Held
<1>4. word \in Int /\ (word # Nowhere => word \in Nat /\ ~IsCollection(word)) /\ Nowhere \in Int
  BY WordType, SMTT(40) DEF Nowhere
<1>5. \A q, j : Held(t, q, j) <=> Held(s, q, j)
  BY SamePlace, Zenon
<1>6. word # Nowhere /\ Index(word) < Index(s.bspstore) => word \in c.mem
  BY WordFacts, Zenon
<1>7. CASE r1 = Nowhere
  <2>1. Step(t, g, word)
    BY <1>7, Zenon DEF SetAllocFrame
  <2> HIDE DEF g
  <2> QED
    BY <1>2, <1>3, <1>4, <1>5, <1>6, <2>1, StepFound, Zenon
<1>8. CASE r1 # Nowhere
  <2> DEFINE w == Survives(t, word, r1)
             o == Overwrite(g, r1)
  <2>1. Step(t, o, w)
    BY <1>8, Zenon DEF SetAllocFrame
  <2>2. r1 \in Int /\ r1 \in Nat
    BY <1>8, Sizes, SMTT(40) DEF Targets
  <2> HIDE DEF g
  <2>3. w \in {word, Nowhere} /\ (w # Nowhere => Index(word) - Index(t.bsp) # r1)
    BY <1>1, <1>4, <2>2, Survivor, Zenon
  <2>4. o \in Contents /\ o.mem = c.mem
    BY <1>2, <2>2, OverwriteType, Zenon
  <2>5. ASSUME w # Nowhere
        PROVE  /\ Index(w) < Index(t.bspstore) => w \in o.mem
               /\ Index(w) >= Index(t.bspstore) => Held(t, o, Index(w))
    <3>1. w = word /\ word # Nowhere /\ Index(word) - Index(t.bsp) # r1
      BY <2>3, <2>5, Zenon
    <3>2. Index(word) >= Index(s.bspstore) => Held(t, g, Index(word))
      BY <1>3, <1>5, <3>1, Zenon
    <3> QED
      BY <1>2, <1>6, <2>2, <2>4, <3>1, <3>2, OverwriteHeld, Zenon
  <2>6. w \in Int /\ (w # Nowhere => w \in Nat /\ ~IsCollection(w))
    BY <1>4, <2>3
  <2> HIDE DEF w, o
  <2> QED
    BY <2>1, <2>4, <2>5, <2>6, StepFound, Zenon
<1> QED
  BY <1>7, <1>8

LEMMA AllocVInv ==
    ASSUME PInv, VInv, NEW f \in Frames, NEW r1 \in Targets, Alloc(f, r1)
    PROVE  VInv'
<1> DEFINE growth == f.sof - s.sof
           i == s.invalid - growth
           out == SyncFrameOut(s, c)
           r == TakeRegisters(s, growth)
           t == SetFrame(r, f)
<1>1. Sound(s) /\ Complete(s) /\ s \in States
  BY DEF PInv, Alloc, Ready, Sound
<1>2. /\ s.sof \in 0 .. N /\ s.dirty \in Int /\ s.invalid \in Nat /\ s.clean = 0
      /\ f.sof \in 0 .. N /\ N \in Nat /\ s.sof + s.dirty + s.invalid = N
      /\ s.bspstore <= s.bsp
  BY <1>1, SoundFacts, Sizes, Zenon DEF Frames, Sound
<1>3. /\ out \in Contents /\ out.grDirty = {} /\ out.mem = c.mem
      /\ word # Nowhere /\ Index(word) >= Index(s.bspstore) => Held(s, out, Index(word))
  BY SyncOut
<1>4. CASE growth <= s.invalid + s.clean /\ SetAllocFrame(r, out, f, r1)
  <2>0. growth <= s.invalid
    BY <1>2, <1>4
  <2>1. r = [s EXCEPT !.invalid = i]
    BY <2>0, Zenon DEF TakeRegisters
  <2>2. i \in Nat /\ f.sof + s.dirty + i = N
    BY <1>2, <1>4
  <2> HIDE DEF i, r
  <2>3. Sound(t) /\ t = [s EXCEPT !.invalid = i, !.sof = f.sof, !.sol = f.sol]
    BY <1>1, <2>1, <2>2, SoundFrame, Zenon
  <2>4. /\ r.sof = s.sof /\ r.bol = s.bol /\ r.bsp = s.bsp /\ r.bspstore = s.bspstore
        /\ t.bol = s.bol /\ t.bsp = s.bsp /\ t.bspstore = s.bspstore /\ t.sof = f.sof
    BY <1>1, <2>1, <2>3, Zenon DEF States
  <2>5. Complete(t)
    BY <1>2, <2>3, <2>4, SoundFacts, Zenon
  <2> HIDE DEF out, r
  <2> QED
    BY <1>3, <1>4, <2>3, <2>4, <2>5, AllocFrameVInv, Zenon
<1>5. CASE Step(s, out, word)
  <2>1. word # Nowhere /\ Index(word) < Index(s.bspstore) => word \in c.mem
    BY WordFacts
  <2> HIDE DEF out
  <2> QED
    BY <1>1, <1>3, <1>5, <2>1, StepFound, WordType
<1> QED
  BY <1>4, <1>5 DEF Alloc

LEMMA AllocEndVInv ==
    ASSUME PInv, VInv, NEW r1 \in Targets, AllocEnd(r1)
    PROVE  VInv'
<1> DEFINE r == [s EXCEPT !.invalid = 0, !.clean = 0, !.cleanNat = 0]
           t == SetFrame(r, op.frame)
<1>1. Sound(s) /\ Complete(s) /\ s \in States /\ op.frame \in Frames
      /\ SetAllocFrame(r, c, op.frame, r1) /\ c \in Contents
  BY DEF PInv, Pending, AllocEnd, Sound, VInv
<1>2. s' = t /\ Sound(s')
  BY <1>1, EndsAlloc, AllocEndPInv DEF PInv
<1>3. /\ r.sof = s.sof /\ r.bol = s.bol /\ r.bsp = s.bsp /\ r.bspstore = s.bspstore
      /\ t.bol = s.bol /\ t.bsp = s.bsp /\ t.bspstore = s.bspstore /\ t.sof = op.frame.sof
  BY <1>1, Zenon DEF States, SetFrame
<1>4. Complete(t)
  <2>1. s.bspstore <= s.bsp
    BY <1>1, SoundFacts
  <2> QED
    BY <1>2, <1>3, <2>1, SoundFacts
<1>5. word # Nowhere /\ Index(word) >= Index(s.bspstore) => Held(s, c, Index(word))
  BY WordFacts
<1>6. Sound(t)
  BY <1>2, Zenon
<1> HIDE DEF r
<1> QED
  BY <1>1, <1>3, <1>4, <1>5, <1>6, AllocFrameVInv

\* A mandatory store, or one of flushrs.
LEMMA StoreVInv ==
    ASSUME ~HasClean, PInv, VInv, s.bspstore < s.bsp, Step(StoreOne(s), StoreContents(s, c), word)
    PROVE  VInv'
<1> DEFINE k == StoreContents(s, c)
           t == StoreOne(s)
           S == Index(s.bspstore)
           i == Index(word)
<1>1. Sound(s) /\ c \in Contents
  BY DEF PInv, VInv
<1>2. /\ s.bsp \in Int /\ s.bspstore \in Int /\ S \in Int /\ Index(s.bsp) \in Int
      /\ s.dirty = Index(s.bsp) - S /\ s.bol \in Int
  BY <1>1, SoundFacts
<1>3. /\ Sound(t) /\ t.sof = s.sof /\ t.bol = s.bol /\ t.bsp = s.bsp
      /\ t.bspstore = s.bspstore + 1
  BY <1>1, StoreSound
<1>4. Complete(t)
  <2>1. t.bspstore <= t.bsp
    BY <1>2, <1>3
  <2> QED
    BY <1>3, <2>1, SoundFacts, Zenon
<1>5. c.gr \in SUBSET Int /\ c.grDirty \in SUBSET Nat /\ c.pgr \in SUBSET Int /\ c.mem \in SUBSET Int
  BY <1>1, Zenon DEF Contents
<1>6. k \in Contents /\ k.gr = c.gr /\ k.grDirty = c.grDirty /\ k.pgr = c.pgr
      /\ k.mem = IF IsCollection(s.bspstore) THEN c.mem \ {s.bspstore}
                 ELSE Copy(c.mem, s.bspstore, c.pgr, StoreReg(s))
  <2>1. c.mem \ {s.bspstore} \in SUBSET Int /\ Copy(c.mem, s.bspstore, c.pgr, StoreReg(s)) \in SUBSET Int
    BY <1>2, <1>5 DEF Copy
  <2>2. CASE IsCollection(s.bspstore)
    <3>1. k = [c EXCEPT !.mem = c.mem \ {s.bspstore}]
      BY <2>2 DEF StoreContents
    <3> QED
      BY <1>1, <2>1, <2>2, <3>1 DEF Contents
  <2>3. CASE ~IsCollection(s.bspstore)
    <3>1. k = [c EXCEPT !.mem = Copy(c.mem, s.bspstore, c.pgr, StoreReg(s))]
      BY <2>3 DEF StoreContents
    <3> QED
      BY <1>1, <2>1, <2>3, <3>1 DEF Contents
  <2> QED
    BY <2>2, <2>3, ZenonT(60)
<1>7. \A j : Held(t, c, j) <=> Held(s, c, j)
  BY <1>3, SamePlace, Zenon
<1>8. \A j : Held(t, k, j) <=> Held(t, c, j)
  BY <1>6, ZenonT(60) DEF Held
<1> HIDE DEF k, t
<1>9. ASSUME word # Nowhere
      PROVE  /\ i < Index(t.bspstore) => word \in k.mem
             /\ i >= Index(t.bspstore) => Held(t, k, i)
  <2>1. /\ i \in Int /\ word \in Int /\ ~IsCollection(word)
        /\ (word < s.bspstore <=> i < S)
        /\ (i < S => word \in c.mem) /\ (i >= S => Held(s, c, i))
    BY <1>9, WordFacts, Zenon
  <2>2. CASE IsCollection(s.bspstore)
    <3>1. Index(t.bspstore) = S /\ word # s.bspstore
      BY <1>2, <1>3, <2>1, <2>2, NextWord, Zenon
    <3> QED
      BY <1>6, <1>7, <1>8, <2>1, <2>2, <3>1, Zenon
  <2>3. CASE ~IsCollection(s.bspstore)
    <3>1. Index(t.bspstore) = S + 1
      BY <1>2, <1>3, <2>3, NextWord
    <3>2. S < Index(s.bsp)
      BY <1>2, <2>3, IndexMonotone, SMTT(40)
    <3>3. CASE i < S
      <4>1. word \in c.mem /\ word # s.bspstore /\ ~(i >= Index(t.bspstore))
        BY <1>2, <2>1, <3>1, <3>3, SMTT(40)
      <4> QED
        BY <1>6, <2>3, <4>1, Zenon DEF Copy
    <3>4. CASE i = S
      <4>1. word = s.bspstore
        BY <1>2, <2>1, <2>3, <3>4, IndexOrder, Zenon
      <4>2. Place(s, i) \in c.pgr
        BY <1>2, <2>1, <3>2, <3>4 DEF Held
      <4>3. StoreReg(s) = Place(s, i)
        <5>1. s.bol - s.dirty = s.bol + (S - Index(s.bsp))
          BY <1>2, SMTT(40)
        <5> QED
          BY <3>4, <5>1 DEF StoreReg, Place
      <4>4. word \in k.mem
        BY <1>6, <2>3, <4>1, <4>2, <4>3 DEF Copy
      <4>5. ~(i >= Index(t.bspstore))
        BY <1>2, <3>1, <3>4, SMTT(40)
      <4> QED
        BY <4>4, <4>5, Zenon
    <3>5. CASE i > S
      <4>1. ~(i < Index(t.bspstore)) /\ i >= S
        BY <1>2, <2>1, <3>1, <3>5
      <4> QED
        BY <1>7, <1>8, <2>1, <4>1, Zenon
    <3> QED
      BY <1>2, <2>1, <3>3, <3>4, <3>5, SMTT(40)
  <2> QED
    BY <2>2, <2>3, Zenon
<1>10. Step(t, k, word)
  BY Zenon DEF k, t
<1> QED
  BY <1>3, <1>4, <1>6, <1>9, <1>10, StepFound, WordType, Zenon

\* br.call and cover: the frame goes down, and no word moves.
LEMMA BrCallVInv ==
    ASSUME PInv, VInv, BrCall
    PROVE  VInv'
<1> DEFINE f == [sof |-> s.sof - s.sol, sol |-> 0]
           t == SetFrame(PreserveFrame(s, s.sol), f)
           out == SyncFrameOut(s, c)
           k == MoveOutputs(s, out)
           i == Index(word)
           B == Index(s.bsp)
<1>1. Sound(s) /\ Step(t, k, word)
  BY DEF PInv, BrCall
<1>2. /\ s.sof \in 0 .. N /\ s.sol \in 0 .. N /\ s.sol <= s.sof /\ N \in Nat /\ s.sol \in Int
      /\ s.sof \in Int
      /\ s.bol \in Int /\ s.bsp \in Int /\ B \in Int /\ Index(s.bspstore) \in Int
  BY <1>1, SoundFacts, Sizes
<1>3. f \in Frames /\ f.sof = s.sof - s.sol
  BY <1>2 DEF Frames
<1> HIDE DEF f
<1>4. /\ Sound(t) /\ t.sof = s.sof - s.sol /\ t.bol = (s.bol + s.sol) % N
      /\ t.bspstore = s.bspstore /\ Index(t.bsp) = B + s.sol
  BY <1>1, <1>2, <1>3, PreserveSound, ZenonT(60)
<1>5. /\ out \in Contents /\ out.grDirty = {} /\ out.gr = c.gr /\ out.mem = c.mem
      /\ word # Nowhere /\ i >= Index(s.bspstore) =>
            Place(s, i) \in out.pgr /\ Held(s, out, i)
  BY SyncOut
<1> DEFINE moved == {v \in out.gr : v >= s.sof - s.sol}
                    \cup {v - s.sol : v \in {u \in out.gr : u >= s.sol /\ u < s.sof}}
<1>6. moved \in SUBSET Int
  <2>1. out.gr \in SUBSET Int
    BY <1>5 DEF Contents
  <2> QED
    BY <1>2, <2>1
<1>7. k = [out EXCEPT !.gr = moved]
  BY DEF MoveOutputs
<1>8. \A u \in out.gr : u >= s.sol /\ u < s.sof => u - s.sol \in moved
  OBVIOUS
<1> HIDE DEF moved, out, k, t
<1>9. k \in Contents /\ k.grDirty = {} /\ k.gr = moved /\ k.mem = c.mem /\ k.pgr = out.pgr
  BY <1>5, <1>6, <1>7 DEF Contents
<1>10. t.bsp \in Int
  BY <1>4, SoundFacts
<1>11. ASSUME word # Nowhere
       PROVE  /\ i < Index(t.bspstore) => word \in k.mem
              /\ i >= Index(t.bspstore) => Held(t, k, i)
  <2>1. i \in Int /\ i < B + s.sof /\ (i < Index(s.bspstore) => word \in c.mem)
    BY <1>11, WordFacts, Zenon
  <2>2. ASSUME i >= Index(s.bspstore) PROVE Held(t, k, i)
    <3>1. Place(s, i) \in out.pgr /\ Held(s, out, i)
      BY <1>5, <1>11, <2>2, Zenon
    <3>2. Place(t, i) = Place(s, i)
      BY <1>2, <1>4, <1>10, <2>1, PlaceMoves
    <3>3. ASSUME i >= B + s.sol PROVE i - (B + s.sol) \in moved
      <4>1. i >= B /\ i - B >= s.sol /\ i - B < s.sof /\ i - (B + s.sol) = (i - B) - s.sol
        BY <1>2, <2>1, <3>3, SMTT(40)
      <4>2. i - B \in out.gr
        BY <3>1, <4>1, Zenon DEF Held
      <4> QED
        BY <1>8, <4>1, <4>2
    <3> QED
      BY <1>4, <1>9, <3>1, <3>2, <3>3, Zenon DEF Held
  <2> QED
    BY <1>4, <1>9, <2>1, <2>2, Zenon
<1> QED
  BY <1>1, <1>4, <1>9, <1>11, StepFound, WordType

LEMMA CoverVInv ==
    ASSUME PInv, VInv, Cover
    PROVE  VInv'
<1> DEFINE t == SetFrame(PreserveFrame(s, s.sof), EmptyFrame)
           out == SyncFrameOut(s, c)
           i == Index(word)
           B == Index(s.bsp)
<1>1. Sound(s) /\ Step(t, out, word)
  BY DEF PInv, Cover
<1>2. /\ s.sof \in 0 .. N /\ N \in Nat /\ s.sof \in Int /\ s.sof <= s.sof
      /\ s.bol \in Int /\ s.bsp \in Int /\ B \in Int /\ Index(s.bspstore) \in Int
  <2>1. s.sof \in 0 .. N /\ s.bol \in Int /\ s.bsp \in Int /\ B \in Int /\ Index(s.bspstore) \in Int
    BY <1>1, SoundFacts
  <2> QED
    BY <2>1, Sizes
<1>3. EmptyFrame \in Frames /\ EmptyFrame.sof = s.sof - s.sof
  BY <1>2 DEF Frames, EmptyFrame
<1>4. /\ Sound(t) /\ t.bol = (s.bol + s.sof) % N
      /\ t.bspstore = s.bspstore /\ Index(t.bsp) = B + s.sof
  BY <1>1, <1>2, <1>3, PreserveSound, Zenon
<1>5. /\ out \in Contents /\ out.grDirty = {} /\ out.mem = c.mem
      /\ word # Nowhere /\ i >= Index(s.bspstore) => Place(s, i) \in out.pgr
  BY SyncOut
<1> HIDE DEF out, t
<1>6. t.bsp \in Int
  BY <1>4, SoundFacts, Zenon
<1>7. ASSUME word # Nowhere
      PROVE  /\ i < Index(t.bspstore) => word \in out.mem
             /\ i >= Index(t.bspstore) => Held(t, out, i)
  <2>1. i \in Int /\ i < B + s.sof /\ (i < Index(s.bspstore) => word \in c.mem)
    BY <1>7, WordFacts
  <2>2. Place(t, i) = Place(s, i)
    BY <1>2, <1>4, <1>6, <2>1, PlaceMoves, ZenonT(60)
  <2>3. ~(i >= Index(t.bsp))
    BY <1>2, <1>4, <2>1, SMTT(40)
  <2> QED
    BY <1>4, <1>5, <1>7, <2>1, <2>2, <2>3, Zenon DEF Held
<1> QED
  BY <1>1, <1>4, <1>5, <1>7, StepFound, WordType

\* br.ret and rfi: the frame goes up, and the view is read from the
\* physical registers.
LEMMA ReturnVInv ==
    ASSUME PInv, VInv, NEW f \in Frames, NEW n \in 0 .. N, n <= f.sof, ReturnToFrame(f, n)
    PROVE  VInv'
<1> DEFINE t == RestoreFrame(s, f, n)
           out == SyncFrameOut(s, c)
           k == SyncFrameIn(t, out, 0)
           i == Index(word)
           B == Index(s.bsp)
<1>1. Sound(s) /\ Step(t, k, word)
  BY DEF PInv, ReturnToFrame
<1>2. /\ N \in Nat /\ n \in Int /\ -n \in Int
      /\ s.bol \in Int /\ s.bsp \in Int /\ B \in Int /\ Index(s.bspstore) \in Int
  BY <1>1, SoundFacts, Sizes, SMTT(40)
<1>3. /\ Sound(t) /\ t.bol = (s.bol + (-n)) % N /\ t.bspstore = s.bspstore
      /\ Index(t.bsp) = B + (-n)
  <2>1. /\ Sound(t) /\ t.bol = (s.bol - n) % N /\ t.bspstore = s.bspstore
        /\ Index(t.bsp) = B - n
    BY <1>1, RestoreSound
  <2>2. s.bol - n = s.bol + (-n) /\ B - n = B + (-n)
    BY <1>2, ZenonT(60)
  <2> QED
    BY <2>1, <2>2
<1>4. /\ out \in Contents /\ out.grDirty = {} /\ out.mem = c.mem
      /\ word # Nowhere /\ i >= Index(s.bspstore) => Place(s, i) \in out.pgr
  BY SyncOut
<1>5. t.bsp \in Int /\ t.bol \in Int /\ t.sof \in 0 .. N /\ t.sof \in Int /\ Index(t.bsp) \in Int
  <2>1. t.bsp \in Int /\ t.bol \in Int /\ t.sof \in 0 .. N /\ Index(t.bsp) \in Int
    BY <1>3, SoundFacts
  <2> QED
    BY <1>2, <2>1
<1> DEFINE view == {v \in out.gr : v < 0 \/ v >= t.sof}
                   \cup {v \in 0 .. t.sof - 1 : Phys(t, v) \in out.pgr}
<1>6. view \in SUBSET Int
  <2>1. out.gr \in SUBSET Int
    BY <1>4 DEF Contents
  <2> HIDE DEF t, out
  <2> QED
    BY <1>5, <2>1
<1>7. k = [out EXCEPT !.gr = view]
  BY DEF SyncFrameIn
<1>8. \A v \in 0 .. t.sof - 1 : Phys(t, v) \in out.pgr => v \in view
  OBVIOUS
<1> HIDE DEF view, out, k, t
<1>9. k \in Contents /\ k.grDirty = {} /\ k.gr = view /\ k.mem = c.mem /\ k.pgr = out.pgr
  BY <1>4, <1>6, <1>7 DEF Contents
<1>10. ASSUME word # Nowhere, i < Index(t.bsp) + t.sof
       PROVE  /\ i < Index(t.bspstore) => word \in k.mem
              /\ i >= Index(t.bspstore) => Held(t, k, i)
  <2>1. i \in Int /\ (i < Index(s.bspstore) => word \in c.mem)
    BY <1>10, WordFacts
  <2>2. ASSUME i >= Index(s.bspstore) PROVE Held(t, k, i)
    <3>1. Place(s, i) \in out.pgr
      BY <1>4, <1>10, <2>2
    <3>2. Place(t, i) = Place(s, i)
      BY <1>2, <1>3, <1>5, <2>1, PlaceMoves
    <3>3. ASSUME i >= Index(t.bsp) PROVE i - Index(t.bsp) \in view
      <4>1. i - Index(t.bsp) \in 0 .. t.sof - 1
        BY <1>5, <1>10, <2>1, <3>3
      <4>2. Phys(t, i - Index(t.bsp)) = Place(t, i)
        BY DEF Phys, Place
      <4> QED
        BY <1>8, <3>1, <3>2, <4>1, <4>2
    <3> QED
      BY <1>9, <3>1, <3>2, <3>3 DEF Held
  <2> QED
    BY <1>3, <1>9, <2>1, <2>2
<1> QED
  BY <1>1, <1>3, <1>9, <1>10, StepFound, WordType

\* One word is loaded below the ones that are in registers.
LEMMA LoadFills ==
    ASSUME PInv, VInv, NEW t, Sound(t),
           t.sof = s.sof, t.bol = s.bol, t.bsp = s.bsp, t.bspstore = s.bspstore - 1,
           IsCollection(s.bspstore - 1) \/ s.invalid > 0,
           ~Complete(t) => c.grDirty = {},
           Step(t, LoadContents(s, c), word)
    PROVE  VInv'
<1> DEFINE k == LoadContents(s, c)
           S == Index(s.bspstore)
           B == Index(s.bsp)
           a == s.bspstore - 1
           i == Index(word)
           reg == LoadReg(s)
           v == (LoadReg(s) - s.bol) % N
<1>1. Sound(s) /\ c \in Contents
  BY Zenon DEF PInv, VInv
<1>2. /\ s.bsp \in Int /\ s.bspstore \in Int /\ S \in Int /\ B \in Int
      /\ s.dirty = B - S /\ s.bol \in Int /\ s.sof \in 0 .. N /\ N \in Nat /\ s.clean = 0
      /\ s.sof + s.dirty + s.invalid = N /\ s.invalid \in Nat /\ a \in Int /\ BspLoad(s) = a
  <2>1. /\ s.bsp \in Int /\ s.bspstore \in Int /\ S \in Int /\ B \in Int
        /\ s.dirty = B - S /\ s.bol \in Int /\ s.sof \in 0 .. N /\ s.clean = 0
        /\ s.invalid \in Nat /\ BspLoad(s) = a
    BY <1>1, SoundFacts, Zenon
  <2>2. s.sof + s.dirty + s.invalid = N
    BY <1>1 DEF Sound
  <2> QED
    BY <2>1, <2>2, Sizes, SMTT(40)
<1>3. c.gr \in SUBSET Int /\ c.grDirty \in SUBSET Nat /\ c.pgr \in SUBSET Int /\ c.mem \in SUBSET Int
  BY <1>1, Zenon DEF Contents
<1>4. \A q, j : Held(t, q, j) <=> Held(s, q, j)
  BY SamePlace, Zenon
<1>5. a + 1 = s.bspstore
  BY <1>2, SMTT(40)
<1>6. CASE IsCollection(a)
  <2>1. k = c
    BY <1>2, <1>6, Zenon DEF LoadContents
  <2>2. Index(t.bspstore) = S
    BY <1>2, <1>5, <1>6, NextWord, Zenon
  <2>3. word # Nowhere =>
           /\ Index(word) < Index(t.bspstore) => word \in c.mem
           /\ Index(word) >= Index(t.bspstore) => Held(t, c, Index(word))
    BY <1>4, <2>2, WordFacts, Zenon
  <2>4. Step(t, c, word)
    BY <2>1, Zenon
  <2> QED
    BY <1>1, <2>3, <2>4, StepFound, WordType
<1>7. CASE ~IsCollection(a)
  <2>1. S = Index(a) + 1 /\ Index(t.bspstore) = S - 1 /\ s.invalid > 0 /\ Index(a) \in Int
    BY <1>2, <1>5, <1>7, NextWord, Places, SMTT(40)
  <2>2. reg = Place(s, S - 1)
    <3>1. s.bol - (s.clean + s.dirty + 1) = s.bol + ((S - 1) - B)
      BY <1>2, SMTT(40)
    <3> QED
      BY <3>1, Zenon DEF LoadReg, Place
  <2>3. reg \in Int /\ v \in Regs /\ v \in Int
    <3>1. S - 1 \in Int
      BY <1>2, SMTT(40)
    <3>2. reg \in Int
      BY <1>2, <2>2, <3>1, PlaceType, Zenon
    <3>3. reg - s.bol \in Int
      BY <1>2, <3>2
    <3>4. v \in Regs
      BY <3>3, Rotate, Zenon
    <3> QED
      BY <1>2, <3>2, <3>4, SMTT(40) DEF Regs
  <2>4. v = ((S - 1) - B) % N
    <3> DEFINE x == s.bol + ((S - 1) - B)
               y == -s.bol
    <3>1. x \in Int /\ y \in Int /\ x + y = (S - 1) - B
      BY <1>2, SMTT(40)
    <3>2. reg = x % N
      BY <2>2, Zenon DEF Place
    <3>3. reg - s.bol = (x % N) + y
      BY <1>2, <2>3, <3>2, Zenon
    <3> HIDE DEF x, y
    <3>4. ((x % N) + y) % N = (x + y) % N
      BY <3>1, Rotate, Zenon
    <3> QED
      BY <3>1, <3>3, <3>4
  <2>5. (S - 1) - B >= 0 /\ (S - 1) - B < s.sof => (S - 1) - B \in Regs
    BY <1>2, <2>1, SMTT(40) DEF Regs
  <2>6. (S - 1) - B >= 0 /\ (S - 1) - B < s.sof => v = (S - 1) - B
    <3> DEFINE d == (S - 1) - B
    <3>1. d \in Int
      BY <1>2, SMTT(40)
    <3>2. d >= 0 /\ d < s.sof => d \in Regs
      BY <2>5
    <3> HIDE DEF d
    <3>3. d >= 0 /\ d < s.sof => d % N = d
      BY <3>1, <3>2, Rotate, Zenon
    <3> QED
      BY <2>4, <3>3, Zenon DEF d
  <2>12. reg = (s.bol + v) % N
    <3> DEFINE x == (S - 1) - B
    <3>1. x \in Int
      BY <1>2
    <3>2. reg = (s.bol + x) % N
      BY <2>2, Zenon DEF Place
    <3>3. v = x % N
      BY <2>4, Zenon
    <3> HIDE DEF x
    <3>4. x % N \in Int
      BY <2>3, <3>3, Zenon
    <3>5. s.bol + v = (x % N) + s.bol /\ s.bol + x = x + s.bol
      BY <1>2, <3>1, <3>3, <3>4, SMTT(40)
    <3>6. ((x % N) + s.bol) % N = (x + s.bol) % N
      BY <1>2, <3>1, Rotate, ZenonT(60)
    <3> QED
      BY <3>2, <3>5, <3>6, Zenon
  <2> DEFINE fp == Copy(c.pgr, reg, c.mem, a)
             fg == IF v < s.sof THEN Copy(c.gr, v, c.mem, a) ELSE c.gr
  <2>7. k = [c EXCEPT !.pgr = fp, !.gr = fg]
    BY <1>2, <1>7, Zenon DEF LoadContents
  <2>8. fp \in SUBSET Int /\ fg \in SUBSET Int
    <3> HIDE DEF v, reg
    <3> QED
      BY <1>3, <2>3 DEF Copy
  <2> HIDE DEF fp, fg, k, v, reg
  <2>9. k \in Contents /\ k.gr = fg /\ k.grDirty = c.grDirty /\ k.pgr = fp /\ k.mem = c.mem
    BY <1>1, <2>7, <2>8, Zenon DEF Contents
  <2>10. ASSUME word # Nowhere
         PROVE  /\ i < Index(t.bspstore) => word \in k.mem
                /\ i >= Index(t.bspstore) => Held(t, k, i)
    <3>1. /\ i \in Int /\ word \in Int /\ ~IsCollection(word) /\ i < B + s.sof
          /\ (i < S => word \in c.mem) /\ (i >= S => Held(s, c, i))
      BY <2>10, WordFacts, ZenonT(60)
    <3>0. S \in Int
      BY <1>2, Zenon
    <3>2. CASE i < S - 1
      <4>1. i < S /\ ~(i >= Index(t.bspstore))
        <5>1. Index(t.bspstore) = S - 1 /\ i \in Int
          BY <2>1, <3>1, Zenon
        <5> QED
          BY <3>0, <3>2, <5>1, SMT
      <4>2. word \in k.mem
        BY <2>9, <3>1, <4>1, Zenon
      <4> QED
        BY <4>1, <4>2, Zenon
    <3>3. CASE i = S - 1
      <4>1. word = a /\ word \in c.mem
        BY <1>2, <1>7, <2>1, <3>1, <3>3, IndexOrder
      <4>2. Place(s, i) \in fp
        BY <2>2, <3>3, <4>1 DEF fp, Copy
      <4>3. ASSUME i >= B PROVE i - B \in fg
        <5>1. v = i - B /\ v < s.sof
          BY <1>2, <2>6, <3>1, <3>3, <4>3, SMTT(40)
        <5> QED
          BY <4>1, <5>1, Zenon DEF fg, Copy
      <4>4. Held(s, k, i)
        BY <2>9, <4>2, <4>3, Zenon DEF Held
      <4> QED
        <5>1. ~(i < Index(t.bspstore))
          <6>1. Index(t.bspstore) = S - 1
            BY <2>1, Zenon
          <6> QED
            BY <3>0, <3>3, <6>1, SMT
        <5> QED
          BY <1>4, <4>4, <5>1, Zenon
    <3>4. CASE i >= S
      <4>1. S - 1 \in Int /\ i - (S - 1) < N /\ (S - 1) - i < N /\ i # S - 1
        BY <1>2, <2>1, <3>1, <3>4, SMTT(40)
      <4>2. Place(s, i) # reg
        BY <1>2, <2>2, <3>1, <4>1, PlacesApart, ZenonT(60)
      <4>3. Place(s, i) \in c.pgr => Place(s, i) \in fp
        BY <4>2, Zenon DEF fp, Copy
      <4>4. ASSUME i >= B, i - B \in c.gr PROVE i - B \in fg
        <5>1. i - B # v
          BY <2>12, <4>2, Zenon DEF Place
        <5> QED
          BY <4>4, <5>1, Zenon DEF fg, Copy
      <4>5. Held(s, k, i)
        BY <2>9, <3>1, <3>4, <4>3, <4>4, Zenon DEF Held
      <4>6. ~(i < Index(t.bspstore))
        BY <1>2, <2>1, <3>1, <3>4, SMTT(40)
      <4> QED
        BY <1>4, <4>5, <4>6, Zenon
    <3>5. i < S - 1 \/ i = S - 1 \/ i >= S
      <4>1. i \in Int
        BY <3>1, Zenon
      <4> QED
        BY <3>0, <4>1, SMT
    <3> QED
      BY <3>2, <3>3, <3>4, <3>5, Zenon
  <2>11. Step(t, k, word)
    BY Zenon DEF k
  <2> QED
    BY <2>9, <2>10, <2>11, StepFound, WordType, ZenonT(60)
<1> QED
  BY <1>6, <1>7

LEMMA FrameLoadVInv ==
    ASSUME PInv, VInv, FrameLoad
    PROVE  VInv'
<1> DEFINE t == [LoadOne(s) EXCEPT !.bspstore = @ - 1]
<1>1. Step(t, LoadContents(s, c), word) /\ ~Complete(s)
  BY DEF FrameLoad, PInv, Pending
<1>2. s' = t
  BY <1>1, Stepped
<1>3. /\ Sound(t) /\ t.sof = s.sof /\ t.bol = s.bol /\ t.bsp = s.bsp
      /\ t.bspstore = s.bspstore - 1 /\ s.invalid > 0
  <2> HIDE DEF t
  <2> QED
    BY <1>2, FrameLoadShape
<1>4. c.grDirty = {}
  BY <1>1, Zenon DEF VInv
<1> HIDE DEF t
<1> QED
  BY <1>1, <1>3, <1>4, LoadFills

LEMMA LoadrsLoadVInv ==
    ASSUME PInv, VInv, LoadrsLoad
    PROVE  VInv'
<1> DEFINE t == SetBspstore(LoadOne(s))
<1>1. Step(t, LoadContents(s, c), word)
  BY DEF LoadrsLoad
<1>2. s' = t
  BY <1>1, Stepped
<1> HIDE DEF t
<1>3. /\ Sound(t) /\ t.sof = s.sof /\ t.bol = s.bol /\ t.bsp = s.bsp
      /\ t.bspstore = s.bspstore - 1 /\ (IsCollection(s.bspstore - 1) \/ s.invalid > 0)
      /\ s.bspstore <= s.bsp /\ Sound(s)
  BY <1>2, LoadrsLoadShape
<1>4. Complete(t)
  <2>1. s.bspstore \in Int /\ s.bsp \in Int
    BY <1>3, SoundFacts
  <2>2. t.bspstore <= t.bsp
    BY <1>3, <2>1, SMTT(40)
  <2> QED
    BY <1>3, <2>2, SoundFacts
<1> QED
  BY <1>1, <1>3, <1>4, LoadFills

\* loadrs: a word below the new BSPSTORE that was not in memory is given up.
LEMMA LoadrsVInv ==
    ASSUME PInv, VInv, NEW w \in Nat, Loadrs(w)
    PROVE  VInv'
<1>1. /\ Sound(s) /\ Sound(s') /\ s.bspstore <= s.bsp
      /\ s'.sof = s.sof /\ s'.bol = s.bol /\ s'.bsp = s.bsp
      /\ w >= Live(s) => s' = s
      /\ w < Live(s) => s'.bspstore = s.bsp - w /\ s.bspstore < s'.bspstore
  BY LoadrsShape
<1>2. PICK r : Step(r, c, Kept(r))
  BY DEF Loadrs
<1>3. s' = r
  BY <1>2, Stepped
<1>4. /\ s.bspstore \in Int /\ r.bspstore \in Int /\ s.bsp \in Int /\ Live(s) \in Int
      /\ Index(s.bspstore) \in Int /\ Index(r.bspstore) \in Int
      /\ s.bspstore <= r.bspstore /\ r.bspstore <= r.bsp /\ r.bsp = s.bsp
  <2>1. /\ s.bspstore \in Int /\ r.bspstore \in Int /\ s.bsp \in Int /\ Live(s) \in Int
        /\ Index(s.bspstore) \in Int /\ Index(r.bspstore) \in Int
    BY <1>1, <1>3, SoundFacts
  <2>2. CASE w >= Live(s)
    BY <1>1, <1>3, <2>1, <2>2
  <2>3. CASE w < Live(s)
    BY <1>1, <1>3, <2>1, <2>3
  <2> QED
    BY <2>1, <2>2, <2>3
<1>5. Complete(r) /\ Sound(r)
  BY <1>1, <1>3, <1>4, SoundFacts
<1>6. \A q, j : Held(r, q, j) <=> Held(s, q, j)
  BY <1>1, <1>3, SamePlace
<1>7. c \in Contents /\ word \in Int /\ Nowhere \in Int
      /\ (word # Nowhere => word \in Nat /\ ~IsCollection(word))
  BY WordType DEF VInv, Nowhere
<1>8. Kept(r) \in {word, Nowhere}
  BY Zenon DEF Kept
<1>9. ASSUME Kept(r) # Nowhere
      PROVE  /\ Index(Kept(r)) < Index(r.bspstore) => Kept(r) \in c.mem
             /\ Index(Kept(r)) >= Index(r.bspstore) => Held(r, c, Index(Kept(r)))
  <2>1. Kept(r) = word /\ word # Nowhere /\ ~(word >= s.bspstore /\ word < r.bspstore)
    BY <1>9, Zenon DEF Kept
  <2>2. /\ Index(word) \in Int /\ (word < s.bspstore <=> Index(word) < Index(s.bspstore))
        /\ (Index(word) < Index(s.bspstore) => word \in c.mem)
        /\ (Index(word) >= Index(s.bspstore) => Held(s, c, Index(word)))
    BY <2>1, WordFacts
  <2>3. word < r.bspstore <=> Index(word) < Index(r.bspstore)
    BY <1>4, <1>7, <2>1, IndexOrder
  <2>4. Index(s.bspstore) <= Index(r.bspstore)
    BY <1>4, IndexMonotone, Zenon
  <2>5. Index(word) < Index(r.bspstore) => Index(word) < Index(s.bspstore)
    BY <1>4, <1>7, <2>1, <2>2, <2>3, SMTT(40)
  <2>6. Index(word) >= Index(r.bspstore) => Index(word) >= Index(s.bspstore)
    BY <1>4, <2>2, <2>4, SMTT(40)
  <2> QED
    BY <1>6, <2>1, <2>2, <2>5, <2>6
<1> QED
  BY <1>2, <1>5, <1>7, <1>8, <1>9, StepFound

\* br.ia: the registers below the frame are given up, the saved words stay.
LEMMA Ia32VInv ==
    ASSUME PInv, VInv, EnterIa32
    PROVE  VInv'
<1> DEFINE out == SyncFrameOut(s, c)
<1>1. PICK r : Step(r, out, Kept(r))
  BY DEF EnterIa32
<1>2. s' = r
  BY <1>1, Stepped
<1>3. Sound(s) /\ Sound(r) /\ r.sof = 0 /\ r.bsp = s.bsp /\ r.bspstore = s.bsp
  BY <1>2, Ia32Shape
<1>4. s.bsp \in Int /\ s.bspstore \in Int /\ Index(s.bsp) \in Int
  BY <1>3, SoundFacts, Zenon
<1>5. out \in Contents /\ out.grDirty = {} /\ out.mem = c.mem
  BY SyncOut
<1>6. word \in Int /\ Nowhere \in Int /\ (word # Nowhere => word \in Nat /\ ~IsCollection(word))
  BY WordType DEF Nowhere
<1>7. Kept(r) \in {word, Nowhere}
  BY DEF Kept
<1> HIDE DEF out
<1>8. ASSUME Kept(r) # Nowhere, Index(Kept(r)) < Index(r.bsp) + r.sof
      PROVE  /\ Index(Kept(r)) < Index(r.bspstore) => Kept(r) \in out.mem
             /\ ~(Index(Kept(r)) >= Index(r.bspstore))
  <2>1. Kept(r) = word /\ word # Nowhere /\ ~(word >= s.bspstore /\ word < s.bsp)
    BY <1>3, <1>8, Zenon DEF Kept
  <2>2. /\ Index(word) \in Int /\ (word < s.bspstore <=> Index(word) < Index(s.bspstore))
        /\ (word < s.bsp <=> Index(word) < Index(s.bsp))
        /\ (Index(word) < Index(s.bspstore) => word \in c.mem)
    BY <2>1, WordFacts, Zenon
  <2>3. Index(word) < Index(s.bsp)
    BY <1>3, <1>4, <1>8, <2>1, <2>2
  <2>4. word < s.bspstore
    BY <1>4, <1>6, <2>1, <2>2, <2>3, SMTT(40)
  <2> QED
    BY <1>3, <1>4, <1>5, <2>1, <2>2, <2>3, <2>4
<1> QED
  BY <1>1, <1>3, <1>5, <1>6, <1>7, <1>8, StepFound

\* mov to AR.BSPSTORE: a word that is in a register gets a new address, at
\* the same distance from BSPSTORE, and stays in its register.
LEMMA MovVInv ==
    ASSUME PInv, BInv, VInv, NEW a \in Nat, MovToBspstore(a)
    PROVE  VInv'
<1> DEFINE below == RegsBetween(s.bspstore, word)
           moved == a + below + NatWordsGrow(a, below)
           w == CASE word >= s.bspstore -> moved
                  [] word < s.bspstore /\ word < a -> word
                  [] OTHER -> Nowhere
           S == Index(s.bspstore)
           i == Index(word)
<1>1. /\ Sound(s) /\ Sound(s') /\ s.bspstore <= s.bsp
      /\ s'.sof = s.sof /\ s'.bol = s.bol /\ s'.bspstore = a
      /\ Index(s'.bsp) = Index(a) + s.dirty
  BY MovShape
<1>2. PICK r : Step(r, c, w) /\ s' = r
  BY Stepped DEF MovToBspstore
<1>3. /\ s.bsp \in Int /\ s.bspstore \in Int /\ S \in Int /\ Index(s.bsp) \in Int
      /\ s.dirty = Index(s.bsp) - S /\ s.dirty >= 0 /\ s.bspstore >= 0
      /\ a \in Int /\ Index(a) \in Int
      /\ r.bsp \in Int /\ r.bspstore = a /\ r.bol = s.bol /\ r.sof = s.sof
      /\ Index(r.bsp) = Index(a) + s.dirty
  <2>1. Complete(s) /\ s.bsp \in Int /\ s.bspstore \in Int /\ S \in Int /\ Index(s.bsp) \in Int
        /\ s.dirty = Index(s.bsp) - S
    BY <1>1, SoundFacts
  <2>2. s.dirty >= 0 /\ s.bspstore >= 0
    BY <1>1, <2>1, SoundFacts DEF BInv
  <2>3. a \in Int /\ Index(a) \in Int /\ r.bsp \in Int
    BY <1>1, <1>2, SoundFacts, Places
  <2> QED
    BY <1>1, <1>2, <2>1, <2>2, <2>3, Zenon
<1>4. Sound(r) /\ Complete(r)
  <2>1. Sound(r) /\ r.dirty = Index(r.bsp) - Index(r.bspstore)
    BY <1>1, <1>2, SoundFacts, Zenon
  <2>2. r.dirty >= 0
    BY <1>3, <2>1
  <2> QED
    BY <2>1, <2>2, SoundFacts
<1>5. c \in Contents /\ word \in Int /\ Nowhere \in Int /\ Nowhere < 0
      /\ (word # Nowhere => word \in Nat /\ ~IsCollection(word))
  BY WordType, SMTT(40) DEF VInv, Nowhere
<1>6. CASE word >= s.bspstore
  <2>0. ~(word < s.bspstore)
    BY <1>3, <1>5, <1>6
  <2> HIDE DEF moved
  <2>1. w = moved
    BY <1>6, <2>0
  <2> USE DEF moved
  <2>2. word # Nowhere
    BY <1>3, <1>5, <1>6, SMTT(40)
  <2>3. /\ i \in Int /\ (word < s.bspstore <=> i < S) /\ (i >= S => Held(s, c, i))
        /\ ~IsCollection(word)
    BY <2>2, WordFacts, Zenon
  <2>4. i >= S /\ Held(s, c, i)
    BY <1>3, <1>5, <1>6, <2>3, SMTT(40)
  <2>5. below = i - S
    <3>1. word \div Group \in Int /\ s.bspstore \div Group \in Int
      BY <1>3, <1>5, Places, Zenon
    <3> QED
      BY <1>3, <1>5, <3>1, SMTT(40) DEF RegsBetween, Index
  <2> HIDE DEF below
  <2>6. below \in Int
    BY <1>3, <2>3, <2>5, SMTT(40)
  <2>7. NatWordsGrow(a, below) \in Int /\ ~IsCollection(moved) /\ Index(moved) = Index(a) + below
    BY <1>3, <2>6, Grow, ZenonT(60)
  <2>8. moved \in Int
    BY <1>3, <2>6, <2>7
  <2> HIDE DEF moved
  <2>9. Index(moved) = Index(a) + (i - S) /\ Index(moved) >= Index(a) /\ Index(moved) \in Int
    BY <1>3, <2>3, <2>4, <2>5, <2>7
  <2>10. moved \in Nat
    <3>1. ~(moved < a)
      BY <1>3, <2>7, <2>8, <2>9, IndexOrder, SMTT(40)
    <3> QED
      BY <2>8, <3>1
  <2>11. Index(moved) - Index(r.bsp) = i - Index(s.bsp)
    BY <1>3, <2>3, <2>9, SMTT(40)
  <2>12. Place(r, Index(moved)) = Place(s, i)
    BY <1>3, <2>11, Zenon DEF Place
  <2>13. Index(moved) < Index(r.bsp) <=> i < Index(s.bsp)
    BY <1>3, <2>3, <2>9, <2>11, SMTT(40)
  <2>14. Index(moved) >= Index(r.bsp) <=> i >= Index(s.bsp)
    BY <1>3, <2>3, <2>9, <2>11, SMTT(40)
  <2>15. Held(r, c, Index(moved))
    BY <2>4, <2>11, <2>12, <2>13, <2>14 DEF Held
  <2>16. ~(Index(moved) < Index(r.bspstore))
    BY <1>3, <2>9
  <2>17. Step(r, c, moved)
    BY <1>2, <2>1, Zenon
  <2> QED
    BY <1>4, <1>5, <2>7, <2>8, <2>10, <2>15, <2>16, <2>17, StepFound, Zenon
<1>7. CASE word < s.bspstore /\ word < a
  <2>1. w = word
    BY <1>3, <1>5, <1>7
  <2>2. ASSUME word # Nowhere
        PROVE  word \in c.mem /\ ~(i >= Index(r.bspstore))
    <3>1. i \in Int /\ (word < s.bspstore <=> i < S) /\ (i < S => word \in c.mem)
      BY <2>2, WordFacts
    <3>2. i < Index(a)
      BY <1>3, <1>5, <1>7, <2>2, IndexOrder
    <3> QED
      BY <1>3, <1>7, <3>1, <3>2, SMTT(40)
  <2>3. Step(r, c, word)
    BY <1>2, <2>1, Zenon
  <2> QED
    BY <1>4, <1>5, <2>2, <2>3, StepFound
<1>8. CASE word < s.bspstore /\ ~(word < a)
  <2>1. w = Nowhere
    BY <1>3, <1>5, <1>8
  <2>2. Step(r, c, Nowhere)
    BY <1>2, <2>1
  <2> QED
    BY <1>4, <1>5, <2>2, StepFound
<1> QED
  BY <1>3, <1>5, <1>6, <1>7, <1>8

LEMMA NextVInv ==
    ASSUME ~HasClean, PInv, BInv, VInv, [Next]_vars
    PROVE  VInv'
<1>1. ASSUME NEW f \in Frames, BrRet(f) PROVE VInv'
  <2>1. f.sol \in 0 .. N /\ f.sol <= f.sof
    BY DEF Frames
  <2> QED
    BY <1>1, <2>1, ReturnVInv DEF BrRet
<1>2. ASSUME NEW f \in Frames, Rfi(f) PROVE VInv'
  <2>1. f.sof \in 0 .. N /\ f.sof <= f.sof
    BY Sizes DEF Frames
  <2> QED
    BY <1>2, <2>1, ReturnVInv DEF Rfi
<1>3. CASE AllocStore
  <2>1. /\ Sound(s) /\ op \in [kind : {"alloc"}, frame : Frames, growth : Nat] /\ op.growth > 0
        /\ op.growth = op.frame.sof - s.sof - s.invalid - s.clean
    BY <1>3, Zenon DEF AllocStore, PInv, Pending
  <2>2. /\ s.sof \in 0 .. N /\ s.dirty \in Int /\ s.invalid \in Nat /\ s.clean = 0
        /\ s.bsp \in Int /\ s.bspstore \in Int /\ Index(s.bsp) \in Int /\ Index(s.bspstore) \in Int
        /\ s.dirty = Index(s.bsp) - Index(s.bspstore)
        /\ N \in Nat /\ s.sof + s.dirty + s.invalid = N /\ op.frame.sof \in 0 .. N
    BY <2>1, SoundFacts, Sizes, Zenon DEF Sound, Frames
  <2>3. Index(s.bspstore) < Index(s.bsp)
    BY <2>1, <2>2
  <2>4. ~(s.bsp <= s.bspstore)
    BY <2>2, <2>3, IndexMonotone
  <2>5. s.bspstore < s.bsp
    BY <2>2, <2>4
  <2> QED
    BY <1>3, <2>5, StoreVInv DEF AllocStore
<1>4. CASE FlushStore
  <2>1. Sound(s) /\ s.dirty + s.dirtyNat > 0
    BY <1>4, Zenon DEF FlushStore, PInv
  <2>2. /\ s.bsp \in Int /\ s.bspstore \in Int /\ s.dirty \in Int /\ s.dirtyNat \in Int
        /\ s.bspstore = s.bsp - (s.dirty + s.dirtyNat)
    BY <2>1, SoundFacts, Zenon DEF Sound
  <2>3. s.bspstore < s.bsp
    BY <2>1, <2>2
  <2> QED
    BY <1>4, <2>3, StoreVInv DEF FlushStore
<1>5. ASSUME UNCHANGED <<s, c, word>> PROVE VInv'
  <2>1. Complete(s') <=> Complete(s)
    BY <1>5
  <2>2. Found(s', c', word') <=> Found(s, c, word)
    BY <1>5
  <2> QED
    BY <1>5, <2>1, <2>2 DEF VInv
<1>6. CASE RfiResume \/ Interruption \/ UNCHANGED vars
  BY <1>5, <1>6 DEF RfiResume, Interruption, vars
<1>7. ASSUME NEW w \in 0 .. MaxWord, Loadrs(w) PROVE VInv'
  <2>1. w \in Nat
    BY RseAssumption
  <2> QED
    BY <1>7, <2>1, LoadrsVInv
<1>8. ASSUME NEW a \in 0 .. MaxWord, MovToBspstore(a) PROVE VInv'
  <2>1. a \in Nat
    BY RseAssumption
  <2> QED
    BY <1>8, <2>1, MovVInv
<1> QED
  BY <1>1, <1>2, <1>3, <1>4, <1>6, <1>7, <1>8, AllocVInv, AllocEndVInv, WriteFollowedVInv,
     WriteOtherVInv, BrCallVInv, CoverVInv, FrameLoadVInv, LoadrsLoadVInv, Ia32VInv, Zenon DEF Next

LEMMA Invariant ==
    ASSUME ~HasClean
    PROVE  Spec => []IInv
<1>1. Init => IInv
  <2> SUFFICES ASSUME Init PROVE IInv
    OBVIOUS
  <2>1. PInv
    BY InitPInv
  <2>2. BInv
    <3>1. op = None /\ s \in {Reset} \cup {Handoff(a) : a \in {b \in 0 .. MaxWord : ~IsCollection(b)}}
      BY DEF Init
    <3>2. s = Reset => s.bsp = 0 /\ s.bspstore = 0
      BY DEF Reset
    <3>3. \A a : Handoff(a).bsp = a /\ Handoff(a).bspstore = a
      BY DEF Reset, Handoff
    <3>4. \A a \in 0 .. MaxWord : a >= 0
      BY RseAssumption
    <3>5. s = Reset \/ \E a \in 0 .. MaxWord : s = Handoff(a)
      BY <3>1
    <3>6. s.bsp >= 0 /\ s.bspstore >= 0
      BY <3>2, <3>3, <3>4, <3>5, SMTT(40)
    <3> QED
      BY <3>1, <3>6 DEF BInv, None
  <2>3. VInv
    BY DEF Init, VInv, NoCopy, Contents
  <2> QED
    BY <2>1, <2>2, <2>3 DEF IInv
<1>2. IInv /\ [Next]_vars => IInv'
  BY NextPInv, NextBInv, NextVInv, Zenon DEF IInv
<1> QED
  BY <1>1, <1>2, PTL DEF Spec

\* The value a program left in a stacked register is always where the
\* emulator will look for it: in memory once its word is below BSPSTORE, in
\* its physical register while it is dirty, and in env->gr while it is in the
\* current frame; whatever was called, returned from, spilled, reloaded,
\* interrupted or moved in between.
THEOREM ValuesKept ==
    ASSUME ~HasClean
    PROVE  Spec => []ValueFound
<1>1. IInv => ValueFound
  <2> SUFFICES ASSUME IInv PROVE ValueFound
    OBVIOUS
  <2>1. PInv /\ VInv /\ Sound(s)
    BY DEF IInv, PInv
  <2> SUFFICES ASSUME word # Nowhere
               PROVE  /\ word < s.bspstore => word \in c.mem
                      /\ ~(word < s.bspstore) /\ word < s.bsp => Home(s, word) \in c.pgr
                      /\ ~(word < s.bspstore) /\ ~(word < s.bsp) => FrameReg(s, word) \in c.gr
    BY ZenonT(60) DEF ValueFound
  <2>2. /\ word \in Int /\ Index(word) \in Int
        /\ (word < s.bspstore <=> Index(word) < Index(s.bspstore))
        /\ (word < s.bsp <=> Index(word) < Index(s.bsp))
        /\ (Index(word) < Index(s.bspstore) => word \in c.mem)
        /\ (Index(word) >= Index(s.bspstore) => Held(s, c, Index(word)))
    BY <2>1, WordFacts
  <2>3. /\ s.bsp \in Int /\ s.bspstore \in Int /\ Index(s.bsp) \in Int /\ Index(s.bspstore) \in Int
    BY <2>1, SoundFacts, Zenon
  <2>4. FrameReg(s, word) = Index(word) - Index(s.bsp) /\ Home(s, word) = Place(s, Index(word))
    BY <2>2, <2>3, RegOf, Zenon
  <2>5. ~(word < s.bspstore) => Held(s, c, Index(word))
    BY <2>2, <2>3
  <2>6. ~(word < s.bsp) => Index(word) >= Index(s.bsp)
    BY <2>2, <2>3
  <2> QED
    BY <2>2, <2>4, <2>5, <2>6 DEF Held
<1> QED
  BY <1>1, Invariant, PTL

=============================================================================
