----------------------------- MODULE AlatProofs -----------------------------
(***************************************************************************)
(* The generation protocol of the ALAT: a sample is never ahead of the     *)
(* memory generation, a table in step with it is coherent, and a check     *)
(* that hits keeps a current register, for any number of processors,       *)
(* devices, registers and bytes.                                           *)
(***************************************************************************)
EXTENDS Alat, FiniteSetTheorems, WellFoundedInduction, TLAPS

-----------------------------------------------------------------------------
(* Sums of sequences.                                                      *)

\* A set of naturals with 0 and with the successors of its members is Nat.
LEMMA Induction ==
    ASSUME NEW S, 0 \in S, \A n \in Nat : n \in S => n + 1 \in S
    PROVE  \A n \in Nat : n \in S
<1> DEFINE R == OpToRel(<, Nat)
           T == {n \in Nat : n \notin S}
<1>1. SUFFICES ASSUME T # {} PROVE FALSE
  OBVIOUS
<1>2. T \in SUBSET Nat
  OBVIOUS
<1>3. IsWellFoundedOn(R, Nat)
  BY NatLessThanWellFounded, Zenon
<1>4. PICK n \in T : \A k \in T : ~(<<k, n>> \in R)
  <2> HIDE DEF R, T
  <2> QED
    BY <1>1, <1>2, <1>3, WFMin, Zenon
<1>5. n \in Nat /\ n # 0
  OBVIOUS
<1>6. n - 1 \in Nat /\ n - 1 < n /\ (n - 1) + 1 = n
  BY <1>5
<1>7. <<n - 1, n>> \in R
  BY <1>5, <1>6 DEF OpToRel
<1>8. n - 1 \in S
  BY <1>4, <1>6, <1>7, Zenon
<1>9. n \in S
  BY <1>6, <1>8
<1> QED
  BY <1>9

\* There is at least one processor; they are numbered from 0.
LEMMA CpuFacts ==
    Count \in Nat /\ Count > 0 /\ CPU = 0 .. Last /\ Last = Count - 1 /\ Last \in CPU /\ 0 \in CPU
<1>1. Count \in Nat
  BY CpuAssumption, FS_CardinalityType DEF Count
<1>2. Count # 0
  BY CpuAssumption, FS_EmptySet, Zenon DEF Count
<1>3. CPU = 0 .. Count - 1
  BY CpuAssumption, Zenon DEF Count
<1> QED
  BY <1>1, <1>2, <1>3 DEF Last

Sums(s, f, m) ==
    /\ s \in [0 .. m -> Nat]
    /\ s[0] = 0
    /\ \A n \in 1 .. m : s[n] = s[n - 1] + f[n - 1]

LEMMA SumsExtend ==
    ASSUME NEW f \in [CPU -> Nat], NEW m \in Nat, m + 1 <= Count, NEW s, Sums(s, f, m)
    PROVE  \E t : Sums(t, f, m + 1)
<1> DEFINE t == [n \in 0 .. m + 1 |-> IF n <= m THEN s[n] ELSE s[m] + f[m]]
<1>1. m \in CPU /\ f[m] \in Nat /\ s[m] \in Nat
  BY CpuFacts DEF Sums
<1>2. t \in [0 .. m + 1 -> Nat]
  BY <1>1 DEF Sums
<1>3. t[0] = 0
  BY DEF Sums
<1>4. ASSUME NEW n \in 1 .. m + 1 PROVE t[n] = t[n - 1] + f[n - 1]
  <2>1. n \in 0 .. m + 1 /\ n - 1 \in 0 .. m + 1 /\ n - 1 <= m
    OBVIOUS
  <2>2. CASE n <= m
    <3>1. n \in 1 .. m
      BY <2>2
    <3> QED
      BY <2>1, <2>2, <3>1 DEF Sums
  <2>3. CASE n = m + 1
    BY <2>1, <2>3
  <2> QED
    BY <2>2, <2>3
<1> QED
  BY <1>2, <1>3, <1>4, Zenon DEF Sums

LEMMA SumsExist ==
    ASSUME NEW f \in [CPU -> Nat]
    PROVE  \E s : Sums(s, f, Count)
<1> DEFINE S == {m \in Nat : m <= Count => \E s : Sums(s, f, m)}
<1>1. 0 \in S
  <2>1. Sums([n \in 0 .. 0 |-> 0], f, 0)
    BY DEF Sums
  <2> QED
    BY <2>1
<1>2. ASSUME NEW m \in Nat, m \in S PROVE m + 1 \in S
  <2>1. SUFFICES ASSUME m + 1 <= Count PROVE \E t : Sums(t, f, m + 1)
    OBVIOUS
  <2>2. PICK s : Sums(s, f, m)
    BY <1>2, <2>1, CpuFacts
  <2> QED
    BY <2>1, <2>2, SumsExtend
<1>3. \A m \in Nat : m \in S
  <2> HIDE DEF S
  <2> QED
    BY <1>1, <1>2, Induction, Zenon
<1> QED
  BY <1>3, CpuFacts

\* The loop over the processors adds up their sequences.
LEMMA SumToSums ==
    ASSUME NEW f \in [CPU -> Nat]
    PROVE  Sums(SumTo(f), f, Count)
<1> DEFINE Loop(s) == s = [n \in 0 .. Count |-> IF n = 0 THEN 0 ELSE s[n - 1] + f[n - 1]]
<1>1. PICK s : Sums(s, f, Count)
  BY SumsExist
<1>2. Loop(s)
  <2> DEFINE t == [n \in 0 .. Count |-> IF n = 0 THEN 0 ELSE s[n - 1] + f[n - 1]]
  <2>1. ASSUME NEW n \in 0 .. Count PROVE s[n] = t[n]
    BY <1>1, CpuFacts DEF Sums
  <2>2. s \in [0 .. Count -> Nat]
    BY <1>1 DEF Sums
  <2> QED
    BY <2>1, <2>2
<1>3. Loop(SumTo(f))
  BY <1>2, Zenon DEF SumTo
<1> DEFINE P == SumTo(f)
<1>4. P = [n \in 0 .. Count |-> IF n = 0 THEN 0 ELSE P[n - 1] + f[n - 1]]
  BY <1>3, Zenon
<1> HIDE DEF P
<1>5. P[0] = 0
  BY <1>4, CpuFacts
<1>6. ASSUME NEW n \in 1 .. Count PROVE P[n] = P[n - 1] + f[n - 1]
  <2>1. n \in 0 .. Count /\ n # 0
    BY CpuFacts
  <2> QED
    BY <1>4, <2>1, Zenon
<1>7. \A n \in Nat : n \in {m \in Nat : m <= Count => P[m] \in Nat}
  <2> DEFINE S == {m \in Nat : m <= Count => P[m] \in Nat}
  <2>1. 0 \in S
    BY <1>5
  <2>2. ASSUME NEW m \in Nat, m \in S PROVE m + 1 \in S
    <3>1. SUFFICES ASSUME m + 1 <= Count PROVE P[m + 1] \in Nat
      OBVIOUS
    <3>2. P[m] \in Nat /\ m + 1 \in 1 .. Count /\ (m + 1) - 1 = m
      BY <2>2, <3>1, CpuFacts
    <3>3. f[m] \in Nat
      BY <3>1, CpuFacts
    <3>4. P[m + 1] = P[m] + f[m]
      BY <1>6, <3>2
    <3> QED
      BY <3>2, <3>3, <3>4
  <2> HIDE DEF S
  <2>3. \A n \in Nat : n \in S
    BY <2>1, <2>2, Induction, Zenon
  <2> QED
    BY <2>3 DEF S
<1>8. P \in [0 .. Count -> Nat]
  <2>1. ASSUME NEW n \in 0 .. Count PROVE P[n] \in Nat
    BY <1>7, CpuFacts
  <2>2. P = [n \in 0 .. Count |-> P[n]]
    BY <1>4
  <2> QED
    BY <2>1, <2>2
<1> QED
  BY <1>5, <1>6, <1>8 DEF Sums, P

\* The sum of the sequences from the n-th on.
RestOf(f, n) == SumTo(f)[Count] - SumTo(f)[n]

LEMMA RestFacts ==
    ASSUME NEW f \in [CPU -> Nat]
    PROVE  /\ SumTo(f)[Count] \in Nat
           /\ RestOf(f, 0) = SumTo(f)[Count]
           /\ RestOf(f, Count) = 0
           /\ \A n \in CPU : RestOf(f, n) = f[n] + RestOf(f, n + 1)
           /\ \A n \in 0 .. Count : RestOf(f, n) \in Int
<1> DEFINE P == SumTo(f)
<1>1. Sums(P, f, Count)
  BY SumToSums
<1> HIDE DEF P
<1>2. \A n \in 0 .. Count : P[n] \in Nat
  BY <1>1, CpuFacts DEF Sums
<1>3. ASSUME NEW n \in CPU PROVE P[n + 1] = P[n] + f[n]
  <2>1. n + 1 \in 1 .. Count /\ (n + 1) - 1 = n
    BY CpuFacts
  <2> QED
    BY <1>1, <2>1 DEF Sums
<1>4. ASSUME NEW n \in CPU PROVE P[Count] - P[n] = f[n] + (P[Count] - P[n + 1])
  <2>1. P[n] \in Nat /\ P[n + 1] \in Nat /\ P[Count] \in Nat /\ f[n] \in Nat
    BY <1>2, CpuFacts
  <2> QED
    BY <1>3, <2>1
<1>5. P[0] = 0 /\ P[Count] \in Nat
  BY <1>1, <1>2, CpuFacts DEF Sums
<1> QED
  BY <1>2, <1>4, <1>5 DEF RestOf, P

\* One more step of one sequence counts once, in every sum that includes it.
LEMMA RestBump ==
    ASSUME NEW f \in [CPU -> Nat], NEW k \in CPU, NEW g, g = [f EXCEPT ![k] = f[k] + 1]
    PROVE  /\ SumTo(g)[Count] = SumTo(f)[Count] + 1
           /\ \A n \in 0 .. Count :
                  RestOf(g, n) = RestOf(f, n) + (IF n <= k THEN 1 ELSE 0)
<1> DEFINE P == SumTo(f)
           Q == SumTo(g)
<1>1. g \in [CPU -> Nat]
  OBVIOUS
<1>2. Sums(P, f, Count) /\ Sums(Q, g, Count)
  BY <1>1, SumToSums, Zenon
<1> HIDE DEF P, Q
<1> DEFINE S == {m \in Nat : m <= Count => Q[m] = P[m] + (IF m <= k THEN 0 ELSE 1)}
<1>3. 0 \in S
  BY <1>2, CpuFacts DEF Sums
<1>4. ASSUME NEW m \in Nat, m \in S PROVE m + 1 \in S
  <2>1. SUFFICES ASSUME m + 1 <= Count
                 PROVE  Q[m + 1] = P[m + 1] + (IF m + 1 <= k THEN 0 ELSE 1)
    OBVIOUS
  <2>2. m + 1 \in 1 .. Count /\ (m + 1) - 1 = m /\ m \in CPU /\ m \in 0 .. Count
    BY <2>1, CpuFacts
  <2>3. Q[m + 1] = Q[m] + g[m] /\ P[m + 1] = P[m] + f[m]
    BY <1>2, <2>2 DEF Sums
  <2>4. Q[m] = P[m] + (IF m <= k THEN 0 ELSE 1)
    BY <1>4, <2>1, CpuFacts
  <2>5. P[m] \in Nat /\ f[m] \in Nat
    BY <1>2, <2>2 DEF Sums
  <2>6. g[m] = IF m = k THEN f[m] + 1 ELSE f[m]
    BY <2>2
  <2>7. k \in Nat
    BY CpuFacts
  <2> QED
    BY <2>3, <2>4, <2>5, <2>6, <2>7
<1>5. \A m \in Nat : m \in S
  <2> HIDE DEF S
  <2> QED
    BY <1>3, <1>4, Induction, Zenon
<1>6. \A n \in 0 .. Count : Q[n] = P[n] + (IF n <= k THEN 0 ELSE 1) /\ P[n] \in Nat
  <2> TAKE n \in 0 .. Count
  <2>1. n \in Nat /\ n <= Count
    BY CpuFacts
  <2>2. Q[n] = P[n] + (IF n <= k THEN 0 ELSE 1)
    BY <1>5, <2>1
  <2>3. P[n] \in Nat
    BY <1>2 DEF Sums
  <2> QED
    BY <2>2, <2>3
<1>7. Q[Count] = P[Count] + 1 /\ P[Count] \in Nat
  BY <1>6, CpuFacts
<1>8. ASSUME NEW n \in 0 .. Count
      PROVE  Q[Count] - Q[n] = (P[Count] - P[n]) + (IF n <= k THEN 1 ELSE 0)
  <2>1. n \in Nat /\ k \in Nat
    BY CpuFacts
  <2>2. Q[n] = P[n] + (IF n <= k THEN 0 ELSE 1) /\ P[n] \in Nat
    BY <1>6, Zenon
  <2> QED
    BY <1>7, <2>1, <2>2
<1> QED
  BY <1>7, <1>8, Zenon DEF RestOf, P, Q

-----------------------------------------------------------------------------
(* The invariant.                                                          *)

Samplers == {"external", "sequence", "before", "again", "after"}
Opening == {"resampled", "load", "find", "overlap"}
Closing == {"set", "published", "match", "hit", "stored"}
Checking == {"find", "match", "hit"}

Ops ==
    [at : Samplers \union Opening \union Closing \union {"write", "finish"},
     closing : BOOLEAN, then : Opening \union Closing \union {"synced"},
     sum : Nat, changed : BOOLEAN, first : Nat, next : CPU, expected : Nat,
     kind : Kind, reg : Reg, access : SUBSET Byte, verify : BOOLEAN,
     clear : BOOLEAN, floor : [Byte -> Nat]]

\* What an instruction is about: where it is, or where its sample returns to.
Stage(c) == IF op[c].at \in Samplers THEN op[c].then ELSE op[c].at

\* What a sample that has reached the n-th processor will still add.
Rest(n) == RestOf(sequence, n)

\* The bumps of its own scope that synced does not count yet.
Own(c) == IF Stage(c) \in {"write", "finish"} THEN 1
          ELSE IF Stage(c) = "stored" THEN 2 ELSE 0

\* The bytes a processor has stored to and will drop from its table.
Storing(c) ==
    \/ Stage(c) = "finish" /\ op[c].kind # "unequal"
    \/ Stage(c) \in {"stored", "overlap"}

\* The range a register stands for, also while its load is in progress.
Covered(c, r) ==
    IF Stage(c) = "set" /\ op[c].reg = r THEN op[c].access ELSE alat[c][r]

Current(c) ==
    \A r \in Reg : \A b \in Covered(c, r) :
        (Storing(c) => b \notin op[c].access) => loaded[c][r][b] = ram[b]

\* Somebody else has stored and not yet said so.
Written(d) == op[d].at = "finish" /\ op[d].kind # "unequal"
Dirty(c) ==
    \/ \E d \in CPU \ {c} : Written(d)
    \/ \E v \in External : device[v] = "dirty"

Types ==
    /\ ram \in [Byte -> Nat]
    /\ sequence \in [CPU -> Nat]
    /\ generation \in Nat
    /\ writers = Cardinality({d \in External : device[d] # "closed"})
    /\ device \in [External -> {"closed", "open", "dirty", "advanced"}]
    /\ alat \in [CPU -> [Reg -> LoadAccess \union {{}}]]
    /\ synced \in [CPU -> Nat]
    /\ loaded \in [CPU -> [Reg -> [Byte -> Nat]]]
    /\ op \in [CPU -> Ops \union {Idle}]

\* What an instruction knows at each of its places.
Shape(c) ==
    /\ op[c].at \in {"before", "again", "after"} => Stage(c) \in Closing
    /\ op[c].at \in Samplers =>
           (op[c].closing <=> Stage(c) \in Closing) /\ Stage(c) # "synced"
    /\ Stage(c) \in {"set", "published", "match", "hit"} => op[c].expected = synced[c]
    /\ Stage(c) \in {"write", "finish", "stored"} => op[c].expected = synced[c] + 2
    /\ Stage(c) = "resampled" => Entries(c) = {}
    /\ Stage(c) \in {"load", "set"} => op[c].access \in LoadAccess
    /\ Stage(c) \in Checking => \A b \in Byte : op[c].floor[b] <= ram[b]
    /\ Odd(sequence[c]) <=> op[c].at \in {"write", "finish"}
    /\ Cardinality(Entries(c)) <= Slots

\* A sample is never ahead of the generation it samples.
Behind(c) ==
    /\ synced[c] + Own(c) <= Total
    /\ op[c].at = "sequence" => op[c].sum + Rest(op[c].next) <= Total
    /\ op[c].at \in Opening => op[c].sum <= Total
    /\ op[c].at \in {"sequence", "before", "again"} => op[c].first <= generation

\* Entries that are not current are about to be found out.
Coherent(c) == Current(c) \/ synced[c] + Own(c) < Total \/ Dirty(c)

\* A check whose register is older than the check.
Late(c) ==
    /\ Stage(c) \in {"match", "hit"}
    /\ \E b \in alat[c][op[c].reg] : loaded[c][op[c].reg][b] < op[c].floor[b]

Caught(c) ==
    \/ op[c].at = "external"
    \/ /\ op[c].at = "sequence"
       /\ \/ op[c].changed
          \/ op[c].expected < op[c].sum + Rest(op[c].next)
          \/ \E d \in op[c].next .. Last : Written(d)
          \/ \E v \in External : device[v] = "dirty"
          \/ op[c].first < generation
    \/ /\ op[c].at = "before"
       /\ op[c].changed \/ op[c].first < generation
          \/ \E v \in External : device[v] = "dirty"
    \/ op[c].at = "again" /\ (op[c].changed \/ op[c].first < generation)
    \/ op[c].at \notin {"external", "sequence", "before", "again"} /\ op[c].changed

\* A closing sample counts at least what it expects.
Counts(c) ==
    Stage(c) \in {"match", "hit"} /\ op[c].at = "sequence"
        => op[c].expected <= op[c].sum + Rest(op[c].next)

Good(c) ==
    /\ Shape(c)
    /\ Behind(c)
    /\ Coherent(c)
    /\ Counts(c)
    /\ Late(c) => Caught(c)

\* The inductive invariant.
IInv == Types /\ \A c \in CPU : Good(c)

-----------------------------------------------------------------------------
(* Records.                                                                *)

LEMMA NewOpDoes ==
    /\ NewOp \in Ops
    /\ NewOp.at = "external" /\ NewOp.closing = FALSE /\ NewOp.then = "synced"
<1>1. (CHOOSE r \in Reg : TRUE) \in Reg
  BY TableAssumption, Zenon
<1>2. 0 \in CPU /\ 0 \in Nat /\ [b \in Byte |-> 0] \in [Byte -> Nat]
  BY CpuFacts
<1>3. {} \in SUBSET Byte
  OBVIOUS
<1> QED
  BY <1>1, <1>2, <1>3, Zenon DEF NewOp, Ops, Samplers, Opening, Closing, Kind

\* A sample keeps what its instruction is about.
LEMMA SamplingDoes ==
    ASSUME NEW o \in Ops, NEW closing \in BOOLEAN, NEW then \in Opening \union Closing
    PROVE  LET s == Sampling(o, closing, then) IN
           /\ s \in Ops
           /\ s.at = "external" /\ s.closing = closing /\ s.then = then
           /\ s.sum = 0 /\ s.changed = FALSE
           /\ s.expected = o.expected /\ s.reg = o.reg /\ s.access = o.access
           /\ s.floor = o.floor /\ s.kind = o.kind
<1> DEFINE s == Sampling(o, closing, then)
<1>0. 0 \in Nat
  OBVIOUS
<1>1. s \in Ops
  BY <1>0, Zenon DEF Sampling, Ops, Samplers
<1>2. /\ s.at = "external" /\ s.closing = closing /\ s.then = then
      /\ s.sum = 0 /\ s.changed = FALSE
      /\ s.expected = o.expected /\ s.reg = o.reg /\ s.access = o.access
      /\ s.floor = o.floor /\ s.kind = o.kind
  BY Zenon DEF Sampling, Ops
<1> QED
  BY <1>1, <1>2

LEMMA OpsFields ==
    ASSUME NEW o \in Ops
    PROVE  /\ o.sum \in Nat /\ o.first \in Nat /\ o.next \in CPU /\ o.expected \in Nat
           /\ o.closing \in BOOLEAN /\ o.changed \in BOOLEAN
           /\ o.kind \in Kind /\ o.reg \in Reg /\ o.access \in SUBSET Byte
           /\ o.floor \in [Byte -> Nat] /\ o.at # "idle"
           /\ o.then \in Opening \union Closing \union {"synced"}
           /\ o.at \in Samplers \union Opening \union Closing \union {"write", "finish"}
<1>1. /\ o.sum \in Nat /\ o.first \in Nat /\ o.next \in CPU /\ o.expected \in Nat
      /\ o.closing \in BOOLEAN /\ o.changed \in BOOLEAN
      /\ o.kind \in Kind /\ o.reg \in Reg /\ o.access \in SUBSET Byte
      /\ o.floor \in [Byte -> Nat]
      /\ o.then \in Opening \union Closing \union {"synced"}
      /\ o.at \in Samplers \union Opening \union Closing \union {"write", "finish"}
  BY Zenon DEF Ops
<1>2. o.at # "idle"
  BY <1>1 DEF Samplers, Opening, Closing
<1> QED
  BY <1>1, <1>2, Zenon

\* An instruction that is in progress has all its fields.
LEMMA Running ==
    ASSUME Types, NEW c \in CPU, op[c].at # "idle"
    PROVE  op[c] \in Ops
<1>1. op[c] \in Ops \union {Idle}
  BY DEF Types
<1>2. Idle.at = "idle"
  BY DEF Idle
<1> QED
  BY <1>1, <1>2, Zenon

LEMMA TotalFacts ==
    ASSUME sequence \in [CPU -> Nat], generation \in Nat
    PROVE  /\ Total \in Nat
           /\ Total = generation + Rest(0)
           /\ Rest(Count) = 0
           /\ \A n \in CPU : Rest(n) = sequence[n] + Rest(n + 1)
           /\ \A n \in 0 .. Count : Rest(n) \in Int
<1>1. SumTo(sequence)[Count] \in Nat /\ RestOf(sequence, 0) = SumTo(sequence)[Count]
  BY RestFacts, Zenon
<1>2. /\ RestOf(sequence, Count) = 0
      /\ \A n \in CPU : RestOf(sequence, n) = sequence[n] + RestOf(sequence, n + 1)
      /\ \A n \in 0 .. Count : RestOf(sequence, n) \in Int
  BY RestFacts, Zenon
<1> QED
  BY <1>1, <1>2 DEF Total, Rest

LEMMA NextTotalFacts ==
    ASSUME sequence' \in [CPU -> Nat], generation' \in Nat
    PROVE  /\ Total' \in Nat
           /\ Total' = generation' + Rest(0)'
           /\ \A n \in 0 .. Count : Rest(n)' \in Int
<1>1. SumTo(sequence')[Count] \in Nat /\ RestOf(sequence', 0) = SumTo(sequence')[Count]
  BY RestFacts, Zenon
<1>2. \A n \in 0 .. Count : RestOf(sequence', n) \in Int
  BY RestFacts, Zenon
<1> QED
  BY <1>1, <1>2 DEF Total, Rest

-----------------------------------------------------------------------------
(* Steps of somebody else.                                                 *)

\* What a step of another processor or of a device may do to processor d:
\* nothing to its own state, and it never stores without a trace.
Foreign(d) ==
    /\ op'[d] = op[d] /\ alat'[d] = alat[d] /\ synced'[d] = synced[d]
    /\ loaded'[d] = loaded[d] /\ sequence'[d] = sequence[d]
    /\ \A b \in Byte : ram[b] <= ram'[b]
    /\ generation <= generation'
    /\ \A n \in 0 .. Count : Rest(n) <= Rest(n)' /\ Rest(n)' - Rest(n) <= Total' - Total
    /\ ram' = ram \/ Dirty(d)' \/ Total < Total'
    /\ Dirty(d) => Dirty(d)' \/ Total < Total'
    /\ \A e \in CPU : Written(e) => Written(e)' \/ \A n \in 0 .. e : Rest(n) < Rest(n)'
    /\ (\E v \in External : device[v] = "dirty")
           => (\E v \in External : device'[v] = "dirty") \/ generation < generation'

LEMMA ForeignShape ==
    ASSUME Types, Types', NEW d \in CPU, Foreign(d), Shape(d)
    PROVE  Shape(d)' /\ Stage(d)' = Stage(d) /\ Own(d)' = Own(d)
<1>1. /\ op'[d] = op[d] /\ alat'[d] = alat[d] /\ synced'[d] = synced[d]
      /\ sequence'[d] = sequence[d]
  BY Zenon DEF Foreign
<1>2. Stage(d)' = Stage(d) /\ Entries(d)' = Entries(d)
  BY <1>1, Zenon DEF Stage, Entries
<1>3. Own(d)' = Own(d)
  BY <1>2, Zenon DEF Own
<1>4. Stage(d) \in Checking => \A b \in Byte : op[d].floor[b] <= ram'[b]
  <2> SUFFICES ASSUME Stage(d) \in Checking, NEW b \in Byte PROVE op[d].floor[b] <= ram'[b]
    OBVIOUS
  <2>1. op[d].floor[b] <= ram[b] /\ ram[b] <= ram'[b]
    BY Zenon DEF Shape, Foreign
  <2>2. ram[b] \in Nat /\ ram'[b] \in Nat
    BY DEF Types
  <2>3. op[d] \in Ops
    <3>1. op[d].at # "idle"
      BY DEF Stage, Checking, Samplers
    <3> QED
      BY <3>1, Running, Zenon
  <2>4. op[d].floor[b] \in Nat
    BY <2>3, OpsFields
  <2> QED
    BY <2>1, <2>2, <2>4
<1>5. Shape(d)'
  BY <1>1, <1>2, <1>4, Zenon DEF Shape
<1> QED
  BY <1>2, <1>3, <1>5

LEMMA OwnType == \A c : Own(c) \in 0 .. 2
BY DEF Own

LEMMA ForeignGood ==
    ASSUME Types, Types', NEW d \in CPU, Foreign(d), Good(d)
    PROVE  Good(d)'
<1>1. Shape(d)' /\ Stage(d)' = Stage(d) /\ Own(d)' = Own(d)
  BY ForeignShape, Zenon DEF Good
<1>2. /\ op'[d] = op[d] /\ alat'[d] = alat[d] /\ synced'[d] = synced[d]
      /\ loaded'[d] = loaded[d]
  BY Zenon DEF Foreign
<1>3. Total \in Nat /\ Total' \in Nat /\ generation \in Nat /\ generation' \in Nat
      /\ synced[d] \in Nat
  <2>1. /\ sequence \in [CPU -> Nat] /\ generation \in Nat
        /\ sequence' \in [CPU -> Nat] /\ generation' \in Nat /\ synced[d] \in Nat
    BY DEF Types
  <2> QED
    BY <2>1, TotalFacts, NextTotalFacts, Zenon
<1>4. /\ \A n \in 0 .. Count : /\ Rest(n) <= Rest(n)'
                               /\ Rest(n)' - Rest(n) <= Total' - Total
                               /\ Rest(n) \in Int /\ Rest(n)' \in Int
      /\ Total <= Total'
  <2>1. /\ \A n \in 0 .. Count : Rest(n) \in Int
        /\ \A n \in 0 .. Count : Rest(n)' \in Int
        /\ Total = generation + Rest(0)
        /\ Total' = generation' + Rest(0)'
    BY TotalFacts, NextTotalFacts, Zenon DEF Types
  <2>2. \A n \in 0 .. Count : Rest(n) <= Rest(n)' /\ Rest(n)' - Rest(n) <= Total' - Total
    BY Zenon DEF Foreign
  <2>3. generation <= generation' /\ 0 \in 0 .. Count
    BY CpuFacts DEF Foreign
  <2>4. Rest(0) <= Rest(0)' /\ Rest(0) \in Int /\ Rest(0)' \in Int
    BY <2>1, <2>2, <2>3, Zenon
  <2>5. Total <= Total'
    BY <1>3, <2>1, <2>3, <2>4
  <2> QED
    BY <2>1, <2>2, <2>5, Zenon
<1>5. ASSUME op[d].at \in Samplers \union Opening
      PROVE  op[d].sum \in Nat /\ op[d].first \in Nat /\ op[d].expected \in Nat
             /\ op[d].next \in 0 .. Count /\ op[d].next \in 0 .. Last
  <2>1. op[d] \in Ops
    <3>1. op[d].at # "idle"
      BY <1>5 DEF Samplers, Opening
    <3> QED
      BY <3>1, Running, Zenon
  <2>2. op[d].sum \in Nat /\ op[d].first \in Nat /\ op[d].expected \in Nat /\ op[d].next \in CPU
    BY <2>1, OpsFields, Zenon
  <2> QED
    BY <2>2, CpuFacts
<1>6. Behind(d)'
  <2>1. synced'[d] + Own(d)' <= Total'
    <3>1. synced[d] + Own(d) <= Total
      BY DEF Good, Behind
    <3> QED
      BY <1>1, <1>2, <1>3, <1>4, <3>1, OwnType
  <2>2. op[d].at = "sequence" => op[d].sum + Rest(op[d].next)' <= Total'
    <3> SUFFICES ASSUME op[d].at = "sequence" PROVE op[d].sum + Rest(op[d].next)' <= Total'
      OBVIOUS
    <3>0. op[d].sum \in Nat /\ op[d].next \in 0 .. Count
      BY <1>5 DEF Samplers
    <3>2. PICK n \in 0 .. Count : n = op[d].next
      BY <3>0, Zenon
    <3>1. op[d].sum + Rest(n) <= Total
      BY <3>2 DEF Good, Behind
    <3>3. Rest(n) \in Int /\ Rest(n)' \in Int /\ Rest(n)' - Rest(n) <= Total' - Total
      BY <1>4, <3>2, Zenon
    <3>4. op[d].sum + Rest(n)' <= Total'
      BY <1>3, <3>0, <3>1, <3>3
    <3> QED
      BY <1>2, <3>2, <3>4
  <2>3. op[d].at \in Opening => op[d].sum <= Total'
    <3>1. op[d].at \in Opening => op[d].sum <= Total /\ op[d].sum \in Nat
      BY <1>5, Zenon DEF Good, Behind
    <3> QED
      BY <1>3, <1>4, <3>1
  <2>4. op[d].at \in {"sequence", "before", "again"} => op[d].first <= generation'
    <3>1. op[d].at \in {"sequence", "before", "again"} =>
             op[d].first <= generation /\ op[d].first \in Nat
      BY <1>5, Zenon DEF Good, Behind, Samplers
    <3>2. generation <= generation'
      BY Zenon DEF Foreign
    <3> QED
      BY <1>3, <3>1, <3>2
  <2> QED
    BY <1>2, <2>1, <2>2, <2>3, <2>4 DEF Behind
<1>7. Coherent(d)'
  <2>1. CASE Total < Total'
    <3>1. synced[d] + Own(d) <= Total
      BY DEF Good, Behind
    <3>2. synced'[d] + Own(d)' < Total'
      BY <1>1, <1>2, <1>3, <2>1, <3>1, OwnType
    <3> QED
      BY <3>2, Zenon DEF Coherent
  <2>2. CASE ~(Total < Total')
    <3>1. Total' = Total
      BY <1>3, <1>4, <2>2
    <3>2. CASE Dirty(d) \/ Dirty(d)'
      BY <2>2, <3>2, Zenon DEF Foreign, Coherent
    <3>3. CASE ~Dirty(d)' /\ ~Dirty(d)
      <4>1. ram' = ram
        BY <2>2, <3>3, Zenon DEF Foreign
      <4>2. Storing(d)' = Storing(d)
        BY <1>1, <1>2, Zenon DEF Storing
      <4>3. \A r \in Reg : Covered(d, r)' = Covered(d, r)
        BY <1>1, <1>2, Zenon DEF Covered
      <4>4. Current(d) => Current(d)'
        BY <1>2, <4>1, <4>2, <4>3, Zenon DEF Current
      <4>5. Current(d) \/ synced[d] + Own(d) < Total
        BY <3>3, Zenon DEF Good, Coherent
      <4> QED
        BY <1>1, <1>2, <3>1, <4>4, <4>5, Zenon DEF Coherent
    <3> QED
      BY <3>2, <3>3, Zenon
  <2> QED
    BY <2>1, <2>2, Zenon
<1>8. Counts(d)'
  <2> SUFFICES ASSUME Stage(d) \in {"match", "hit"}, op[d].at = "sequence"
               PROVE  op[d].expected <= op[d].sum + Rest(op[d].next)'
    BY <1>1, <1>2, Zenon DEF Counts
  <2>0. op[d].sum \in Nat /\ op[d].expected \in Nat /\ op[d].next \in 0 .. Count
    BY <1>5 DEF Samplers
  <2>2. PICK n \in 0 .. Count : n = op[d].next
    BY <2>0, Zenon
  <2>1. op[d].expected <= op[d].sum + Rest(n)
    BY <2>2 DEF Good, Counts
  <2>3. Rest(n) \in Int /\ Rest(n)' \in Int /\ Rest(n) <= Rest(n)'
    BY <1>4, <2>2, Zenon
  <2>4. op[d].expected <= op[d].sum + Rest(n)'
    BY <2>0, <2>1, <2>3
  <2> QED
    BY <1>2, <2>2, <2>4
<1>9. Late(d)' => Caught(d)'
  <2>1. SUFFICES ASSUME Late(d)' PROVE Caught(d)'
    OBVIOUS
  <2>2. Late(d)
    BY <1>1, <1>2, <2>1, Zenon DEF Late
  <2>3. Caught(d)
    BY <2>2, Zenon DEF Good
  <2>4. ASSUME (\E v \in External : device[v] = "dirty") \/ op[d].first < generation,
               op[d].at \in {"sequence", "before", "again"}
        PROVE  (\E v \in External : device'[v] = "dirty") \/ op[d].first < generation'
    <3>1. op[d].first <= generation
      BY <2>4, Zenon DEF Good, Behind
    <3>2. op[d].first \in Nat
      BY <1>5, <2>4 DEF Samplers
    <3>3. generation <= generation'
      BY Zenon DEF Foreign
    <3>4. CASE op[d].first < generation \/ generation < generation'
      BY <1>3, <3>1, <3>2, <3>3, <3>4
    <3>5. CASE \E v \in External : device[v] = "dirty"
      <4>1. (\E v \in External : device'[v] = "dirty") \/ generation < generation'
        BY <3>5, Zenon DEF Foreign
      <4> QED
        BY <3>4, <4>1, Zenon
    <3> QED
      BY <2>4, <3>4, <3>5, Zenon
  <2>5. CASE op[d].at = "sequence"
    <3>0. PICK n \in 0 .. Count : n = op[d].next
      BY <1>5, <2>5 DEF Samplers
    <3>1. op[d].sum \in Nat /\ op[d].expected \in Nat /\ n \in 0 .. Last
      BY <1>5, <2>5, <3>0 DEF Samplers
    <3>2. Rest(n) \in Int /\ Rest(n)' \in Int /\ Rest(n) <= Rest(n)'
      BY <1>4, <3>1, Zenon
    <3>3. op[d].expected <= op[d].sum + Rest(n)
      BY <2>2, <2>5, <3>0, Zenon DEF Good, Counts, Late
    <3>4. \/ op[d].changed
          \/ op[d].expected < op[d].sum + Rest(n)
          \/ \E e \in n .. Last : Written(e)
          \/ (\E v \in External : device[v] = "dirty") \/ op[d].first < generation
      BY <2>3, <2>5, <3>0 DEF Caught
    <3>5. CASE op[d].expected < op[d].sum + Rest(n) \/ Rest(n) < Rest(n)'
      <4>1. op[d].expected < op[d].sum + Rest(n)'
        BY <3>1, <3>2, <3>3, <3>5
      <4> QED
        BY <1>2, <2>5, <3>0, <4>1, Zenon DEF Caught
    <3>6. CASE \E e \in n .. Last : Written(e)
      <4>1. PICK e \in n .. Last : Written(e)
        BY <3>6, Zenon
      <4>2. e \in CPU /\ n \in 0 .. e
        BY <3>1, CpuFacts
      <4>3. CASE Written(e)'
        BY <1>2, <2>5, <3>0, <4>3, Zenon DEF Caught
      <4>4. CASE Rest(n) < Rest(n)'
        BY <3>5, <4>4, Zenon
      <4> QED
        BY <4>1, <4>2, <4>3, <4>4, Zenon DEF Foreign
    <3>7. CASE op[d].changed
      BY <1>2, <2>5, <3>7, Zenon DEF Caught
    <3>8. CASE (\E v \in External : device[v] = "dirty") \/ op[d].first < generation
      <4>1. (\E v \in External : device'[v] = "dirty") \/ op[d].first < generation'
        BY <2>4, <2>5, <3>8, Zenon
      <4> QED
        BY <1>2, <2>5, <4>1, Zenon DEF Caught
    <3> QED
      BY <3>4, <3>5, <3>6, <3>7, <3>8, Zenon
  <2>6. CASE op[d].at = "before"
    <3>1. op[d].changed \/ (\E v \in External : device[v] = "dirty") \/ op[d].first < generation
      BY <2>3, <2>6 DEF Caught
    <3>2. op[d].changed \/ (\E v \in External : device'[v] = "dirty")
             \/ op[d].first < generation'
      BY <2>4, <2>6, <3>1, Zenon
    <3> QED
      BY <1>2, <2>6, <3>2, Zenon DEF Caught
  <2>7. CASE op[d].at = "again"
    <3>1. op[d].changed \/ op[d].first < generation
      BY <2>3, <2>7 DEF Caught
    <3>2. op[d].first < generation => op[d].first < generation'
      <4>1. op[d].first \in Nat /\ generation <= generation'
        BY <1>5, <2>7 DEF Samplers, Foreign
      <4> QED
        BY <1>3, <4>1
    <3> QED
      BY <1>2, <2>7, <3>1, <3>2, Zenon DEF Caught
  <2>8. CASE op[d].at \notin {"sequence", "before", "again"}
    BY <1>2, <2>3, <2>8, Zenon DEF Caught
  <2> QED
    BY <2>5, <2>6, <2>7, <2>8, Zenon
<1> QED
  BY <1>1, <1>6, <1>7, <1>8, <1>9, Zenon DEF Good

-----------------------------------------------------------------------------
(* Steps of a processor that touch nothing shared.                         *)

Local(c) ==
    /\ UNCHANGED shared
    /\ \A d \in CPU \ {c} : /\ op'[d] = op[d] /\ alat'[d] = alat[d]
                            /\ synced'[d] = synced[d] /\ loaded'[d] = loaded[d]

LEMMA LocalSame ==
    ASSUME NEW c \in CPU, Local(c)
    PROVE  /\ Total' = Total /\ Dirty(c)' = Dirty(c) /\ ram' = ram
           /\ \A n : Rest(n)' = Rest(n)
           /\ sequence' = sequence /\ generation' = generation
<1>1. ram' = ram /\ sequence' = sequence /\ generation' = generation /\ device' = device
  BY DEF Local, shared
<1>2. Total' = Total /\ \A n : Rest(n)' = Rest(n)
  BY <1>1 DEF Total, Rest
<1>3. \A d \in CPU \ {c} : Written(d)' = Written(d)
  BY Zenon DEF Local, Written
<1>4. Dirty(c)' = Dirty(c)
  BY <1>1, <1>3 DEF Dirty
<1> QED
  BY <1>1, <1>2, <1>4

LEMMA LocalForeign ==
    ASSUME Types, NEW c \in CPU, Local(c), op[c].at # "finish", NEW d \in CPU \ {c}
    PROVE  Foreign(d)
<1>1. ram' = ram /\ sequence' = sequence /\ generation' = generation /\ device' = device
  BY DEF Local, shared
<1>2. Total' = Total /\ \A n : Rest(n)' = Rest(n)
  BY LocalSame
<1>3. \A e \in CPU : Written(e) => Written(e)'
  BY Zenon DEF Local, Written
<1>4. Dirty(d) => Dirty(d)'
  BY <1>1, <1>3, Zenon DEF Dirty
<1>5. Total \in Nat /\ \A n \in 0 .. Count : Rest(n) \in Int
  BY TotalFacts DEF Types
<1>6. /\ op'[d] = op[d] /\ alat'[d] = alat[d] /\ synced'[d] = synced[d]
      /\ loaded'[d] = loaded[d]
  BY Zenon DEF Local
<1>7. \A b \in Byte : ram[b] <= ram'[b]
  BY <1>1 DEF Types
<1>8. \A n \in 0 .. Count : Rest(n) <= Rest(n)' /\ Rest(n)' - Rest(n) <= Total' - Total
  BY <1>2, <1>5
<1>9. generation <= generation'
  BY <1>1 DEF Types
<1> QED
  BY <1>1, <1>3, <1>4, <1>6, <1>7, <1>8, <1>9, Zenon DEF Foreign

LEMMA LocalPreserves ==
    ASSUME IInv, NEW c \in CPU, Local(c), op[c].at # "finish", Types', Good(c)'
    PROVE  IInv'
<1>1. ASSUME NEW d \in CPU \ {c} PROVE Good(d)'
  <2>1. Foreign(d)
    BY LocalForeign, Zenon DEF IInv
  <2> QED
    BY <2>1, ForeignGood, Zenon DEF IInv
<1> QED
  BY <1>1, Zenon DEF IInv

LEMMA LocalTypes ==
    ASSUME Types, NEW c \in CPU, UNCHANGED shared,
           NEW o \in Ops \union {Idle}, Goto(c, o),
           alat' \in [CPU -> [Reg -> LoadAccess \union {{}}]],
           synced' \in [CPU -> Nat],
           loaded' \in [CPU -> [Reg -> [Byte -> Nat]]]
    PROVE  Types' /\ op'[c] = o /\ \A d \in CPU \ {c} : op'[d] = op[d]
<1>1. op' \in [CPU -> Ops \union {Idle}] /\ op'[c] = o /\ \A d \in CPU \ {c} : op'[d] = op[d]
  BY DEF Types, Goto
<1>2. /\ ram' = ram /\ sequence' = sequence /\ generation' = generation
      /\ writers' = writers /\ device' = device
  BY DEF shared
<1> QED
  BY <1>1, <1>2 DEF Types

-----------------------------------------------------------------------------
(* Between two samples.                                                    *)

\* A processor that is between two instructions or about to sample.
Settled(c) ==
    /\ op[c].at \in {"external", "idle"}
    /\ op[c].at = "external" => (op[c].closing <=> Stage(c) \in Closing) /\ Stage(c) # "synced"
    /\ Stage(c) \in {"set", "published", "match", "hit"} => op[c].expected = synced[c]
    /\ Stage(c) = "stored" => op[c].expected = synced[c] + 2
    /\ Stage(c) = "resampled" => Entries(c) = {}
    /\ Stage(c) \in {"load", "set"} => op[c].access \in LoadAccess
    /\ Stage(c) \in Checking => \A b \in Byte : op[c].floor[b] <= ram[b]
    /\ ~Odd(sequence[c])
    /\ Cardinality(Entries(c)) <= Slots
    /\ synced[c] + Own(c) <= Total
    /\ Coherent(c)

LEMMA SettledGood ==
    ASSUME NEW c \in CPU, Types', Settled(c)'
    PROVE  Good(c)'
<1>1. op'[c].at \in {"external", "idle"}
  BY DEF Settled
<1>2. Stage(c)' \notin {"write", "finish"}
  <2>1. CASE op'[c].at = "idle"
    BY <2>1 DEF Stage, Samplers
  <2>2. CASE op'[c].at = "external"
    <3>1. op'[c] \in Ops
      BY <2>2 DEF Types, Idle
    <3>2. op'[c].then \in Opening \union Closing \union {"synced"}
      BY <3>1, OpsFields, Zenon
    <3> QED
      BY <2>2, <3>2 DEF Stage, Samplers, Opening, Closing
  <2> QED
    BY <1>1, <2>1, <2>2
<1>3. Shape(c)'
  BY <1>1, <1>2 DEF Settled, Shape, Samplers
<1>4. Behind(c)'
  BY <1>1 DEF Settled, Behind, Opening
<1>5. Counts(c)'
  BY <1>1 DEF Counts
<1>6. Late(c)' => Caught(c)'
  <2>1. CASE op'[c].at = "idle"
    <3>1. Stage(c)' = "idle"
      BY <2>1 DEF Stage, Samplers
    <3> QED
      BY <3>1 DEF Late
  <2>2. CASE op'[c].at = "external"
    BY <2>2 DEF Caught
  <2> QED
    BY <1>1, <2>1, <2>2
<1> QED
  BY <1>3, <1>4, <1>5, <1>6, ZenonT(60) DEF Good, Settled

LEMMA IdleGood ==
    ASSUME NEW c \in CPU, Types', op'[c] = Idle, ~Odd(sequence'[c]),
           Cardinality(Entries(c)') <= Slots, synced'[c] <= Total', Coherent(c)'
    PROVE  Good(c)'
<1>1. op'[c].at = "idle"
  BY DEF Idle
<1>2. Stage(c)' = "idle"
  BY <1>1 DEF Stage, Samplers
<1>3. Own(c)' = 0
  BY <1>2 DEF Own
<1>4. synced'[c] + 0 = synced'[c]
  BY DEF Types
<1>5. Settled(c)'
  BY <1>1, <1>2, <1>3, <1>4 DEF Settled, Checking
<1> QED
  BY <1>5, SettledGood

\* A table that is cleared is coherent with anything.
LEMMA EmptyCurrent ==
    ASSUME NEW c \in CPU, Stage(c)' # "set", \A r \in Reg : alat'[c][r] = {}
    PROVE  Entries(c)' = {} /\ Cardinality(Entries(c)') <= Slots /\ Current(c)' /\ Coherent(c)'
<1>1. Entries(c)' = {}
  BY DEF Entries
<1>2. Cardinality(Entries(c)') <= Slots
  BY <1>1, FS_EmptySet, TableAssumption
<1>3. Current(c)'
  BY DEF Current, Covered
<1> QED
  BY <1>1, <1>2, <1>3 DEF Coherent

\* A table that loses entries stays coherent and within its size.
LEMMA ShrinkEntries ==
    ASSUME NEW c \in CPU, Cardinality(Entries(c)) <= Slots,
           \A r \in Reg : alat[c][r] = {} => alat'[c][r] = {}
    PROVE  Cardinality(Entries(c)') <= Slots
<1>1. Entries(c)' \in SUBSET Entries(c)
  BY DEF Entries
<1>2. IsFiniteSet(Entries(c))
  <2>1. Entries(c) \in SUBSET Reg
    BY DEF Entries
  <2> QED
    BY <2>1, FS_Subset, TableAssumption, Zenon
<1>3. Cardinality(Entries(c)') <= Cardinality(Entries(c)) /\ IsFiniteSet(Entries(c)')
  BY <1>1, <1>2, FS_Subset, Zenon
<1>4. Cardinality(Entries(c)) \in Nat /\ Cardinality(Entries(c)') \in Nat
  BY <1>2, <1>3, FS_CardinalityType, Zenon
<1> QED
  BY <1>3, <1>4, TableAssumption

LEMMA ShrinkCoherent ==
    ASSUME NEW c \in CPU, Coherent(c), ram' = ram, loaded'[c] = loaded[c],
           \A r \in Reg : Covered(c, r)' \subseteq Covered(c, r),
           Storing(c) => Storing(c)' /\ op'[c].access = op[c].access,
           synced[c] + Own(c) < Total => synced'[c] + Own(c)' < Total',
           Dirty(c) => Dirty(c)'
    PROVE  Coherent(c)'
<1>1. CASE Current(c)
  <2>1. Current(c)'
    BY <1>1, Zenon DEF Current
  <2> QED
    BY <2>1 DEF Coherent
<1> QED
  BY <1>1 DEF Coherent

\* An even sequence: no scope of the processor's own is open.
LEMMA NoScope ==
    ASSUME NEW c \in CPU, Good(c), op[c].at \notin {"write", "finish"}
    PROVE  ~Odd(sequence[c])
BY DEF Good, Shape

\* An entry more fits below the bound.
LEMMA OneMore ==
    ASSUME NEW n \in Nat, NEW m \in Nat, n < m
    PROVE  n + 1 \in Nat /\ n + 1 <= m
OBVIOUS

\* The part of Good that a step from place to place relies on.
LEMMA GoodFacts ==
    ASSUME IInv, NEW c \in CPU
    PROVE  /\ Types /\ Good(c) /\ Shape(c) /\ Behind(c) /\ Coherent(c)
           /\ Cardinality(Entries(c)) <= Slots
           /\ synced[c] + Own(c) <= Total /\ synced[c] \in Nat /\ Total \in Nat
           /\ synced[c] <= Total
<1>1. Types /\ Good(c)
  BY Zenon DEF IInv
<1>2. /\ Shape(c) /\ Behind(c) /\ Coherent(c) /\ Cardinality(Entries(c)) <= Slots
      /\ synced[c] + Own(c) <= Total
  BY <1>1, Zenon DEF Good, Shape, Behind
<1>3. synced[c] \in Nat /\ sequence \in [CPU -> Nat] /\ generation \in Nat
  BY <1>1 DEF Types
<1>4. Total \in Nat
  BY <1>3, TotalFacts
<1> QED
  BY <1>1, <1>2, <1>3, <1>4, OwnType

LEMMA IdleFacts ==
    ASSUME NEW c \in CPU, op[c] = Idle
    PROVE  op[c].at = "idle" /\ Stage(c) = "idle" /\ Own(c) = 0 /\ ~Storing(c)
<1>1. op[c].at = "idle"
  BY DEF Idle
<1>2. Stage(c) = "idle"
  BY <1>1 DEF Stage, Samplers
<1> QED
  BY <1>1, <1>2 DEF Own, Storing

LEMMA IdleNext ==
    ASSUME NEW c \in CPU, op'[c] = Idle
    PROVE  /\ op'[c].at = "idle" /\ Stage(c)' = "idle" /\ Own(c)' = 0
           /\ \A r \in Reg : Covered(c, r)' = alat'[c][r]
<1>1. op'[c].at = "idle"
  BY DEF Idle
<1>2. Stage(c)' = "idle"
  BY <1>1 DEF Stage, Samplers
<1> QED
  BY <1>1, <1>2 DEF Own, Covered

\* Where an instruction that is not sampling is.
LEMMA StageIs ==
    ASSUME NEW c \in CPU, op[c].at \notin Samplers
    PROVE  Stage(c) = op[c].at
BY DEF Stage

LEMMA DiscardGood ==
    ASSUME NEW c \in CPU, NEW o \in Ops, op'[c] = Sampling(o, FALSE, "resampled"),
           \A r \in Reg : alat'[c][r] = {}, Types', ~Odd(sequence'[c]), synced'[c] <= Total'
    PROVE  Good(c)'
<1>1. "resampled" \in Opening \union Closing /\ FALSE \in BOOLEAN
  BY DEF Opening
<1>2. op'[c].at = "external" /\ op'[c].closing = FALSE /\ op'[c].then = "resampled"
  <2> DEFINE s == Sampling(o, FALSE, "resampled")
  <2>1. s.at = "external" /\ s.closing = FALSE /\ s.then = "resampled"
    BY <1>1, SamplingDoes, ZenonT(60)
  <2>2. op'[c] = s
    OBVIOUS
  <2> HIDE DEF s
  <2> QED
    BY <2>1, <2>2, Zenon
<1>3. Stage(c)' = "resampled"
  BY <1>2, Zenon DEF Stage, Samplers
<1>4. Own(c)' = 0
  BY <1>3 DEF Own
<1>5. Entries(c)' = {} /\ Cardinality(Entries(c)') <= Slots /\ Coherent(c)'
  BY <1>3, EmptyCurrent
<1>6. synced'[c] + 0 = synced'[c]
  BY DEF Types
<1>7. Settled(c)'
  BY <1>2, <1>3, <1>4, <1>5, <1>6, Zenon DEF Settled, Closing, Checking
<1> QED
  BY <1>7, SettledGood

LEMMA ClearTypes ==
    ASSUME Types, NEW c \in CPU, alat' = [alat EXCEPT ![c] = [r \in Reg |-> {}]]
    PROVE  /\ alat' \in [CPU -> [Reg -> LoadAccess \union {{}}]]
           /\ \A r \in Reg : alat'[c][r] = {}
           /\ \A d \in CPU \ {c} : alat'[d] = alat[d]
BY DEF Types

LEMMA InvalaPreserves ==
    ASSUME IInv, NEW c \in CPU, Invala(c)
    PROVE  IInv'
<1>1. Types /\ Good(c) /\ synced[c] <= Total /\ op[c].at = "idle"
  BY GoodFacts, IdleFacts DEF Invala
<1> DEFINE s == Sampling(NewOp, FALSE, "resampled")
<1>2. s \in Ops \union {Idle}
  BY NewOpDoes, SamplingDoes, Zenon DEF Opening
<1>3. UNCHANGED shared /\ synced' = synced /\ loaded' = loaded /\ Goto(c, s)
      /\ alat' = [alat EXCEPT ![c] = [r \in Reg |-> {}]]
  BY Zenon DEF Invala, Discard
<1>4. /\ alat' \in [CPU -> [Reg -> LoadAccess \union {{}}]]
      /\ \A r \in Reg : alat'[c][r] = {}
      /\ \A d \in CPU \ {c} : alat'[d] = alat[d]
  BY <1>1, <1>3, ClearTypes, Zenon
<1>5. Types' /\ op'[c] = s /\ \A d \in CPU \ {c} : op'[d] = op[d]
  <2> HIDE DEF s
  <2>1. synced' \in [CPU -> Nat] /\ loaded' \in [CPU -> [Reg -> [Byte -> Nat]]]
    BY <1>1, <1>3 DEF Types
  <2> QED
    BY <1>1, <1>2, <1>3, <1>4, <2>1, LocalTypes, Zenon
<1>6. Local(c)
  BY <1>3, <1>4, <1>5 DEF Local
<1>7. ~Odd(sequence'[c]) /\ synced'[c] <= Total'
  BY <1>1, <1>3, <1>6, NoScope, LocalSame
<1>8. Good(c)'
  BY <1>4, <1>5, <1>7, NewOpDoes, DiscardGood, Zenon
<1> QED
  BY <1>1, <1>5, <1>6, <1>8, LocalPreserves

LEMMA WindowChangedPreserves ==
    ASSUME IInv, NEW c \in CPU, WindowChanged(c)
    PROVE  IInv'
<1>0. op[c].at \in {"set", "published", "match", "hit", "stored"}
  BY DEF WindowChanged
<1>1. Types /\ Good(c) /\ synced[c] <= Total /\ op[c] \in Ops
  BY <1>0, GoodFacts, Running
<1> DEFINE s == Sampling(op[c], FALSE, "resampled")
<1>2. s \in Ops \union {Idle}
  BY <1>1, SamplingDoes, Zenon DEF Opening
<1>3. UNCHANGED shared /\ synced' = synced /\ loaded' = loaded /\ Goto(c, s)
      /\ alat' = [alat EXCEPT ![c] = [r \in Reg |-> {}]]
  BY Zenon DEF WindowChanged, Discard
<1>4. /\ alat' \in [CPU -> [Reg -> LoadAccess \union {{}}]]
      /\ \A r \in Reg : alat'[c][r] = {}
      /\ \A d \in CPU \ {c} : alat'[d] = alat[d]
  BY <1>1, <1>3, ClearTypes, Zenon
<1>5. Types' /\ op'[c] = s /\ \A d \in CPU \ {c} : op'[d] = op[d]
  <2> HIDE DEF s
  <2>1. synced' \in [CPU -> Nat] /\ loaded' \in [CPU -> [Reg -> [Byte -> Nat]]]
    BY <1>1, <1>3 DEF Types
  <2> QED
    BY <1>1, <1>2, <1>3, <1>4, <2>1, LocalTypes, Zenon
<1>6. Local(c)
  BY <1>3, <1>4, <1>5, Zenon DEF Local
<1>7. ~Odd(sequence'[c]) /\ synced'[c] <= Total'
  BY <1>0, <1>1, <1>3, <1>6, NoScope, LocalSame, Zenon
<1>8. Good(c)'
  BY <1>1, <1>4, <1>5, <1>7, DiscardGood, Zenon
<1> QED
  BY <1>0, <1>5, <1>6, <1>8, LocalPreserves

LEMMA ResampledPreserves ==
    ASSUME IInv, NEW c \in CPU, Resampled(c)
    PROVE  IInv'
<1>0. op[c].at = "resampled"
  BY DEF Resampled
<1>1. Types /\ Good(c) /\ Shape(c) /\ Behind(c) /\ op[c] \in Ops
  BY <1>0, GoodFacts, Running
<1>2. op[c].sum \in Nat /\ op[c].sum <= Total
  BY <1>0, <1>1, OpsFields DEF Behind, Opening
<1>3. /\ UNCHANGED shared /\ alat' = alat /\ loaded' = loaded /\ Goto(c, Idle)
      /\ synced' = [synced EXCEPT ![c] = op[c].sum]
  BY DEF Resampled
<1>4. synced' \in [CPU -> Nat] /\ synced'[c] = op[c].sum
      /\ \A d \in CPU \ {c} : synced'[d] = synced[d]
  BY <1>1, <1>2, <1>3 DEF Types
<1>5. Types' /\ op'[c] = Idle /\ \A d \in CPU \ {c} : op'[d] = op[d]
  <2>1. /\ loaded' \in [CPU -> [Reg -> [Byte -> Nat]]]
        /\ alat' \in [CPU -> [Reg -> LoadAccess \union {{}}]]
    BY <1>1, <1>3, Zenon DEF Types
  <2> QED
    BY <1>1, <1>3, <1>4, <2>1, LocalTypes, Zenon
<1>6. Local(c)
  BY <1>3, <1>4, <1>5, Zenon DEF Local
<1>7. ~Odd(sequence'[c]) /\ synced'[c] <= Total'
  BY <1>0, <1>1, <1>2, <1>4, <1>6, NoScope, LocalSame, ZenonT(60)
<1>8. Entries(c) = {}
  BY <1>0, <1>1, StageIs DEF Shape, Samplers
<1>9. \A r \in Reg : alat'[c][r] = {}
  BY <1>3, <1>8, Zenon DEF Entries
<1>10. Good(c)'
  BY <1>5, <1>7, <1>9, IdleNext, EmptyCurrent, IdleGood, Zenon
<1> QED
  BY <1>0, <1>5, <1>6, <1>10, LocalPreserves

\* A step of a processor at rest that only drops entries.
LEMMA DropGood ==
    ASSUME IInv, NEW c \in CPU, Local(c), Types', op'[c] = Idle,
           op[c].at \notin {"write", "finish"}, ~Storing(c), Own(c) = 0,
           synced'[c] = synced[c], loaded'[c] = loaded[c],
           \A r \in Reg : alat'[c][r] \subseteq alat[c][r] /\ alat'[c][r] \subseteq Covered(c, r)
    PROVE  Good(c)'
<1>1. /\ Good(c) /\ Coherent(c) /\ Cardinality(Entries(c)) <= Slots
      /\ synced[c] <= Total /\ synced[c] \in Nat
  BY GoodFacts
<1>2. /\ Total' = Total /\ Dirty(c)' = Dirty(c) /\ ram' = ram /\ sequence' = sequence
  BY LocalSame
<1>3. ~Odd(sequence'[c])
  BY <1>1, <1>2, NoScope, Zenon
<1>4. Cardinality(Entries(c)') <= Slots
  <2>1. \A r \in Reg : alat[c][r] = {} => alat'[c][r] = {}
    OBVIOUS
  <2> QED
    BY <1>1, <2>1, ShrinkEntries, ZenonT(60)
<1>5. Own(c)' = 0 /\ \A r \in Reg : Covered(c, r)' = alat'[c][r]
  BY IdleNext, Zenon
<1>6. Coherent(c)'
  <2>1. \A r \in Reg : Covered(c, r)' \subseteq Covered(c, r)
    BY <1>5
  <2>2. synced[c] + Own(c) < Total => synced'[c] + Own(c)' < Total'
    BY <1>2, <1>5, ZenonT(60)
  <2> QED
    BY <1>1, <1>2, <2>1, <2>2, ShrinkCoherent, Zenon
<1>7. synced'[c] <= Total'
  BY <1>1, <1>2
<1> QED
  BY <1>3, <1>4, <1>6, <1>7, IdleGood, ZenonT(60)

LEMMA InvalidateRegisterPreserves ==
    ASSUME IInv, NEW c \in CPU, NEW r \in Reg, InvalidateRegister(c, r)
    PROVE  IInv'
<1>1. Types /\ op[c] = Idle
  BY GoodFacts DEF InvalidateRegister
<1>2. /\ UNCHANGED <<shared, synced, loaded, op>>
      /\ alat' = [alat EXCEPT ![c][r] = {}]
  BY DEF InvalidateRegister
<1>3. /\ alat' \in [CPU -> [Reg -> LoadAccess \union {{}}]]
      /\ \A d \in CPU \ {c} : alat'[d] = alat[d]
      /\ \A q \in Reg : alat'[c][q] \subseteq alat[c][q]
  BY <1>1, <1>2 DEF Types
<1>4. Types' /\ Local(c)
  <2>1. /\ ram' = ram /\ sequence' = sequence /\ generation' = generation
        /\ writers' = writers /\ device' = device
        /\ synced' = synced /\ loaded' = loaded /\ op' = op
    BY <1>2 DEF shared
  <2>2. Types'
    BY <1>1, <1>3, <2>1 DEF Types
  <2>3. Local(c)
    BY <1>2, <1>3, <2>1, Zenon DEF Local
  <2> QED
    BY <2>2, <2>3
<1>5. op[c].at = "idle" /\ Own(c) = 0 /\ ~Storing(c) /\ Stage(c) = "idle"
  BY <1>1, IdleFacts, Zenon
<1>6. \A q \in Reg : alat'[c][q] \subseteq Covered(c, q)
  BY <1>3, <1>5, ZenonT(60) DEF Covered
<1>7. Good(c)'
  BY <1>1, <1>2, <1>3, <1>4, <1>5, <1>6, DropGood
<1> QED
  BY <1>4, <1>5, <1>7, LocalPreserves

\* A step that leaves the tables alone.
LEMMA KeepTypes ==
    ASSUME Types, NEW c \in CPU, UNCHANGED <<shared, alat, synced, loaded>>,
           NEW o \in Ops \union {Idle}, Goto(c, o)
    PROVE  /\ Types' /\ op'[c] = o /\ Local(c)
           /\ alat' = alat /\ synced' = synced /\ loaded' = loaded
<1>1. UNCHANGED shared /\ alat' = alat /\ synced' = synced /\ loaded' = loaded
  OBVIOUS
<1>2. /\ alat' \in [CPU -> [Reg -> LoadAccess \union {{}}]]
      /\ synced' \in [CPU -> Nat] /\ loaded' \in [CPU -> [Reg -> [Byte -> Nat]]]
  BY <1>1 DEF Types
<1>3. Types' /\ op'[c] = o /\ \A d \in CPU \ {c} : op'[d] = op[d]
  BY <1>1, <1>2, LocalTypes, ZenonT(60)
<1> QED
  BY <1>1, <1>3, Zenon DEF Local

\* An instruction that begins with a sample.
LEMMA StartGood ==
    ASSUME IInv, NEW c \in CPU, Local(c), Types', op[c] = Idle,
           alat' = alat, synced' = synced, loaded' = loaded,
           op'[c].at = "external", op'[c].closing = FALSE, op'[c].then \in {"load", "find"},
           op'[c].then = "load" => op'[c].access \in LoadAccess,
           op'[c].then = "find" => op'[c].floor = ram
    PROVE  Good(c)'
<1>1. /\ Types /\ Good(c) /\ Coherent(c) /\ Cardinality(Entries(c)) <= Slots
      /\ synced[c] <= Total /\ synced[c] \in Nat
  BY GoodFacts
<1>2. /\ Total' = Total /\ Dirty(c)' = Dirty(c) /\ ram' = ram /\ sequence' = sequence
  BY LocalSame
<1>3. op[c].at = "idle" /\ Stage(c) = "idle" /\ Own(c) = 0 /\ ~Storing(c)
  BY IdleFacts
<1>4. Stage(c)' \in {"load", "find"} /\ Stage(c)' = op'[c].then
  BY DEF Stage, Samplers
<1>5. Own(c)' = 0 /\ \A r \in Reg : Covered(c, r)' = Covered(c, r)
  BY <1>3, <1>4, Zenon DEF Own, Covered
<1>6. ~Odd(sequence'[c])
  BY <1>1, <1>2, <1>3, NoScope, Zenon
<1>7. Cardinality(Entries(c)') <= Slots
  BY <1>1, Zenon DEF Entries
<1>8. Coherent(c)'
  <2>1. synced[c] + Own(c) < Total => synced'[c] + Own(c)' < Total'
    BY <1>2, <1>3, <1>5, Zenon
  <2> QED
    BY <1>1, <1>2, <1>3, <1>5, <2>1, ShrinkCoherent, Zenon
<1>9. synced'[c] + Own(c)' <= Total'
  BY <1>1, <1>2, <1>5, SMTT(40)
<1>10. Stage(c)' \in Checking => \A b \in Byte : op'[c].floor[b] <= ram'[b]
  <2>1. \A b \in Byte : ram[b] \in Nat
    BY <1>1, Zenon DEF Types
  <2> QED
    BY <1>2, <1>4, <2>1, SMTT(40) DEF Checking
<1>11. Settled(c)'
  BY <1>4, <1>6, <1>7, <1>8, <1>9, <1>10, ZenonT(60) DEF Settled, Closing
<1> QED
  BY <1>11, SettledGood, Zenon

LEMMA LoadBeginPreserves ==
    ASSUME IInv, NEW c \in CPU, NEW r \in Reg, NEW a \in LoadAccess, LoadBegin(c, r, a)
    PROVE  IInv'
<1> DEFINE o == [NewOp EXCEPT !.reg = r, !.access = a, !.then = "load"]
<1>1. a \in SUBSET Byte
  BY AccessAssumption
<1>2. o \in Ops
  BY <1>1, NewOpDoes, Zenon DEF Ops, Opening
<1>3. o.at = "external" /\ o.closing = FALSE /\ o.then = "load" /\ o.access = a
  BY NewOpDoes, Zenon DEF Ops
<1>4. Types /\ op[c] = Idle /\ Goto(c, o) /\ UNCHANGED <<shared, alat, synced, loaded>>
  BY GoodFacts, Zenon DEF LoadBegin
<1> HIDE DEF o
<1>5. /\ Types' /\ op'[c] = o /\ Local(c)
      /\ alat' = alat /\ synced' = synced /\ loaded' = loaded
  BY <1>2, <1>4, KeepTypes, ZenonT(60)
<1>6. Good(c)'
  BY <1>3, <1>4, <1>5, StartGood, Zenon
<1>7. op[c].at # "finish"
  BY <1>4, IdleFacts
<1> QED
  BY <1>5, <1>6, <1>7, LocalPreserves

LEMMA CheckBeginPreserves ==
    ASSUME IInv, NEW c \in CPU, NEW r \in Reg, NEW verify \in BOOLEAN, NEW a \in LoadAccess,
           NEW clear \in BOOLEAN, CheckBegin(c, r, verify, a, clear)
    PROVE  IInv'
<1> DEFINE o == [NewOp EXCEPT !.reg = r, !.verify = verify, !.access = a,
                              !.clear = clear, !.floor = ram, !.then = "find"]
<1>1. a \in SUBSET Byte /\ ram \in [Byte -> Nat]
  BY AccessAssumption, GoodFacts, Zenon DEF Types
<1>2. o \in Ops
  BY <1>1, NewOpDoes, Zenon DEF Ops, Opening
<1>3. o.at = "external" /\ o.closing = FALSE /\ o.then = "find" /\ o.floor = ram
  BY NewOpDoes, Zenon DEF Ops
<1>4. Types /\ op[c] = Idle /\ Goto(c, o) /\ UNCHANGED <<shared, alat, synced, loaded>>
  BY GoodFacts DEF CheckBegin
<1>5. PICK p \in Ops : /\ p.at = "external" /\ p.closing = FALSE /\ p.then = "find"
                       /\ p.floor = ram /\ Goto(c, p)
  BY <1>2, <1>3, <1>4, Zenon
<1> HIDE DEF o
<1>6. /\ Types' /\ op'[c] = p /\ Local(c)
      /\ alat' = alat /\ synced' = synced /\ loaded' = loaded
  BY <1>4, <1>5, KeepTypes
<1>7. Good(c)'
  BY <1>4, <1>5, <1>6, StartGood, Zenon
<1>8. op[c].at # "finish"
  BY <1>4, IdleFacts
<1> QED
  BY <1>6, <1>7, <1>8, LocalPreserves, Zenon

LEMMA PublishedPreserves ==
    ASSUME IInv, NEW c \in CPU, Published(c)
    PROVE  IInv'
<1>1. Types /\ op[c].at = "published" /\ Goto(c, Idle)
      /\ UNCHANGED <<shared, alat, synced, loaded>>
  BY GoodFacts DEF Published
<1>2. /\ Types' /\ op'[c] = Idle /\ Local(c)
      /\ alat' = alat /\ synced' = synced /\ loaded' = loaded
  BY <1>1, KeepTypes
<1>3. Stage(c) = "published"
  BY <1>1, StageIs DEF Samplers
<1>4. ~Storing(c) /\ Own(c) = 0 /\ \A r \in Reg : Covered(c, r) = alat[c][r]
  BY <1>3, Zenon DEF Storing, Own, Covered
<1>5. Good(c)'
  BY <1>1, <1>2, <1>4, DropGood, ZenonT(60)
<1> QED
  BY <1>1, <1>2, <1>5, LocalPreserves

LEMMA SyncDoes ==
    ASSUME Types, NEW c \in CPU, op[c] \in Ops, Sync(c)
    PROVE  /\ alat' \in [CPU -> [Reg -> LoadAccess \union {{}}]]
           /\ synced' \in [CPU -> Nat] /\ synced'[c] = op[c].sum
           /\ \A d \in CPU \ {c} : alat'[d] = alat[d] /\ synced'[d] = synced[d]
           /\ Synced(c) => alat'[c] = alat[c] /\ synced'[c] = synced[c]
           /\ ~Synced(c) => \A r \in Reg : alat'[c][r] = {}
           /\ \A r \in Reg : alat[c][r] = {} => alat'[c][r] = {}
<1>1. op[c].sum \in Nat
  BY OpsFields
<1>2. synced' \in [CPU -> Nat] /\ synced'[c] = op[c].sum
      /\ \A d \in CPU \ {c} : synced'[d] = synced[d]
  BY <1>1 DEF Sync, Types
<1>3. CASE Synced(c)
  <2>1. alat' = alat
    BY <1>3 DEF Sync
  <2>2. synced'[c] = synced[c]
    BY <1>2, <1>3, Zenon DEF Synced
  <2> QED
    BY <1>2, <1>3, <2>1, <2>2 DEF Types
<1>4. CASE ~Synced(c)
  <2>1. alat' = [alat EXCEPT ![c] = [r \in Reg |-> {}]]
    BY <1>4 DEF Sync
  <2> QED
    BY <1>2, <1>4, <2>1, ClearTypes, Zenon
<1> QED
  BY <1>3, <1>4

LEMMA LoadRamPreserves ==
    ASSUME IInv, NEW c \in CPU, LoadRam(c)
    PROVE  IInv'
<1>0. op[c].at = "load" /\ Sync(c) /\ UNCHANGED shared
  BY DEF LoadRam
<1>1. Types /\ Good(c) /\ Shape(c) /\ Behind(c) /\ Coherent(c) /\ op[c] \in Ops
      /\ Cardinality(Entries(c)) <= Slots
  BY <1>0, GoodFacts, Running
<1>2. /\ alat' \in [CPU -> [Reg -> LoadAccess \union {{}}]]
      /\ synced' \in [CPU -> Nat] /\ synced'[c] = op[c].sum
      /\ \A d \in CPU \ {c} : alat'[d] = alat[d] /\ synced'[d] = synced[d]
      /\ Synced(c) => alat'[c] = alat[c] /\ synced'[c] = synced[c]
      /\ ~Synced(c) => \A r \in Reg : alat'[c][r] = {}
      /\ \A r \in Reg : alat[c][r] = {} => alat'[c][r] = {}
  BY <1>0, <1>1, SyncDoes, Zenon
<1>3. Stage(c) = "load"
  BY <1>0, StageIs, ZenonT(60) DEF Samplers
<1>4. op[c].sum \in Nat /\ op[c].sum <= Total /\ op[c].reg \in Reg
      /\ op[c].access \in LoadAccess /\ op[c].access \in SUBSET Byte
  BY <1>0, <1>1, <1>3, OpsFields DEF Behind, Shape, Opening
<1> DEFINE p == [op[c] EXCEPT !.expected = synced'[c]]
           s == Sampling(p, TRUE, "set")
<1>5. p \in Ops /\ p.expected = synced'[c] /\ p.reg = op[c].reg /\ p.access = op[c].access
  <2>1. synced'[c] \in Nat
    BY <1>2
  <2> QED
    BY <1>1, <2>1, ZenonT(60) DEF Ops
<1> HIDE DEF p
<1>6. /\ s \in Ops /\ s.at = "external" /\ s.closing = TRUE /\ s.then = "set"
      /\ s.expected = p.expected /\ s.reg = p.reg /\ s.access = p.access
  <2>1. "set" \in Opening \union Closing
    BY DEF Closing
  <2> QED
    BY <1>5, <2>1, SamplingDoes, ZenonT(60)
<1>7. Goto(c, s)
  BY ZenonT(60) DEF LoadRam, p
<1> DEFINE f == [b \in Byte |-> IF b \in op[c].access THEN ram[b] ELSE 0]
<1>8. loaded' = [loaded EXCEPT ![c][op[c].reg] = f]
  BY DEF LoadRam
<1>9. f \in [Byte -> Nat] /\ \A b \in op[c].access : f[b] = ram[b]
  BY <1>1, <1>4, ZenonT(60) DEF Types
<1> HIDE DEF f, s
<1>10. /\ loaded' \in [CPU -> [Reg -> [Byte -> Nat]]]
       /\ loaded'[c][op[c].reg] = f
       /\ \A r \in Reg \ {op[c].reg} : loaded'[c][r] = loaded[c][r]
       /\ \A d \in CPU \ {c} : loaded'[d] = loaded[d]
  BY <1>1, <1>4, <1>8, <1>9 DEF Types
<1>11. Types' /\ op'[c] = s /\ \A d \in CPU \ {c} : op'[d] = op[d]
  BY <1>0, <1>1, <1>2, <1>6, <1>7, <1>10, LocalTypes, Zenon
<1>12. Local(c)
  BY <1>0, <1>2, <1>10, <1>11, Zenon DEF Local
<1>13. /\ Total' = Total /\ Dirty(c)' = Dirty(c) /\ ram' = ram /\ sequence' = sequence
  BY <1>12, LocalSame
<1>14. op'[c].at = "external" /\ op'[c].closing = TRUE /\ op'[c].then = "set"
       /\ op'[c].expected = synced'[c] /\ op'[c].reg = op[c].reg
       /\ op'[c].access = op[c].access
  BY <1>5, <1>6, <1>11, ZenonT(60)
<1>15. Stage(c)' = "set"
  BY <1>14 DEF Stage, Samplers
<1>16. Own(c)' = 0 /\ Own(c) = 0 /\ ~Storing(c)
  BY <1>3, <1>15, Zenon DEF Own, Storing
<1>17. ~Odd(sequence'[c])
  BY <1>0, <1>1, <1>13, NoScope, ZenonT(60)
<1>18. Cardinality(Entries(c)') <= Slots
  BY <1>1, <1>2, ShrinkEntries, ZenonT(60)
<1>19. Coherent(c)'
  <2>0. PICK q \in Reg : q = op[c].reg
    BY <1>4, Zenon
  <2>1. \A b \in Covered(c, q)' : loaded'[c][q][b] = ram'[b]
    BY <1>9, <1>10, <1>13, <1>14, <1>15, <2>0 DEF Covered
  <2>2. \A r \in Reg \ {q} : Covered(c, r)' = alat'[c][r] /\ Covered(c, r) = alat[c][r]
    BY <1>3, <1>14, <1>15, <2>0 DEF Covered
  <2>3. CASE ~Synced(c)
    <3>1. \A r \in Reg \ {q} : Covered(c, r)' = {}
      BY <1>2, <2>2, <2>3, ZenonT(60)
    <3>2. Current(c)'
      BY <2>1, <3>1, Zenon DEF Current
    <3> QED
      BY <3>2 DEF Coherent
  <2>4. CASE Synced(c) /\ Current(c)
    <3>1. ASSUME NEW r \in Reg \ {q}, NEW b \in Covered(c, r)'
          PROVE  loaded'[c][r][b] = ram'[b]
      <4>1. b \in Covered(c, r)
        BY <1>2, <2>2, <2>4, Zenon
      <4>2. loaded[c][r][b] = ram[b]
        BY <1>16, <2>4, <4>1, Zenon DEF Current
      <4> QED
        BY <1>10, <1>13, <2>0, <4>2, Zenon
    <3>2. Current(c)'
      BY <2>1, <3>1, Zenon DEF Current
    <3> QED
      BY <3>2 DEF Coherent
  <2>5. CASE Synced(c) /\ ~Current(c)
    BY <1>1, <1>2, <1>13, <1>16, <2>5, Zenon DEF Coherent
  <2> QED
    BY <2>3, <2>4, <2>5
<1>20. synced'[c] + Own(c)' <= Total'
  BY <1>2, <1>4, <1>13, <1>16, SMTT(40)
<1>21. Settled(c)'
  BY <1>4, <1>14, <1>15, <1>17, <1>18, <1>19, <1>20 DEF Settled, Closing, Checking
<1>22. Good(c)'
  BY <1>11, <1>21, SettledGood, Zenon
<1> QED
  BY <1>0, <1>11, <1>12, <1>22, LocalPreserves

LEMMA RegisterPreserves ==
    ASSUME IInv, NEW c \in CPU, Register(c)
    PROVE  IInv'
<1>0. op[c].at = "set" /\ UNCHANGED <<shared, synced, loaded>>
  BY Zenon DEF Register
<1>1. Types /\ Good(c) /\ Shape(c) /\ Coherent(c) /\ op[c] \in Ops
      /\ Cardinality(Entries(c)) <= Slots /\ synced[c] + Own(c) <= Total
      /\ synced[c] \in Nat /\ synced[c] <= Total
  BY <1>0, GoodFacts, Running, Zenon
<1>2. Stage(c) = "set"
  BY <1>0, StageIs, Zenon DEF Samplers
<1>3. op[c].reg \in Reg /\ op[c].access \in LoadAccess /\ op[c].expected = synced[c]
  BY <1>1, <1>2, OpsFields, Zenon DEF Shape
<1>4. Own(c) = 0 /\ ~Storing(c)
  BY <1>2 DEF Own, Storing
<1>5. CASE alat[c][op[c].reg] # {} \/ Cardinality(Entries(c)) < Slots
  <2> DEFINE s == Sampling(op[c], TRUE, "published")
  <2>1. alat' = [alat EXCEPT ![c][op[c].reg] = op[c].access] /\ Goto(c, s)
    BY <1>5, Zenon DEF Register
  <2>2. /\ s \in Ops /\ s.at = "external" /\ s.closing = TRUE /\ s.then = "published"
        /\ s.expected = op[c].expected
    <3>1. "published" \in Opening \union Closing
      BY Zenon DEF Closing
    <3> QED
      BY <1>1, <3>1, SamplingDoes, ZenonT(60)
  <2> HIDE DEF s
  <2>3. /\ alat' \in [CPU -> [Reg -> LoadAccess \union {{}}]]
        /\ \A d \in CPU \ {c} : alat'[d] = alat[d]
        /\ alat'[c][op[c].reg] = op[c].access
        /\ \A r \in Reg \ {op[c].reg} : alat'[c][r] = alat[c][r]
    BY <1>1, <1>3, <2>1 DEF Types
  <2>4. Types' /\ op'[c] = s /\ \A d \in CPU \ {c} : op'[d] = op[d]
    <3>1. synced' \in [CPU -> Nat] /\ loaded' \in [CPU -> [Reg -> [Byte -> Nat]]]
      BY <1>0, <1>1, Zenon DEF Types
    <3> QED
      BY <1>0, <1>1, <2>1, <2>2, <2>3, <3>1, LocalTypes, ZenonT(60)
  <2>5. Local(c)
    BY <1>0, <2>3, <2>4, Zenon DEF Local
  <2>6. /\ Total' = Total /\ Dirty(c)' = Dirty(c) /\ ram' = ram /\ sequence' = sequence
    BY <2>5, LocalSame
  <2>7. Stage(c)' = "published"
    BY <2>2, <2>4, Zenon DEF Stage, Samplers
  <2>8. Own(c)' = 0 /\ \A r \in Reg : Covered(c, r)' = Covered(c, r)
    BY <1>2, <2>3, <2>7, Zenon DEF Own, Covered
  <2>9. ~Odd(sequence'[c])
    BY <1>0, <1>1, <2>6, NoScope, Zenon
  <2>10. Coherent(c)'
    <3>1. synced[c] + Own(c) < Total => synced'[c] + Own(c)' < Total'
      BY <1>0, <1>4, <2>6, <2>8, Zenon
    <3> QED
      BY <1>0, <1>1, <1>4, <2>6, <2>8, <3>1, ShrinkCoherent, ZenonT(60)
  <2>11. Cardinality(Entries(c)') <= Slots
    <3>1. Entries(c)' \in SUBSET (Entries(c) \cup {op[c].reg})
      BY <2>3 DEF Entries
    <3>2. IsFiniteSet(Entries(c))
      <4>1. Entries(c) \in SUBSET Reg
        BY DEF Entries
      <4> QED
        BY <4>1, FS_Subset, TableAssumption, Zenon
    <3> DEFINE U == Entries(c) \cup {op[c].reg}
    <3>3. IsFiniteSet(U) /\ Cardinality(U) =
             IF op[c].reg \in Entries(c) THEN Cardinality(Entries(c))
                                         ELSE Cardinality(Entries(c)) + 1
      BY <3>2, FS_AddElement, Zenon
    <3>4. Cardinality(Entries(c)) \in Nat
      BY <3>2, FS_CardinalityType, ZenonT(60)
    <3>5. alat[c][op[c].reg] # {} <=> op[c].reg \in Entries(c)
      BY <1>3, Zenon DEF Entries
    <3>6. Cardinality(U) <= Slots /\ Cardinality(U) \in Nat
      <4> HIDE DEF U
      <4>1. CASE op[c].reg \in Entries(c)
        BY <1>1, <3>3, <3>4, <4>1, Zenon
      <4>2. CASE op[c].reg \notin Entries(c)
        <5>1. Cardinality(U) = Cardinality(Entries(c)) + 1 /\ Cardinality(Entries(c)) < Slots
          BY <1>5, <3>3, <3>5, <4>2, Zenon
        <5> QED
          BY <3>4, <5>1, TableAssumption, OneMore, Zenon
      <4> QED
        BY <4>1, <4>2, Zenon
    <3> HIDE DEF U
    <3>7. Cardinality(Entries(c)') <= Cardinality(U) /\ IsFiniteSet(Entries(c)')
      BY <3>1, <3>3, FS_Subset, Zenon DEF U
    <3>8. Cardinality(Entries(c)') \in Nat
      BY <3>7, FS_CardinalityType, Zenon
    <3> QED
      BY <3>6, <3>7, <3>8, TableAssumption, SMTT(40)
  <2>12. synced'[c] + Own(c)' <= Total' /\ op'[c].expected = synced'[c]
    BY <1>0, <1>1, <1>3, <2>2, <2>4, <2>6, <2>8, SMTT(40)
  <2>13. Settled(c)'
    BY <2>2, <2>4, <2>7, <2>9, <2>10, <2>11, <2>12, ZenonT(60) DEF Settled, Closing, Checking
  <2>14. Good(c)'
    BY <2>4, <2>13, SettledGood
  <2> QED
    BY <1>0, <2>4, <2>5, <2>14, LocalPreserves, Zenon
<1>6. CASE ~(alat[c][op[c].reg] # {} \/ Cardinality(Entries(c)) < Slots)
  <2>1. Goto(c, Idle) /\ UNCHANGED <<shared, alat, synced, loaded>>
    BY <1>6, Zenon DEF Register
  <2>2. /\ Types' /\ op'[c] = Idle /\ Local(c)
        /\ alat' = alat /\ synced' = synced /\ loaded' = loaded
    BY <1>1, <2>1, KeepTypes, Zenon
  <2>3. \A r \in Reg : alat'[c][r] \subseteq Covered(c, r)
    BY <1>6, <2>2, Zenon DEF Covered
  <2>4. Good(c)'
    BY <1>0, <1>4, <2>2, <2>3, DropGood, ZenonT(60)
  <2> QED
    BY <1>0, <2>2, <2>4, LocalPreserves, Zenon
<1> QED
  BY <1>5, <1>6

\* A check goes on to its next sample.
LEMMA CheckGood ==
    ASSUME IInv, NEW c \in CPU, Local(c), Types', op[c].at \in Checking,
           alat'[c] = alat[c], synced'[c] = synced[c], loaded'[c] = loaded[c],
           op'[c].at = "external", op'[c].closing = TRUE, op'[c].then \in {"match", "hit"},
           op'[c].floor = op[c].floor, op'[c].expected = synced[c]
    PROVE  Good(c)'
<1>1. /\ Types /\ Good(c) /\ Shape(c) /\ Coherent(c) /\ Cardinality(Entries(c)) <= Slots
      /\ synced[c] <= Total /\ synced[c] \in Nat
  BY GoodFacts, Zenon
<1>2. /\ Total' = Total /\ Dirty(c)' = Dirty(c) /\ ram' = ram /\ sequence' = sequence
  BY LocalSame, Zenon
<1>3. Stage(c) \in Checking /\ op[c].at \notin {"write", "finish"}
  BY StageIs, Zenon DEF Checking, Samplers
<1>4. Own(c) = 0 /\ ~Storing(c) /\ Stage(c) # "set"
  BY <1>3, Zenon DEF Own, Storing, Checking
<1>5. Stage(c)' \in {"match", "hit"}
  BY Zenon DEF Stage, Samplers
<1>6. Own(c)' = 0 /\ \A r \in Reg : Covered(c, r)' = Covered(c, r)
  BY <1>4, <1>5, Zenon DEF Own, Covered
<1>7. ~Odd(sequence'[c])
  BY <1>1, <1>2, <1>3, NoScope, ZenonT(60)
<1>8. Cardinality(Entries(c)') <= Slots
  BY <1>1, ZenonT(60) DEF Entries
<1>9. Coherent(c)'
  <2>1. synced[c] + Own(c) < Total => synced'[c] + Own(c)' < Total'
    BY <1>2, <1>4, <1>6, ZenonT(60)
  <2> QED
    BY <1>1, <1>2, <1>4, <1>6, <2>1, ShrinkCoherent, ZenonT(60)
<1>10. synced'[c] + Own(c)' <= Total'
  BY <1>1, <1>2, <1>6, SMTT(40)
<1>11. \A b \in Byte : op'[c].floor[b] <= ram'[b]
  BY <1>1, <1>2, <1>3, ZenonT(60) DEF Shape
<1>12. Settled(c)'
  BY <1>5, <1>7, <1>8, <1>9, <1>10, <1>11, ZenonT(60) DEF Settled, Closing
<1> QED
  BY <1>12, SettledGood, Zenon

LEMMA FindPreserves ==
    ASSUME IInv, NEW c \in CPU, Find(c)
    PROVE  IInv'
<1>0. op[c].at = "find" /\ Sync(c) /\ UNCHANGED shared /\ loaded' = loaded
  BY Zenon DEF Find
<1>1. Types /\ Good(c) /\ Behind(c) /\ op[c] \in Ops
  BY <1>0, GoodFacts, Running, Zenon
<1>2. /\ alat' \in [CPU -> [Reg -> LoadAccess \union {{}}]]
      /\ synced' \in [CPU -> Nat] /\ synced'[c] = op[c].sum
      /\ \A d \in CPU \ {c} : alat'[d] = alat[d] /\ synced'[d] = synced[d]
      /\ Synced(c) => alat'[c] = alat[c] /\ synced'[c] = synced[c]
      /\ ~Synced(c) => \A r \in Reg : alat'[c][r] = {}
  BY <1>0, <1>1, SyncDoes, ZenonT(60)
<1>3. Stage(c) = "find"
  BY <1>0, StageIs, Zenon DEF Samplers
<1>4. ~Storing(c) /\ Own(c) = 0 /\ \A r \in Reg : Covered(c, r) = alat[c][r]
  BY <1>3, Zenon DEF Storing, Own, Covered
<1>5. loaded' \in [CPU -> [Reg -> [Byte -> Nat]]]
  BY <1>0, <1>1, Zenon DEF Types
<1>6. CASE ~Synced(c) \/ alat[c][op[c].reg] = {}
  <2>1. Goto(c, Idle)
    BY <1>6, Zenon DEF Find
  <2>2. Types' /\ op'[c] = Idle /\ \A d \in CPU \ {c} : op'[d] = op[d]
    BY <1>0, <1>1, <1>2, <1>5, <2>1, LocalTypes, Zenon
  <2>3. Local(c)
    BY <1>0, <1>2, <2>2, Zenon DEF Local
  <2>4. CASE ~Synced(c)
    <3>1. Total' = Total /\ sequence' = sequence
      BY <2>3, LocalSame, Zenon
    <3>2. ~Odd(sequence'[c])
      BY <1>0, <1>1, <3>1, NoScope, Zenon
    <3>3. synced'[c] <= Total'
      BY <1>0, <1>1, <1>2, <3>1, Zenon DEF Behind, Opening
    <3>4. Good(c)'
      BY <1>2, <2>2, <2>4, <3>2, <3>3, IdleNext, EmptyCurrent, IdleGood, ZenonT(60)
    <3> QED
      BY <1>0, <2>2, <2>3, <3>4, LocalPreserves, Zenon
  <2>5. CASE Synced(c)
    <3>1. alat'[c] = alat[c] /\ synced'[c] = synced[c]
      BY <1>2, <2>5, ZenonT(60)
    <3>2. Good(c)'
      BY <1>0, <1>4, <2>2, <2>3, <3>1, DropGood, Zenon
    <3> QED
      BY <1>0, <2>2, <2>3, <3>2, LocalPreserves
  <2> QED
    BY <2>4, <2>5
<1>7. CASE Synced(c) /\ alat[c][op[c].reg] # {}
  <2> DEFINE p == [op[c] EXCEPT !.expected = synced[c]]
             t == IF op[c].verify THEN "match" ELSE "hit"
             s == Sampling(p, TRUE, t)
  <2>1. Goto(c, s)
    BY <1>7, Zenon DEF Find
  <2>2. p \in Ops /\ p.expected = synced[c] /\ p.floor = op[c].floor
    <3>1. synced[c] \in Nat
      BY <1>1 DEF Types
    <3> QED
      BY <1>1, <3>1, Zenon DEF Ops
  <2>3. t \in Opening \union Closing /\ t \in {"match", "hit"}
    BY DEF Closing
  <2> HIDE DEF p, t
  <2>4. /\ s \in Ops /\ s.at = "external" /\ s.closing = TRUE /\ s.then = t
        /\ s.expected = p.expected /\ s.floor = p.floor
    BY <2>2, <2>3, SamplingDoes, ZenonT(60)
  <2> HIDE DEF s
  <2>5. Types' /\ op'[c] = s /\ \A d \in CPU \ {c} : op'[d] = op[d]
    BY <1>0, <1>1, <1>2, <1>5, <2>1, <2>4, LocalTypes, ZenonT(60)
  <2>6. Local(c)
    BY <1>0, <1>2, <2>5, ZenonT(60) DEF Local
  <2>7. alat'[c] = alat[c] /\ synced'[c] = synced[c]
    BY <1>2, <1>7, Zenon
  <2>8. op'[c].then \in {"match", "hit"} /\ op'[c].at = "external" /\ op'[c].closing = TRUE
        /\ op'[c].floor = op[c].floor /\ op'[c].expected = synced[c]
    BY <2>2, <2>3, <2>4, <2>5, ZenonT(60)
  <2>9. op[c].at \in Checking
    BY <1>0, Zenon DEF Checking
  <2>10. Good(c)'
    BY <1>0, <2>5, <2>6, <2>7, <2>8, <2>9, CheckGood, ZenonT(60)
  <2> QED
    BY <1>0, <2>5, <2>6, <2>10, LocalPreserves, Zenon
<1> QED
  BY <1>6, <1>7

\* The end of a check, which may drop the entry it found.
LEMMA CheckEnds ==
    ASSUME IInv, NEW c \in CPU, op[c].at \in {"match", "hit"}, Goto(c, Idle),
           UNCHANGED <<shared, synced, loaded>>, DropEntry(c) \/ UNCHANGED alat
    PROVE  IInv'
<1>1. Types /\ op[c] \in Ops
  BY GoodFacts, Running, Zenon
<1>2. op[c].reg \in Reg
  BY <1>1, OpsFields, Zenon
<1>3. /\ alat' \in [CPU -> [Reg -> LoadAccess \union {{}}]]
      /\ \A d \in CPU \ {c} : alat'[d] = alat[d]
      /\ \A q \in Reg : alat'[c][q] \subseteq alat[c][q]
  <2>1. alat \in [CPU -> [Reg -> LoadAccess \union {{}}]]
    BY <1>1, Zenon DEF Types
  <2>2. CASE UNCHANGED alat
    BY <2>1, <2>2, Zenon
  <2>3. CASE DropEntry(c)
    <3>1. alat' = [alat EXCEPT ![c][op[c].reg] = {}]
      BY <2>3, Zenon DEF DropEntry
    <3> QED
      BY <1>2, <2>1, <3>1, Zenon
  <2> QED
    BY <2>2, <2>3, Zenon
<1>4. synced' = synced /\ loaded' = loaded /\ UNCHANGED shared
      /\ synced' \in [CPU -> Nat] /\ loaded' \in [CPU -> [Reg -> [Byte -> Nat]]]
  BY <1>1 DEF Types
<1>5. Types' /\ op'[c] = Idle /\ \A d \in CPU \ {c} : op'[d] = op[d]
  BY <1>1, <1>3, <1>4, LocalTypes, Zenon
<1>6. Local(c)
  BY <1>3, <1>4, <1>5, ZenonT(60) DEF Local
<1>7. Stage(c) \in {"match", "hit"}
  BY StageIs, Zenon DEF Samplers
<1>8. ~Storing(c) /\ Own(c) = 0 /\ \A r \in Reg : Covered(c, r) = alat[c][r]
  BY <1>7, Zenon DEF Storing, Own, Covered
<1>9. op[c].at \notin {"write", "finish"} /\ synced'[c] = synced[c] /\ loaded'[c] = loaded[c]
      /\ \A r \in Reg : alat'[c][r] \subseteq alat[c][r] /\ alat'[c][r] \subseteq Covered(c, r)
  BY <1>3, <1>4, <1>8
<1>10. Good(c)'
  BY <1>5, <1>6, <1>8, <1>9, DropGood, ZenonT(60)
<1> QED
  BY <1>5, <1>6, <1>10, LocalPreserves, ZenonT(60)

LEMMA HitPreserves ==
    ASSUME IInv, NEW c \in CPU, Hit(c)
    PROVE  IInv'
BY CheckEnds, Zenon DEF Hit

LEMMA MatchPreserves ==
    ASSUME IInv, NEW c \in CPU, Match(c)
    PROVE  IInv'
<1>0. op[c].at = "match" /\ UNCHANGED <<shared, synced, loaded>>
  BY DEF Match
<1>1. Types /\ Shape(c) /\ op[c] \in Ops
  BY <1>0, GoodFacts, Running, Zenon
<1>2. CASE alat[c][op[c].reg] = op[c].access
  <2> DEFINE s == Sampling(op[c], TRUE, "hit")
  <2>1. Goto(c, s) /\ UNCHANGED <<shared, alat, synced, loaded>>
    BY <1>0, <1>2, ZenonT(60) DEF Match
  <2>2. "hit" \in Opening \union Closing
    BY DEF Closing
  <2>3. /\ s \in Ops /\ s.at = "external" /\ s.closing = TRUE /\ s.then = "hit"
        /\ s.expected = op[c].expected /\ s.floor = op[c].floor
    BY <1>1, <2>2, SamplingDoes, ZenonT(60)
  <2> HIDE DEF s
  <2>4. /\ Types' /\ op'[c] = s /\ Local(c)
        /\ alat' = alat /\ synced' = synced /\ loaded' = loaded
    BY <1>1, <2>1, <2>3, KeepTypes, Zenon
  <2>5. op[c].expected = synced[c] /\ op[c].at \in Checking
    BY <1>0, <1>1, StageIs, Zenon DEF Shape, Samplers, Checking
  <2>6. Good(c)'
    BY <2>3, <2>4, <2>5, CheckGood, Zenon
  <2> QED
    BY <1>0, <2>4, <2>6, LocalPreserves, Zenon
<1>3. CASE alat[c][op[c].reg] # op[c].access
  BY <1>0, <1>3, CheckEnds DEF Match
<1> QED
  BY <1>2, <1>3, Zenon

LEMMA StoredPreserves ==
    ASSUME IInv, NEW c \in CPU, Stored(c)
    PROVE  IInv'
<1>0. op[c].at = "stored" /\ UNCHANGED shared /\ alat' = alat /\ loaded' = loaded
      /\ synced' = [synced EXCEPT ![c] = op[c].expected]
  BY Zenon DEF Stored
<1>1. /\ Types /\ Good(c) /\ Shape(c) /\ Coherent(c) /\ op[c] \in Ops
      /\ Cardinality(Entries(c)) <= Slots /\ synced[c] + Own(c) <= Total /\ synced[c] \in Nat
  BY <1>0, GoodFacts, Running, Zenon
<1>2. Stage(c) = "stored" /\ op[c].expected \in Nat
  BY <1>0, <1>1, StageIs, OpsFields, Zenon DEF Samplers
<1>3. op[c].expected = synced[c] + 2 /\ Own(c) = 2 /\ Storing(c)
  BY <1>1, <1>2, ZenonT(60) DEF Shape, Own, Storing
<1> DEFINE s == Sampling(op[c], FALSE, "overlap")
<1>4. Goto(c, s)
  BY Zenon DEF Stored
<1>5. "overlap" \in Opening \union Closing
  BY DEF Opening
<1>6. /\ s \in Ops /\ s.at = "external" /\ s.closing = FALSE /\ s.then = "overlap"
      /\ s.access = op[c].access
  BY <1>1, <1>5, SamplingDoes, ZenonT(60)
<1> HIDE DEF s
<1>7. synced' \in [CPU -> Nat] /\ synced'[c] = op[c].expected
      /\ \A d \in CPU \ {c} : synced'[d] = synced[d]
  BY <1>0, <1>1, <1>2 DEF Types
<1>8. Types' /\ op'[c] = s /\ \A d \in CPU \ {c} : op'[d] = op[d]
  <2>1. /\ loaded' \in [CPU -> [Reg -> [Byte -> Nat]]]
        /\ alat' \in [CPU -> [Reg -> LoadAccess \union {{}}]]
    BY <1>0, <1>1 DEF Types
  <2> QED
    BY <1>0, <1>1, <1>4, <1>6, <1>7, <2>1, LocalTypes, ZenonT(60)
<1>9. Local(c)
  BY <1>0, <1>7, <1>8, ZenonT(60) DEF Local
<1>10. /\ Total' = Total /\ Dirty(c)' = Dirty(c) /\ ram' = ram /\ sequence' = sequence
  BY <1>9, LocalSame
<1>11. Stage(c)' = "overlap"
  BY <1>6, <1>8, Zenon DEF Stage, Samplers
<1>12. Own(c)' = 0 /\ Storing(c)' /\ \A r \in Reg : Covered(c, r)' = Covered(c, r)
  BY <1>0, <1>2, <1>11, Zenon DEF Own, Storing, Covered
<1>13. ~Odd(sequence'[c]) /\ Cardinality(Entries(c)') <= Slots
  BY <1>0, <1>1, <1>10, NoScope, Zenon DEF Entries
<1>14. Coherent(c)'
  <2>1. synced[c] + Own(c) < Total => synced'[c] + Own(c)' < Total'
    BY <1>1, <1>3, <1>7, <1>10, <1>12, SMTT(40)
  <2>2. op'[c].access = op[c].access
    BY <1>6, <1>8
  <2> QED
    BY <1>0, <1>1, <1>10, <1>12, <2>1, <2>2, ShrinkCoherent, ZenonT(60)
<1>15. synced'[c] + Own(c)' <= Total'
  BY <1>1, <1>3, <1>7, <1>10, <1>12, SMTT(40)
<1>16. Settled(c)'
  BY <1>6, <1>8, <1>11, <1>13, <1>14, <1>15 DEF Settled, Closing, Checking
<1>17. Good(c)'
  BY <1>8, <1>16, SettledGood
<1> QED
  BY <1>0, <1>8, <1>9, <1>17, LocalPreserves

LEMMA DropOverlapsPreserves ==
    ASSUME IInv, NEW c \in CPU, DropOverlaps(c)
    PROVE  IInv'
<1>0. /\ op[c].at = "overlap" /\ UNCHANGED shared /\ loaded' = loaded /\ Goto(c, Idle)
      /\ synced' = [synced EXCEPT ![c] = op[c].sum]
      /\ alat' = [alat EXCEPT ![c] = [r \in Reg |->
             IF Synced(c) /\ @[r] \cap op[c].access = {} THEN @[r] ELSE {}]]
  BY DEF DropOverlaps
<1>1. /\ Types /\ Good(c) /\ Behind(c) /\ Coherent(c) /\ op[c] \in Ops
      /\ Cardinality(Entries(c)) <= Slots
  BY <1>0, GoodFacts, Running, Zenon
<1>2. op[c].sum \in Nat /\ op[c].sum <= Total
  BY <1>0, <1>1, OpsFields DEF Behind, Opening
<1>3. Stage(c) = "overlap"
  BY <1>0, StageIs DEF Samplers
<1>4. Own(c) = 0 /\ \A r \in Reg : Covered(c, r) = alat[c][r]
  BY <1>3, Zenon DEF Own, Covered
<1>5. synced' \in [CPU -> Nat] /\ synced'[c] = op[c].sum
      /\ \A d \in CPU \ {c} : synced'[d] = synced[d]
  BY <1>0, <1>1, <1>2, ZenonT(60) DEF Types
<1>6. /\ alat' \in [CPU -> [Reg -> LoadAccess \union {{}}]]
      /\ \A d \in CPU \ {c} : alat'[d] = alat[d]
      /\ \A r \in Reg : alat'[c][r] =
             IF Synced(c) /\ alat[c][r] \cap op[c].access = {} THEN alat[c][r] ELSE {}
  BY <1>0, <1>1, Zenon DEF Types
<1>7. Types' /\ op'[c] = Idle /\ \A d \in CPU \ {c} : op'[d] = op[d]
  <2>1. loaded' \in [CPU -> [Reg -> [Byte -> Nat]]]
    BY <1>0, <1>1, Zenon DEF Types
  <2> QED
    BY <1>0, <1>1, <1>5, <1>6, <2>1, LocalTypes, ZenonT(60)
<1>8. Local(c)
  BY <1>0, <1>5, <1>6, <1>7, ZenonT(60) DEF Local
<1>9. /\ Total' = Total /\ Dirty(c)' = Dirty(c) /\ ram' = ram /\ sequence' = sequence
  BY <1>8, LocalSame
<1>10. ~Odd(sequence'[c]) /\ synced'[c] <= Total'
  BY <1>0, <1>1, <1>2, <1>5, <1>9, NoScope, Zenon
<1>11. Cardinality(Entries(c)') <= Slots
  BY <1>1, <1>6, ShrinkEntries, Zenon
<1>12. Own(c)' = 0 /\ \A r \in Reg : Covered(c, r)' = alat'[c][r]
  BY <1>7, IdleNext
<1>13. Coherent(c)'
  <2>1. CASE Synced(c) => Current(c)
    <3>1. ASSUME NEW r \in Reg, NEW b \in alat'[c][r] PROVE loaded'[c][r][b] = ram'[b]
      <4>1. Synced(c) /\ b \in alat[c][r] /\ b \notin op[c].access
        BY <1>6, Zenon
      <4>2. loaded[c][r][b] = ram[b]
        BY <1>4, <2>1, <4>1, Zenon DEF Current
      <4> QED
        BY <1>0, <1>9, <4>2, Zenon
    <3>2. Current(c)'
      BY <1>12, <3>1, Zenon DEF Current
    <3> QED
      BY <3>2 DEF Coherent
  <2>2. CASE Synced(c) /\ ~Current(c)
    BY <1>1, <1>4, <1>5, <1>9, <1>12, <2>2, ZenonT(60) DEF Coherent, Synced
  <2> QED
    BY <2>1, <2>2
<1>14. Good(c)'
  BY <1>7, <1>10, <1>11, <1>13, IdleGood, Zenon
<1> QED
  BY <1>0, <1>7, <1>8, <1>14, LocalPreserves, Zenon

-----------------------------------------------------------------------------
(* The steps of a sample.                                                  *)

\* What a sample that is under way knows.
LEMMA SamplerFacts ==
    ASSUME IInv, NEW c \in CPU, op[c].at \in Samplers
    PROVE  /\ op[c] \in Ops /\ Stage(c) = op[c].then /\ Stage(c) \in Opening \union Closing
           /\ op[c].closing <=> Stage(c) \in Closing
           /\ Own(c) \in {0, 2} /\ op[c].at \notin {"write", "finish"}
<1>1. Types /\ Shape(c)
  BY GoodFacts, Zenon
<1>2. op[c] \in Ops
  BY <1>1, Running, Zenon DEF Samplers
<1>3. Stage(c) = op[c].then /\ op[c].then \in Opening \union Closing \union {"synced"}
  BY <1>2, OpsFields, ZenonT(60) DEF Stage
<1>4. Stage(c) # "synced" /\ (op[c].closing <=> Stage(c) \in Closing)
  BY <1>1 DEF Shape
<1>5. Own(c) \in {0, 2}
  BY <1>3, Zenon DEF Own, Opening, Closing
<1> QED
  BY <1>2, <1>3, <1>4, <1>5, Zenon DEF Samplers

Keeps(c) ==
    /\ op[c].at \in Samplers
    /\ alat' = alat /\ synced' = synced /\ loaded' = loaded
    /\ op'[c].expected = op[c].expected /\ op'[c].reg = op[c].reg
    /\ op'[c].access = op[c].access /\ op'[c].floor = op[c].floor
    /\ op'[c].then = op[c].then /\ op'[c].closing = op[c].closing
    /\ \/ op'[c].at \in {"sequence", "again", "after"}
       \/ op'[c].at = "before" /\ op[c].closing
       \/ op'[c].at = op[c].then

LEMMA KeepsGood ==
    ASSUME IInv, NEW c \in CPU, Local(c), Types', Keeps(c),
           op'[c].at \in {"again", "after"} => op[c].closing,
           op'[c].at = "sequence" => op'[c].sum + Rest(op[c].next)' <= Total',
           op'[c].at \in Opening => op'[c].sum <= Total',
           op'[c].at \in {"sequence", "before", "again"} => op'[c].first <= generation',
           Counts(c)', Late(c) => Caught(c)'
    PROVE  Good(c)'
<1>1. /\ Types /\ Good(c) /\ Shape(c) /\ Coherent(c) /\ Cardinality(Entries(c)) <= Slots
      /\ synced[c] + Own(c) <= Total
  BY GoodFacts, ZenonT(60)
<1>2. /\ Total' = Total /\ Dirty(c)' = Dirty(c) /\ ram' = ram /\ sequence' = sequence
  BY LocalSame, Zenon
<1>3. /\ op[c] \in Ops /\ Stage(c) = op[c].then /\ Stage(c) \in Opening \union Closing
      /\ op[c].closing <=> Stage(c) \in Closing
      /\ op[c].at \notin {"write", "finish"}
  BY SamplerFacts, ZenonT(60) DEF Keeps
<1>4. Stage(c)' = Stage(c)
  <2>1. CASE op'[c].at \in {"sequence", "again", "after", "before"}
    BY <1>3, <2>1, ZenonT(60) DEF Keeps, Stage, Samplers
  <2>2. CASE op'[c].at = op[c].then
    <3>1. op'[c].at \notin Samplers
      BY <1>3, <2>2, ZenonT(60) DEF Samplers, Opening, Closing
    <3> QED
      BY <1>3, <2>2, <3>1, ZenonT(60) DEF Stage
  <2> QED
    BY <2>1, <2>2, ZenonT(60) DEF Keeps
<1>5. op'[c].at \notin {"write", "finish"}
  BY <1>3, Zenon DEF Keeps, Opening, Closing
<1>6. Own(c)' = Own(c) /\ Entries(c)' = Entries(c)
      /\ \A r \in Reg : Covered(c, r)' = Covered(c, r)
  BY <1>4, Zenon DEF Own, Entries, Covered, Keeps
<1>7. Storing(c) => Storing(c)'
  <2>1. Stage(c) # "finish"
    BY <1>3, Zenon DEF Opening, Closing
  <2> QED
    BY <1>4, <2>1, Zenon DEF Storing
<1>8. Coherent(c)'
  <2>1. synced[c] + Own(c) < Total => synced'[c] + Own(c)' < Total'
    BY <1>2, <1>6, ZenonT(60) DEF Keeps
  <2>2. op'[c].access = op[c].access /\ loaded'[c] = loaded[c]
    BY ZenonT(60) DEF Keeps
  <2> QED
    BY <1>1, <1>2, <1>6, <1>7, <2>1, <2>2, ShrinkCoherent, ZenonT(60)
<1>9. Late(c)' => Caught(c)'
  <2>1. Late(c)' => Late(c)
    BY <1>4, ZenonT(60) DEF Late, Keeps
  <2> QED
    BY <2>1
<1>10. Behind(c)'
  BY <1>1, <1>2, <1>6, Zenon DEF Behind, Keeps
<1>11. Shape(c)'
  <2>1. op'[c].at \in {"before", "again", "after"} => Stage(c)' \in Closing
    BY <1>3, <1>4, ZenonT(60) DEF Keeps, Opening, Closing
  <2>2. op'[c].at \in Samplers =>
           (op'[c].closing <=> Stage(c)' \in Closing) /\ Stage(c)' # "synced"
    BY <1>3, <1>4, Zenon DEF Keeps, Opening, Closing
  <2>3. ~Odd(sequence'[c])
    BY <1>1, <1>2, <1>3, NoScope, Zenon
  <2>4. /\ Stage(c)' \in {"set", "published", "match", "hit"} => op'[c].expected = synced'[c]
        /\ Stage(c)' \in {"write", "finish", "stored"} => op'[c].expected = synced'[c] + 2
        /\ Stage(c)' = "resampled" => Entries(c)' = {}
        /\ Stage(c)' \in {"load", "set"} => op'[c].access \in LoadAccess
        /\ Stage(c)' \in Checking => \A b \in Byte : op'[c].floor[b] <= ram'[b]
    BY <1>1, <1>2, <1>4, <1>6, ZenonT(60) DEF Shape, Keeps
  <2> QED
    BY <1>1, <1>5, <1>6, <2>1, <2>2, <2>3, <2>4, ZenonT(60) DEF Shape
<1> QED
  BY <1>8, <1>9, <1>10, <1>11, Zenon DEF Good

LEMMA ReadExternalPreserves ==
    ASSUME IInv, NEW c \in CPU, ReadExternal(c)
    PROVE  IInv'
<1>0. op[c].at = "external" /\ op[c].at \in Samplers
  BY DEF ReadExternal, Samplers
<1>1. /\ Types /\ Shape(c) /\ Behind(c) /\ Coherent(c)
      /\ synced[c] <= Total /\ synced[c] \in Nat
  BY GoodFacts
<1>2. op[c] \in Ops
  BY <1>0, SamplerFacts
<1>3. generation \in Nat /\ 0 \in CPU /\ sequence \in [CPU -> Nat]
  BY <1>1, CpuFacts DEF Types
<1> DEFINE o == [op[c] EXCEPT !.at = "sequence", !.first = generation,
                              !.sum = generation, !.next = 0]
<1>4. o \in Ops
  BY <1>2, <1>3, Zenon DEF Ops, Samplers
<1>5. /\ o.at = "sequence" /\ o.first = generation /\ o.sum = generation /\ o.next = 0
      /\ o.expected = op[c].expected /\ o.reg = op[c].reg /\ o.access = op[c].access
      /\ o.floor = op[c].floor /\ o.then = op[c].then /\ o.closing = op[c].closing
  BY <1>2, Zenon DEF Ops
<1>6. Goto(c, o) /\ UNCHANGED <<shared, alat, synced, loaded>>
  BY Zenon DEF ReadExternal
<1> HIDE DEF o
<1>7. /\ Types' /\ op'[c] = o /\ Local(c)
      /\ alat' = alat /\ synced' = synced /\ loaded' = loaded
  BY <1>1, <1>4, <1>6, KeepTypes, Zenon
<1>8. /\ Total' = Total /\ Dirty(c)' = Dirty(c) /\ ram' = ram /\ generation' = generation
      /\ \A n : Rest(n)' = Rest(n)
  BY <1>7, LocalSame
<1>9. Keeps(c)
  BY <1>0, <1>5, <1>7, ZenonT(60) DEF Keeps
<1>10. Total = generation + Rest(0) /\ Rest(0) \in Int /\ Total \in Nat
  BY <1>3, TotalFacts, CpuFacts
<1>11. op'[c].at = "sequence" /\ op'[c].sum = generation /\ op'[c].first = generation
       /\ op'[c].next = 0 /\ op'[c].expected = op[c].expected
       /\ op'[c].then = op[c].then
  BY <1>5, <1>7, Zenon
<1>12. Rest(op[c].next)' = Rest(0)
  <2>1. PICK n : n = op'[c].next
    BY Zenon
  <2>2. Rest(n)' = Rest(n) /\ n = 0
    BY <1>8, <1>11, <2>1, Zenon
  <2> QED
    BY <2>1, <2>2
<1>13. Stage(c)' = Stage(c)
  BY <1>0, <1>11, Zenon DEF Stage, Samplers
<1>14. Counts(c)'
  <2> SUFFICES ASSUME Stage(c) \in {"match", "hit"}
               PROVE  op'[c].expected <= op'[c].sum + Rest(op[c].next)'
    BY <1>13, Zenon DEF Counts
  <2>1. op[c].expected = synced[c]
    BY <1>1, Zenon DEF Shape
  <2> QED
    BY <1>1, <1>10, <1>11, <1>12, <2>1, Zenon
<1>15. Late(c) => Caught(c)'
  <2> SUFFICES ASSUME Late(c) PROVE Caught(c)'
    BY Zenon
  <2>1. Stage(c) \in {"match", "hit"}
    BY Zenon DEF Late
  <2>2. Own(c) = 0 /\ ~Storing(c) /\ op[c].expected = synced[c] /\ op[c].reg \in Reg
    BY <1>1, <1>2, <2>1, OpsFields, ZenonT(60) DEF Own, Storing, Shape
  <2>3. ~Current(c)
    <3>1. PICK b \in alat[c][op[c].reg] : loaded[c][op[c].reg][b] < op[c].floor[b]
      BY DEF Late
    <3>2. b \in Byte
      <4>1. alat[c][op[c].reg] \in LoadAccess \union {{}}
        BY <1>1, <2>2, SMTT(40) DEF Types
      <4> QED
        BY <4>1, AccessAssumption, Zenon
    <3>3. op[c].floor[b] <= ram[b]
      BY <1>1, <2>1, <3>2, ZenonT(60) DEF Shape, Checking
    <3>4. op[c].floor[b] \in Nat /\ ram[b] \in Nat /\ loaded[c][op[c].reg][b] \in Nat
      <4>1. op[c].floor \in [Byte -> Nat]
        BY <1>2, OpsFields
      <4> QED
        BY <1>1, <2>2, <3>2, <4>1, SMTT(40) DEF Types
    <3>5. loaded[c][op[c].reg][b] # ram[b]
      BY <3>1, <3>3, <3>4
    <3>6. b \in Covered(c, op[c].reg)
      BY <2>1, Zenon DEF Covered
    <3> QED
      BY <2>2, <3>5, <3>6, Zenon DEF Current
  <2>4. CASE synced[c] + Own(c) < Total
    <3>1. op'[c].expected < op'[c].sum + Rest(op[c].next)'
      BY <1>1, <1>10, <1>11, <1>12, <2>2, <2>4, SMTT(40)
    <3> QED
      BY <1>11, <3>1, Zenon DEF Caught
  <2>5. CASE \E d \in CPU \ {c} : Written(d)
    <3>1. PICK d \in CPU \ {c} : Written(d)
      BY <2>5, Zenon
    <3>2. Written(d)'
      BY <1>7, <3>1, Zenon DEF Written, Local
    <3>3. d \in op'[c].next .. Last
      BY <1>11, CpuFacts, Zenon
    <3> QED
      BY <1>11, <3>2, <3>3, Zenon DEF Caught
  <2>6. CASE \E v \in External : device[v] = "dirty"
    <3>1. device' = device
      BY <1>7, Zenon DEF Local, shared
    <3> QED
      BY <1>11, <2>6, <3>1, Zenon DEF Caught
  <2> QED
    BY <1>1, <2>3, <2>4, <2>5, <2>6, Zenon DEF Coherent, Dirty
<1>16. op'[c].sum + Rest(op[c].next)' <= Total' /\ op'[c].first <= generation'
  BY <1>3, <1>8, <1>10, <1>11, <1>12, SMTT(40)
<1>17. Good(c)'
  BY <1>7, <1>9, <1>11, <1>14, <1>15, <1>16, KeepsGood, ZenonT(60) DEF Opening
<1> QED
  BY <1>0, <1>7, <1>17, LocalPreserves

LEMMA ReadSequencePreserves ==
    ASSUME IInv, NEW c \in CPU, ReadSequence(c)
    PROVE  IInv'
<1>0. op[c].at = "sequence" /\ op[c].at \in Samplers
  BY DEF ReadSequence, Samplers
<1>1. /\ Types /\ Good(c) /\ Shape(c) /\ Behind(c)
  BY GoodFacts, Zenon
<1>2. /\ op[c] \in Ops /\ Stage(c) = op[c].then /\ Stage(c) \in Opening \union Closing
      /\ op[c].closing <=> Stage(c) \in Closing
  BY <1>0, SamplerFacts, Zenon
<1>3. /\ op[c].sum \in Nat /\ op[c].expected \in Nat /\ op[c].first \in Nat
      /\ op[c].next \in CPU /\ op[c].closing \in BOOLEAN /\ op[c].changed \in BOOLEAN
  BY <1>2, OpsFields, Zenon
<1>4. sequence \in [CPU -> Nat] /\ generation \in Nat
  BY <1>1 DEF Types
<1>5. PICK n \in CPU : n = op[c].next
  BY <1>3
<1>6. PICK q \in Nat : q = op[c].sum + sequence[n]
  BY <1>3, <1>4
<1> DEFINE changed == op[c].closing /\ (op[c].changed \/ Odd(sequence[n]))
           differs == changed \/ q # op[c].expected
           at == IF n # Last THEN "sequence"
                 ELSE IF op[c].closing /\ ~differs THEN "before" ELSE op[c].then
           next == IF n # Last THEN n + 1 ELSE 0
           found == IF n # Last THEN changed ELSE op[c].closing /\ differs
           o == [op[c] EXCEPT !.at = at, !.sum = q, !.next = next, !.changed = found]
<1>7. Goto(c, o) /\ UNCHANGED <<shared, alat, synced, loaded>>
  BY <1>5, <1>6, Zenon DEF ReadSequence
<1>8. next \in CPU /\ changed \in BOOLEAN /\ found \in BOOLEAN /\ differs \in BOOLEAN
  BY <1>3, CpuFacts, SMTT(40)
<1>9. at \in Samplers \union Opening \union Closing
      /\ (at = "sequence" \/ (at = "before" /\ op[c].closing) \/ at = op[c].then)
  BY <1>2, Zenon DEF Samplers
<1>10. /\ n # Last => at = "sequence" /\ next = n + 1 /\ found = changed
       /\ n = Last /\ op[c].closing /\ ~differs => at = "before" /\ found = FALSE
       /\ n = Last /\ ~(op[c].closing /\ ~differs) =>
              at = op[c].then /\ (op[c].closing => found = TRUE)
  BY <1>3, ZenonT(60)
<1>11. /\ op[c].closing /\ (op[c].changed \/ Odd(sequence[n])) => changed = TRUE
       /\ op[c].closing /\ changed = TRUE => differs
       /\ q # op[c].expected => differs
  BY <1>3, Zenon
<1> HIDE DEF changed, differs, at, next, found
<1>12. o \in Ops
  BY <1>2, <1>8, <1>9, Zenon DEF Ops
<1>13. /\ o.at = at /\ o.sum = q /\ o.next = next /\ o.changed = found
       /\ o.expected = op[c].expected /\ o.reg = op[c].reg /\ o.access = op[c].access
       /\ o.floor = op[c].floor /\ o.then = op[c].then /\ o.closing = op[c].closing
       /\ o.first = op[c].first
  BY <1>2, Zenon DEF Ops
<1> HIDE DEF o
<1>14. /\ Types' /\ op'[c] = o /\ Local(c)
       /\ alat' = alat /\ synced' = synced /\ loaded' = loaded
  BY <1>1, <1>7, <1>12, KeepTypes, Zenon
<1>15. /\ Total' = Total /\ generation' = generation /\ \A k : Rest(k)' = Rest(k)
  BY <1>14, LocalSame
<1>16. Keeps(c)
  BY <1>0, <1>9, <1>13, <1>14, ZenonT(60) DEF Keeps
<1>17. /\ Rest(n) = sequence[n] + Rest(n + 1) /\ Rest(n + 1) \in Int /\ Rest(n) \in Int
       /\ Total \in Nat /\ (n = Last => Rest(n + 1) = 0)
  <2>1. n \in 0 .. Count /\ n + 1 \in 0 .. Count /\ (n = Last => n + 1 = Count)
    BY CpuFacts, SMTT(40)
  <2> QED
    BY <1>4, <2>1, TotalFacts
<1>18. op[c].sum + Rest(n) = q + Rest(n + 1)
  BY <1>3, <1>4, <1>6, <1>17, SMTT(40)
<1>19. n # Last => Rest(op[c].next)' = Rest(n + 1)
  <2>1. PICK k : k = op'[c].next
    BY Zenon
  <2>2. Rest(k)' = Rest(k) /\ (n # Last => k = n + 1)
    BY <1>10, <1>13, <1>14, <1>15, <2>1, Zenon
  <2> QED
    BY <2>1, <2>2
<1>20. /\ op'[c].at = at /\ op'[c].sum = q /\ op'[c].changed = found /\ op'[c].next = next
       /\ op'[c].expected = op[c].expected /\ op'[c].first = op[c].first
  BY <1>13, <1>14, Zenon
<1>21. op[c].sum + Rest(n) <= Total /\ op[c].first <= generation
  BY <1>0, <1>1, <1>5, Zenon DEF Behind
<1>22. at = "sequence" => n # Last
  BY <1>2, <1>10, Zenon DEF Opening, Closing
<1>23. op'[c].at = "sequence" => op'[c].sum + Rest(op[c].next)' <= Total'
  BY <1>15, <1>18, <1>19, <1>20, <1>21, <1>22, ZenonT(60)
<1>24. op'[c].at \in Opening => op'[c].sum <= Total'
  <2> SUFFICES ASSUME at \in Opening PROVE q <= Total
    BY <1>15, <1>20, Zenon
  <2>1. n = Last
    BY <1>10, Zenon DEF Opening
  <2> QED
    BY <1>17, <1>18, <1>21, <2>1, SMTT(40)
<1>25. Stage(c)' = Stage(c)
  <2>1. CASE at = op[c].then
    BY <1>2, <1>20, <2>1, Zenon DEF Stage, Samplers, Opening, Closing
  <2>2. CASE at \in {"sequence", "before"}
    <3>1. op'[c].then = op[c].then
      BY <1>13, <1>14, ZenonT(60)
    <3> QED
      BY <1>2, <1>20, <2>2, <3>1 DEF Stage, Samplers
  <2> QED
    BY <1>9, <2>1, <2>2, Zenon
<1>26. Counts(c)'
  <2> SUFFICES ASSUME Stage(c) \in {"match", "hit"}, at = "sequence"
               PROVE  op'[c].expected <= op'[c].sum + Rest(op[c].next)'
    BY <1>20, <1>25, Zenon DEF Counts
  <2>1. op[c].expected <= op[c].sum + Rest(n)
    BY <1>0, <1>1, <1>5, Zenon DEF Good, Counts
  <2> QED
    BY <1>18, <1>19, <1>20, <1>22, <2>1, Zenon
<1>27. Late(c) => Caught(c)'
  <2> SUFFICES ASSUME Late(c) PROVE Caught(c)'
    BY Zenon
  <2>1. Stage(c) \in {"match", "hit"} /\ op[c].closing
        /\ op[c].then \notin {"external", "sequence", "before", "again"}
    BY <1>2, ZenonT(60) DEF Late, Closing
  <2>2. CASE op[c].changed \/ Odd(sequence[n])
    <3>1. changed = TRUE /\ differs
      BY <1>11, <2>1, <2>2, Zenon
    <3>2. at = "sequence" \/ at = op[c].then
      BY <1>10, <3>1, Zenon
    <3>3. found = TRUE
      BY <1>10, <2>1, <3>1, ZenonT(60)
    <3> QED
      BY <1>20, <2>1, <3>2, <3>3, Zenon DEF Caught
  <2>3. CASE op[c].expected < op[c].sum + Rest(n)
    <3>1. CASE n # Last
      <4>1. op'[c].expected < op'[c].sum + Rest(op[c].next)'
        BY <1>18, <1>19, <1>20, <2>3, <3>1, Zenon
      <4> QED
        BY <1>10, <1>20, <3>1, <4>1 DEF Caught
    <3>2. CASE n = Last
      <4>1. q # op[c].expected
        BY <1>3, <1>17, <1>18, <2>3, <3>2, SMTT(40)
      <4> QED
        BY <1>10, <1>11, <1>20, <2>1, <3>2, <4>1, Zenon DEF Caught
    <3> QED
      BY <3>1, <3>2
  <2>4. CASE \E d \in n .. Last : Written(d)
    <3>1. PICK d \in n .. Last : Written(d)
      BY <2>4
    <3>2. d \in CPU /\ n \in 0 .. Last
      BY CpuFacts
    <3>3. CASE d = n
      <4>1. Shape(d)
        BY <3>2, Zenon DEF IInv, Good
      <4>2. Odd(sequence[n])
        BY <3>1, <3>3, <4>1, Zenon DEF Shape, Written
      <4> QED
        BY <2>2, <4>2
    <3>4. CASE d # n
      <4>1. n # Last /\ d \in n + 1 .. Last
        BY <3>2, <3>4, CpuFacts, SMTT(40)
      <4>2. d # c
        BY <1>0, <3>1, Zenon DEF Written
      <4>3. Written(d)'
        BY <1>14, <3>1, <3>2, <4>2, Zenon DEF Written, Local
      <4>4. at = "sequence" /\ d \in op'[c].next .. Last
        BY <1>10, <1>20, <4>1, Zenon
      <4> QED
        BY <1>20, <4>3, <4>4, Zenon DEF Caught
    <3> QED
      BY <3>3, <3>4
  <2>5. CASE (\E v \in External : device[v] = "dirty") \/ op[c].first < generation
    <3>1. (\E v \in External : device'[v] = "dirty") \/ op'[c].first < generation'
      <4>1. device' = device
        BY <1>14, Zenon DEF Local, shared
      <4> QED
        BY <1>15, <1>20, <2>5, <4>1, ZenonT(60)
    <3>2. CASE at \in {"sequence", "before"}
      BY <1>20, <3>1, <3>2, Zenon DEF Caught
    <3>3. CASE at = op[c].then
      <4>1. found = TRUE
        BY <1>10, <2>1, <3>3, Zenon
      <4> QED
        BY <1>20, <2>1, <3>3, <4>1, Zenon DEF Caught
    <3> QED
      BY <1>9, <3>2, <3>3, Zenon
  <2>6. Caught(c)
    BY <1>1, Zenon DEF Good
  <2> QED
    BY <1>0, <1>5, <2>2, <2>3, <2>4, <2>5, <2>6, ZenonT(60) DEF Caught
<1>28. op'[c].first <= generation'
  BY <1>15, <1>20, <1>21, Zenon
<1>29. op'[c].at \notin {"again", "after"}
  BY <1>2, <1>9, <1>20, Zenon DEF Opening, Closing
<1>30. Good(c)'
  BY <1>14, <1>16, <1>23, <1>24, <1>26, <1>27, <1>28, <1>29, KeepsGood, ZenonT(60)
<1> QED
  BY <1>0, <1>14, <1>30, LocalPreserves, Zenon

\* A device that has stored is counted.
LEMMA DirtyCounted ==
    ASSUME Types, \E v \in External : device[v] # "closed"
    PROVE  writers # 0
<1> DEFINE S == {d \in External : device[d] # "closed"}
<1>1. S \in SUBSET External
  OBVIOUS
<1>2. IsFiniteSet(S)
  BY <1>1, FS_Subset, ExternalAssumption, Zenon
<1>3. S # {}
  OBVIOUS
<1>4. Cardinality(S) # 0
  BY <1>2, <1>3, FS_EmptySet, ZenonT(60)
<1> QED
  BY <1>4 DEF Types

LEMMA ReadWritersPreserves ==
    ASSUME IInv, NEW c \in CPU, ReadWriters(c)
    PROVE  IInv'
<1>0. op[c].at \in {"before", "after"} /\ op[c].at \in Samplers
  BY Zenon DEF ReadWriters, Samplers
<1>1. /\ Types /\ Good(c) /\ Shape(c) /\ Behind(c)
  BY GoodFacts
<1>2. /\ op[c] \in Ops /\ Stage(c) = op[c].then /\ Stage(c) \in Closing /\ op[c].closing
  BY <1>0, <1>1, SamplerFacts, ZenonT(60) DEF Shape
<1>3. op[c].closing \in BOOLEAN /\ op[c].changed \in BOOLEAN
  BY <1>2, OpsFields
<1> DEFINE at == IF op[c].at = "before" THEN "again" ELSE op[c].then
           changed == op[c].changed \/ writers # 0
           o == [op[c] EXCEPT !.at = at, !.changed = changed]
<1>4. Goto(c, o) /\ UNCHANGED <<shared, alat, synced, loaded>>
  BY Zenon DEF ReadWriters
<1>5. changed \in BOOLEAN /\ at \in Samplers \union Opening \union Closing
      /\ (at = "again" \/ at = op[c].then) /\ at \notin {"sequence", "before", "after", "external"}
      /\ at \notin Opening
      /\ (at = "again" <=> op[c].at = "before")
  BY <1>0, <1>2, <1>3, Zenon DEF Samplers, Opening, Closing
<1>6. changed <=> (op[c].changed \/ writers # 0)
  BY <1>3
<1> HIDE DEF at, changed
<1>7. o \in Ops
  BY <1>2, <1>5, Zenon DEF Ops
<1>8. /\ o.at = at /\ o.changed = changed /\ o.first = op[c].first
      /\ o.expected = op[c].expected /\ o.reg = op[c].reg /\ o.access = op[c].access
      /\ o.floor = op[c].floor /\ o.then = op[c].then /\ o.closing = op[c].closing
  BY <1>2, Zenon DEF Ops
<1> HIDE DEF o
<1>9. /\ Types' /\ op'[c] = o /\ Local(c)
      /\ alat' = alat /\ synced' = synced /\ loaded' = loaded
  BY <1>1, <1>4, <1>7, KeepTypes
<1>10. Keeps(c)
  BY <1>0, <1>5, <1>8, <1>9, ZenonT(60) DEF Keeps
<1>11. op'[c].at = at /\ op'[c].changed = changed /\ op'[c].first = op[c].first
       /\ generation' = generation
  BY <1>8, <1>9, LocalSame, Zenon
<1>12. Counts(c)'
  BY <1>5, <1>11, Zenon DEF Counts
<1>13. op'[c].at \in {"sequence", "before", "again"} => op'[c].first <= generation'
  BY <1>1, <1>5, <1>11, ZenonT(60) DEF Behind
<1>14. Late(c) => Caught(c)'
  <2> SUFFICES ASSUME Late(c) PROVE Caught(c)'
    OBVIOUS
  <2>1. Caught(c)
    BY <1>1, Zenon DEF Good
  <2>2. CASE op[c].at = "before"
    <3>1. op[c].changed \/ op[c].first < generation
             \/ \E v \in External : device[v] = "dirty"
      BY <2>1, <2>2, Zenon DEF Caught
    <3>2. (\E v \in External : device[v] = "dirty") => writers # 0
      BY <1>1, DirtyCounted, Zenon
    <3> QED
      BY <1>5, <1>6, <1>11, <2>2, <3>1, <3>2, Zenon DEF Caught
  <2>3. CASE op[c].at = "after"
    <3>1. op[c].changed
      BY <2>1, <2>3, ZenonT(60) DEF Caught
    <3> QED
      BY <1>5, <1>6, <1>11, <2>3, <3>1, Zenon DEF Caught
  <2> QED
    BY <1>0, <2>2, <2>3
<1>15. Good(c)'
  BY <1>2, <1>5, <1>9, <1>10, <1>11, <1>12, <1>13, <1>14, KeepsGood, ZenonT(60)
<1> QED
  BY <1>0, <1>9, <1>15, LocalPreserves

LEMMA ReadAgainPreserves ==
    ASSUME IInv, NEW c \in CPU, ReadAgain(c)
    PROVE  IInv'
<1>0. op[c].at = "again" /\ op[c].at \in Samplers
  BY Zenon DEF ReadAgain, Samplers
<1>1. /\ Types /\ Good(c) /\ Shape(c) /\ generation \in Nat
  BY GoodFacts, ZenonT(60) DEF Types
<1>2. /\ op[c] \in Ops /\ Stage(c) \in Closing /\ op[c].closing
  BY <1>0, <1>1, SamplerFacts, Zenon DEF Shape
<1>3. op[c].changed \in BOOLEAN /\ op[c].first \in Nat
  BY <1>2, OpsFields
<1> DEFINE changed == op[c].changed \/ generation # op[c].first
           o == [op[c] EXCEPT !.at = "after", !.changed = changed]
<1>4. Goto(c, o) /\ UNCHANGED <<shared, alat, synced, loaded>>
  BY Zenon DEF ReadAgain
<1>5. changed \in BOOLEAN /\ (changed <=> (op[c].changed \/ generation # op[c].first))
  BY <1>3
<1> HIDE DEF changed
<1>6. o \in Ops
  BY <1>2, <1>5, Zenon DEF Ops, Samplers
<1>7. /\ o.at = "after" /\ o.changed = changed
      /\ o.expected = op[c].expected /\ o.reg = op[c].reg /\ o.access = op[c].access
      /\ o.floor = op[c].floor /\ o.then = op[c].then /\ o.closing = op[c].closing
  BY <1>2, Zenon DEF Ops
<1> HIDE DEF o
<1>8. /\ Types' /\ op'[c] = o /\ Local(c)
      /\ alat' = alat /\ synced' = synced /\ loaded' = loaded
  BY <1>1, <1>4, <1>6, KeepTypes
<1>9. Keeps(c)
  BY <1>0, <1>7, <1>8, ZenonT(60) DEF Keeps
<1>10. op'[c].at = "after" /\ op'[c].changed = changed
  BY <1>7, <1>8, Zenon
<1>11. Counts(c)'
  BY <1>10, Zenon DEF Counts
<1>12. Late(c) => Caught(c)'
  <2> SUFFICES ASSUME Late(c) PROVE Caught(c)'
    OBVIOUS
  <2>1. op[c].changed \/ op[c].first < generation
    BY <1>0, <1>1, Zenon DEF Good, Caught
  <2>2. changed
    BY <1>1, <1>3, <1>5, <2>1, SMTT(40)
  <2> QED
    BY <1>10, <2>2, Zenon DEF Caught
<1>13. Good(c)'
  BY <1>2, <1>8, <1>9, <1>10, <1>11, <1>12, KeepsGood, ZenonT(60) DEF Opening
<1> QED
  BY <1>0, <1>8, <1>13, LocalPreserves, Zenon

-----------------------------------------------------------------------------
(* The steps of a store.                                                   *)

\* How a store's two sequence steps move a CPU's sample against the total.
LEMMA ScopeArithmetic ==
    ASSUME NEW s \in Nat, NEW t \in Nat
    PROVE  /\ s + 0 < t => s + 1 < t + 1
           /\ s + 1 < t => (s + 2) + 0 < t + 1 /\ s + 2 < t + 1
           /\ s <= t => s + 1 <= t + 1 /\ s <= t + 1
           /\ s + 1 <= t => s + 2 <= t + 1 /\ s <= t + 1
OBVIOUS

\* What a bump of one processor's sequence does to the sums of the sequences.
LEMMA BumpTotal ==
    ASSUME Types, NEW c \in CPU, sequence' = [sequence EXCEPT ![c] = @ + 1],
           generation' = generation
    PROVE  /\ sequence' \in [CPU -> Nat] /\ sequence'[c] = sequence[c] + 1
           /\ \A d \in CPU \ {c} : sequence'[d] = sequence[d]
           /\ Total \in Nat /\ Total' = Total + 1
           /\ \A n \in 0 .. Count : /\ Rest(n)' = Rest(n) + (IF n <= c THEN 1 ELSE 0)
                                    /\ Rest(n) \in Int
<1>1. sequence \in [CPU -> Nat] /\ generation \in Nat
  BY DEF Types
<1>2. /\ sequence' \in [CPU -> Nat] /\ sequence'[c] = sequence[c] + 1
      /\ \A d \in CPU \ {c} : sequence'[d] = sequence[d]
  BY <1>1
<1>3. Total \in Nat /\ \A n \in 0 .. Count : Rest(n) \in Int
  BY <1>1, TotalFacts
<1> DEFINE g == sequence'
<1>4. g = [sequence EXCEPT ![c] = sequence[c] + 1]
  BY <1>1, Zenon
<1> HIDE DEF g
<1>5. /\ SumTo(g)[Count] = SumTo(sequence)[Count] + 1
      /\ \A n \in 0 .. Count :
             RestOf(g, n) = RestOf(sequence, n) + (IF n <= c THEN 1 ELSE 0)
  BY <1>1, <1>4, RestBump, Zenon
<1>6. SumTo(sequence)[Count] \in Nat
  BY <1>1, RestFacts
<1>7. Total' = Total + 1
  BY <1>1, <1>5, <1>6 DEF Total, g
<1>8. \A n \in 0 .. Count : Rest(n)' = Rest(n) + (IF n <= c THEN 1 ELSE 0)
  BY <1>5, ZenonT(60) DEF Rest, g
<1> QED
  BY <1>2, <1>3, <1>7, <1>8, Zenon

LEMMA ParityFlips ==
    ASSUME NEW n \in Nat
    PROVE  Odd(n + 1) <=> ~Odd(n)
BY DEF Odd

LEMMA ScopeGood ==
    ASSUME NEW c \in CPU, Types', op'[c].at \in {"write", "finish"}, Odd(sequence'[c]),
           op'[c].expected = synced'[c] + 2, Cardinality(Entries(c)') <= Slots,
           synced'[c] + 1 <= Total', Coherent(c)'
    PROVE  Good(c)'
<1>1. Stage(c)' = op'[c].at
  BY Zenon DEF Stage, Samplers
<1>2. Own(c)' = 1
  BY <1>1, Zenon DEF Own
<1>3. Shape(c)'
  BY <1>1, ZenonT(60) DEF Shape, Samplers, Checking
<1>4. Behind(c)'
  BY <1>2, Zenon DEF Behind, Opening
<1>5. Counts(c)' /\ ~Late(c)'
  BY <1>1 DEF Counts, Late
<1> QED
  BY <1>3, <1>4, <1>5 DEF Good

\* A bump of a sequence shows to every other processor.
LEMMA BumpForeign ==
    ASSUME IInv, NEW c \in CPU, NEW d \in CPU \ {c},
           sequence' = [sequence EXCEPT ![c] = @ + 1],
           ram' = ram, generation' = generation, device' = device,
           \A e \in CPU \ {c} : op'[e] = op[e],
           alat'[d] = alat[d], synced'[d] = synced[d], loaded'[d] = loaded[d]
    PROVE  Foreign(d)
<1>1. Types
  BY Zenon DEF IInv
<1>2. /\ \A e \in CPU \ {c} : sequence'[e] = sequence[e]
      /\ Total \in Nat /\ Total' = Total + 1
      /\ \A n \in 0 .. Count : /\ Rest(n)' = Rest(n) + (IF n <= c THEN 1 ELSE 0)
                               /\ Rest(n) \in Int
  BY <1>1, BumpTotal, ZenonT(60)
<1>3. Total < Total'
  BY <1>2
<1>4. \A n \in 0 .. Count : Rest(n) <= Rest(n)' /\ Rest(n)' - Rest(n) <= Total' - Total
  BY <1>2
<1>5. ASSUME NEW e \in CPU, Written(e)
      PROVE  Written(e)' \/ \A n \in 0 .. e : Rest(n) < Rest(n)'
  <2>1. CASE e = c
    <3>1. ASSUME NEW n \in 0 .. e PROVE Rest(n) < Rest(n)'
      <4>1. n \in 0 .. Count /\ n <= c
        BY <2>1, CpuFacts, SMTT(40)
      <4> QED
        BY <1>2, <4>1, SMTT(40)
    <3> QED
      BY <3>1, Zenon
  <2>2. CASE e # c
    BY <1>5, <2>2, Zenon DEF Written
  <2> QED
    BY <2>1, <2>2, Zenon
<1>6. \A b \in Byte : ram[b] <= ram'[b]
  BY <1>1, SMTT(40) DEF Types
<1>7. generation <= generation'
  BY <1>1 DEF Types
<1> QED
  BY <1>2, <1>3, <1>4, <1>5, <1>6, <1>7, ZenonT(60) DEF Foreign

LEMMA WriteBeginPreserves ==
    ASSUME IInv, NEW c \in CPU, NEW k \in Kind, NEW a \in StoreAccess, WriteBegin(c, k, a)
    PROVE  IInv'
<1>1. /\ Types /\ Good(c) /\ Coherent(c) /\ Cardinality(Entries(c)) <= Slots
      /\ synced[c] \in Nat /\ Total \in Nat /\ synced[c] <= Total
  BY GoodFacts
<1>2. /\ op[c] = Idle /\ sequence' = [sequence EXCEPT ![c] = @ + 1]
      /\ ram' = ram /\ generation' = generation /\ writers' = writers /\ device' = device
      /\ alat' = alat /\ synced' = synced /\ loaded' = loaded
  BY DEF WriteBegin
<1> DEFINE x == synced[c] + 2
           o == [NewOp EXCEPT !.at = "write", !.kind = k, !.access = a, !.expected = x]
<1>3. Goto(c, o)
  BY DEF WriteBegin
<1>4. a \in SUBSET Byte /\ x \in Nat
  BY <1>1, AccessAssumption
<1> HIDE DEF x
<1>5. o \in Ops
  BY <1>4, NewOpDoes, Zenon DEF Ops
<1>6. o.at = "write" /\ o.expected = x
  BY NewOpDoes, Zenon DEF Ops
<1> HIDE DEF o
<1>7. /\ sequence' \in [CPU -> Nat] /\ sequence'[c] = sequence[c] + 1
      /\ Total' = Total + 1
  BY <1>1, <1>2, BumpTotal, ZenonT(60)
<1>8. op' \in [CPU -> Ops \union {Idle}] /\ op'[c] = o
      /\ \A d \in CPU \ {c} : op'[d] = op[d]
  BY <1>1, <1>3, <1>5 DEF Types, Goto
<1>9. Types'
  BY <1>1, <1>2, <1>7, <1>8 DEF Types
<1>10. Odd(sequence'[c])
  <2>1. ~Odd(sequence[c])
    BY <1>1, <1>2, IdleFacts, NoScope, ZenonT(60)
  <2>2. sequence[c] \in Nat
    BY <1>1, Zenon DEF Types
  <2> QED
    BY <1>7, <2>1, <2>2, ParityFlips, Zenon
<1>11. op'[c].at = "write" /\ op'[c].expected = synced'[c] + 2
  BY <1>2, <1>6, <1>8, ZenonT(60) DEF x
<1>12. Stage(c)' = "write" /\ Stage(c) = "idle" /\ Own(c) = 0 /\ ~Storing(c)
  BY <1>2, <1>11, IdleFacts, Zenon DEF Stage, Samplers
<1>13. Own(c)' = 1 /\ \A r \in Reg : Covered(c, r)' = Covered(c, r)
  BY <1>2, <1>12, Zenon DEF Own, Covered
<1>14. Coherent(c)'
  <2>1. Dirty(c) => Dirty(c)'
    BY <1>2, <1>8, ZenonT(60) DEF Dirty, Written
  <2>2. synced[c] + Own(c) < Total => synced'[c] + Own(c)' < Total'
    <3>1. synced'[c] = synced[c] /\ Own(c) = 0
      BY <1>2, <1>12, Zenon
    <3> QED
      BY <1>1, <1>7, <1>13, <3>1, ScopeArithmetic, Zenon
  <2> QED
    BY <1>1, <1>2, <1>12, <1>13, <2>1, <2>2, ShrinkCoherent, ZenonT(60)
<1>15. synced'[c] + 1 <= Total' /\ Cardinality(Entries(c)') <= Slots
  <2>1. synced'[c] = synced[c] /\ Entries(c)' = Entries(c)
    BY <1>2, Zenon DEF Entries
  <2> QED
    BY <1>1, <1>7, <2>1, ScopeArithmetic, Zenon
<1>16. Good(c)'
  BY <1>9, <1>10, <1>11, <1>14, <1>15, ScopeGood
<1>17. ASSUME NEW d \in CPU \ {c} PROVE Good(d)'
  <2>1. Foreign(d)
    BY <1>2, <1>8, BumpForeign, Zenon
  <2> QED
    BY <1>9, <2>1, ForeignGood DEF IInv
<1> QED
  BY <1>9, <1>16, <1>17 DEF IInv

\* A store makes new versions of its bytes and leaves the others alone.
LEMMA BumpDoes ==
    ASSUME ram \in [Byte -> Nat], NEW a, Bump(a)
    PROVE  /\ ram' \in [Byte -> Nat]
           /\ \A b \in Byte : ram[b] <= ram'[b] /\ (b \notin a => ram'[b] = ram[b])
<1>1. ram' = [b \in Byte |-> ram[b] + (IF b \in a THEN 1 ELSE 0)]
  BY DEF Bump
<1> QED
  BY <1>1

LEMMA WriteRamPreserves ==
    ASSUME IInv, NEW c \in CPU, WriteRam(c)
    PROVE  IInv'
<1>0. op[c].at = "write"
  BY Zenon DEF WriteRam
<1>1. /\ Types /\ Good(c) /\ Shape(c) /\ Coherent(c) /\ Cardinality(Entries(c)) <= Slots
      /\ synced[c] + Own(c) <= Total /\ op[c] \in Ops /\ ram \in [Byte -> Nat]
      /\ Total \in Nat
  BY <1>0, GoodFacts, Running, ZenonT(60) DEF Types
<1>2. /\ sequence' = sequence /\ generation' = generation /\ writers' = writers
      /\ device' = device /\ alat' = alat /\ synced' = synced /\ loaded' = loaded
  BY DEF WriteRam
<1> DEFINE o == [op[c] EXCEPT !.at = "finish"]
<1>3. Goto(c, o)
  BY DEF WriteRam
<1>4. o \in Ops
  BY <1>1, Zenon DEF Ops
<1>5. o.at = "finish" /\ o.kind = op[c].kind /\ o.access = op[c].access
      /\ o.expected = op[c].expected
  BY <1>1, Zenon DEF Ops
<1> HIDE DEF o
<1>6. op' \in [CPU -> Ops \union {Idle}] /\ op'[c] = o
      /\ \A d \in CPU \ {c} : op'[d] = op[d]
  BY <1>1, <1>3, <1>4 DEF Types, Goto
<1>7. ram' = ram \/ (Bump(op[c].access) /\ op[c].kind # "unequal")
  BY Zenon DEF WriteRam
<1>8. /\ ram' \in [Byte -> Nat]
      /\ \A b \in Byte : ram[b] <= ram'[b] /\ (b \notin op[c].access => ram'[b] = ram[b])
  <2>1. CASE ram' = ram
    BY <1>1, <2>1, SMTT(40)
  <2>2. CASE Bump(op[c].access)
    BY <1>1, <2>2, BumpDoes, Zenon
  <2> QED
    BY <1>7, <2>1, <2>2, Zenon
<1>9. Types'
  BY <1>1, <1>2, <1>6, <1>8, ZenonT(60) DEF Types
<1>10. /\ op'[c].at = "finish" /\ op'[c].kind = op[c].kind /\ op'[c].access = op[c].access
       /\ op'[c].expected = op[c].expected
  BY <1>5, <1>6, Zenon
<1>11. Total' = Total /\ \A n : Rest(n)' = Rest(n)
  BY <1>2, Zenon DEF Total, Rest
<1>12. Stage(c) = "write" /\ Stage(c)' = "finish"
  BY <1>0, <1>10, Zenon DEF Stage, Samplers
<1>13. Own(c) = 1 /\ Own(c)' = 1 /\ ~Storing(c) /\ op[c].expected = synced[c] + 2
       /\ Odd(sequence[c])
  BY <1>0, <1>1, <1>12, ZenonT(60) DEF Own, Storing, Shape
<1>14. \A r \in Reg : Covered(c, r)' = alat[c][r] /\ Covered(c, r) = alat[c][r]
  BY <1>2, <1>12, ZenonT(60) DEF Covered
<1>15. Dirty(c)' = Dirty(c)
  BY <1>2, <1>6 DEF Dirty, Written
<1>16. Coherent(c)'
  <2>1. CASE ~Current(c)
    BY <1>1, <1>2, <1>11, <1>13, <1>15, <2>1, ZenonT(60) DEF Coherent
  <2>2. CASE Current(c)
    <3>1. ASSUME NEW r \in Reg, NEW b \in alat[c][r], Storing(c)' => b \notin op[c].access
          PROVE  loaded[c][r][b] = ram'[b]
      <4>1. loaded[c][r][b] = ram[b]
        BY <1>13, <1>14, <2>2, Zenon DEF Current
      <4>2. b \in Byte
        <5>1. alat[c][r] \in LoadAccess \union {{}}
          BY <1>1, Zenon DEF Types
        <5> QED
          BY <5>1, AccessAssumption, Zenon
      <4>3. CASE ram' = ram
        BY <4>1, <4>3, ZenonT(60)
      <4>4. CASE op[c].kind # "unequal"
        <5>1. Storing(c)'
          BY <1>10, <1>12, <4>4, Zenon DEF Storing
        <5> QED
          BY <1>8, <3>1, <4>1, <4>2, <5>1, ZenonT(60)
      <4> QED
        BY <1>7, <4>3, <4>4, Zenon
    <3>2. Current(c)'
      BY <1>2, <1>10, <1>14, <3>1, ZenonT(60) DEF Current
    <3> QED
      BY <3>2 DEF Coherent
  <2> QED
    BY <2>1, <2>2, Zenon
<1>17. Cardinality(Entries(c)') <= Slots /\ synced'[c] + 1 <= Total'
       /\ op'[c].expected = synced'[c] + 2 /\ Odd(sequence'[c])
  BY <1>1, <1>2, <1>10, <1>11, <1>13, ZenonT(60) DEF Entries
<1>18. Good(c)'
  BY <1>9, <1>10, <1>16, <1>17, ScopeGood, ZenonT(60)
<1>19. ASSUME NEW d \in CPU \ {c} PROVE Good(d)'
  <2>1. \A e \in CPU : Written(e) => Written(e)'
    BY <1>0, <1>6 DEF Written
  <2>2. Dirty(d) => Dirty(d)'
    BY <1>2, <2>1, Zenon DEF Dirty
  <2>3. ram' = ram \/ Dirty(d)'
    <3>1. op[c].kind # "unequal" => Written(c)'
      BY <1>10 DEF Written
    <3>2. c \in CPU \ {d}
      BY Zenon
    <3> QED
      BY <1>7, <3>1, <3>2, ZenonT(60) DEF Dirty
  <2>4. generation <= generation'
    BY <1>1, <1>2, SMTT(40) DEF Types
  <2>5. \A n \in 0 .. Count : Rest(n) <= Rest(n)' /\ Rest(n)' - Rest(n) <= Total' - Total
    <3>1. \A n \in 0 .. Count : Rest(n) \in Int
      BY <1>1, TotalFacts DEF Types
    <3> QED
      BY <1>1, <1>11, <3>1, SMTT(40)
  <2>6. Foreign(d)
    BY <1>2, <1>6, <1>8, <2>1, <2>2, <2>3, <2>4, <2>5, ZenonT(60) DEF Foreign
  <2> QED
    BY <1>9, <2>6, ForeignGood, Zenon DEF IInv
<1> QED
  BY <1>9, <1>18, <1>19 DEF IInv

LEMMA TakeTokenPreserves ==
    ASSUME IInv, NEW c \in CPU, TakeToken(c)
    PROVE  IInv'
<1>0. /\ op[c].at = "finish" /\ sequence' = [sequence EXCEPT ![c] = @ + 1]
      /\ ram' = ram /\ generation' = generation /\ writers' = writers /\ device' = device
      /\ loaded' = loaded
  BY Zenon DEF TakeToken
<1>1. /\ Types /\ Good(c) /\ Shape(c) /\ Coherent(c) /\ Cardinality(Entries(c)) <= Slots
      /\ synced[c] + Own(c) <= Total /\ op[c] \in Ops /\ synced[c] \in Nat /\ Total \in Nat
  BY <1>0, GoodFacts, Running, ZenonT(60)
<1>2. Stage(c) = "finish"
  BY <1>0, StageIs, Zenon DEF Samplers
<1>3. Own(c) = 1 /\ op[c].expected = synced[c] + 2 /\ Odd(sequence[c])
      /\ (Storing(c) <=> op[c].kind # "unequal") /\ op[c].kind \in Kind
      /\ \A r \in Reg : Covered(c, r) = alat[c][r]
  BY <1>0, <1>1, <1>2, OpsFields, ZenonT(60) DEF Own, Shape, Storing, Covered
<1>4. /\ sequence' \in [CPU -> Nat] /\ sequence'[c] = sequence[c] + 1
      /\ Total' = Total + 1
  BY <1>0, <1>1, BumpTotal, ZenonT(60)
<1>5. ~Odd(sequence'[c])
  <2>1. sequence[c] \in Nat
    BY <1>1, Zenon DEF Types
  <2> QED
    BY <1>3, <1>4, <2>1, ParityFlips, ZenonT(60)
<1>6. SUFFICES ASSUME NEW o \in Ops \union {Idle}, Goto(c, o) =>
                        /\ alat' \in [CPU -> [Reg -> LoadAccess \union {{}}]]
                        /\ synced' \in [CPU -> Nat]
                        /\ \A d \in CPU \ {c} : alat'[d] = alat[d] /\ synced'[d] = synced[d]
                        /\ (Types' /\ op'[c] = o /\ Dirty(c)' = Dirty(c)) => Good(c)',
                      Goto(c, o)
               PROVE  IInv'
  <2>1. CASE op[c].kind = "unequal"
    <3>1. Goto(c, Idle) /\ synced' = [synced EXCEPT ![c] = @ + 2] /\ alat' = alat
      BY <2>1, Zenon DEF TakeToken
    <3>2. /\ synced' \in [CPU -> Nat] /\ synced'[c] = synced[c] + 2
          /\ \A d \in CPU \ {c} : synced'[d] = synced[d]
      BY <1>1, <3>1, SMTT(40) DEF Types
    <3>3. alat' \in [CPU -> [Reg -> LoadAccess \union {{}}]]
      BY <1>1, <3>1, Zenon DEF Types
    <3>4. ASSUME Types', op'[c] = Idle, Dirty(c)' = Dirty(c) PROVE Good(c)'
      <4>1. Own(c)' = 0 /\ \A r \in Reg : Covered(c, r)' = alat'[c][r]
        BY <3>4, IdleNext, ZenonT(60)
      <4>2. synced[c] + Own(c) < Total => synced'[c] + Own(c)' < Total'
        BY <1>1, <1>3, <1>4, <3>2, <4>1, ScopeArithmetic, Zenon
      <4>3. Coherent(c)'
        BY <1>0, <1>1, <1>3, <2>1, <3>1, <3>4, <4>1, <4>2, ShrinkCoherent, Zenon
      <4>4. Cardinality(Entries(c)') <= Slots /\ synced'[c] <= Total'
        <5>1. Entries(c)' = Entries(c) /\ synced[c] + 1 <= Total
          BY <1>1, <1>3, <3>1, Zenon DEF Entries
        <5> QED
          BY <1>1, <1>4, <3>2, <5>1, ScopeArithmetic, Zenon
      <4> QED
        BY <1>5, <3>4, <4>3, <4>4, IdleGood, ZenonT(60)
    <3> QED
      BY <1>6, <3>1, <3>2, <3>3, <3>4, ZenonT(60)
  <2>2. CASE op[c].kind # "unequal" /\ Entries(c) = {}
    <3>1. Goto(c, Idle) /\ alat' = alat /\ synced' = synced
      BY <2>2 DEF TakeToken
    <3>2. /\ synced' \in [CPU -> Nat] /\ alat' \in [CPU -> [Reg -> LoadAccess \union {{}}]]
      BY <1>1, <3>1, Zenon DEF Types
    <3>3. ASSUME Types', op'[c] = Idle PROVE Good(c)'
      <4>1. \A r \in Reg : alat'[c][r] = {}
        BY <2>2, <3>1, ZenonT(60) DEF Entries
      <4>2. Cardinality(Entries(c)') <= Slots /\ Coherent(c)'
        BY <3>3, <4>1, IdleNext, EmptyCurrent, ZenonT(60)
      <4>3. synced'[c] <= Total'
        <5>1. synced'[c] = synced[c] /\ synced[c] + 1 <= Total
          BY <1>1, <1>3, <3>1, Zenon
        <5> QED
          BY <1>1, <1>4, <5>1, ScopeArithmetic, Zenon
      <4> QED
        BY <1>5, <3>3, <4>2, <4>3, IdleGood, ZenonT(60)
    <3> QED
      BY <1>6, <3>1, <3>2, <3>3
  <2>3. CASE op[c].kind = "fault" /\ Entries(c) # {}
    <3> DEFINE s == Sampling(op[c], FALSE, "resampled")
    <3>1. /\ Goto(c, s) /\ synced' = synced
          /\ alat' = [alat EXCEPT ![c] = [r \in Reg |-> {}]]
      BY <2>3, ZenonT(60) DEF TakeToken, Discard
    <3>2. /\ alat' \in [CPU -> [Reg -> LoadAccess \union {{}}]]
          /\ \A r \in Reg : alat'[c][r] = {}
          /\ \A d \in CPU \ {c} : alat'[d] = alat[d]
      BY <1>1, <3>1, ClearTypes, Zenon
    <3>3. synced' \in [CPU -> Nat] /\ synced'[c] <= Total'
      BY <1>1, <1>3, <1>4, <3>1 DEF Types
    <3>4. s \in Ops
      BY <1>1, SamplingDoes, ZenonT(60) DEF Opening
    <3>5. ASSUME Types', op'[c] = s PROVE Good(c)'
      BY <1>1, <1>5, <3>2, <3>3, <3>5, DiscardGood, ZenonT(60)
    <3> HIDE DEF s
    <3> QED
      BY <1>6, <3>1, <3>2, <3>3, <3>4, <3>5, ZenonT(60)
  <2>4. CASE op[c].kind = "store" /\ Entries(c) # {}
    <3> DEFINE s == Sampling(op[c], TRUE, "stored")
    <3>1. Goto(c, s) /\ synced' = synced /\ alat' = alat
      BY <2>4, Zenon DEF TakeToken
    <3>2. "stored" \in Opening \union Closing
      BY Zenon DEF Closing
    <3>3. /\ s \in Ops /\ s.at = "external" /\ s.closing = TRUE /\ s.then = "stored"
          /\ s.expected = op[c].expected /\ s.access = op[c].access
      BY <1>1, <3>2, SamplingDoes, ZenonT(60)
    <3> HIDE DEF s
    <3>4. /\ synced' \in [CPU -> Nat] /\ alat' \in [CPU -> [Reg -> LoadAccess \union {{}}]]
      BY <1>1, <3>1, Zenon DEF Types
    <3>5. ASSUME Types', op'[c] = s, Dirty(c)' = Dirty(c) PROVE Good(c)'
      <4>1. Stage(c)' = "stored"
        BY <3>3, <3>5, ZenonT(60) DEF Stage, Samplers
      <4>2. Own(c)' = 2 /\ Storing(c)' /\ \A r \in Reg : Covered(c, r)' = alat'[c][r]
        BY <4>1, ZenonT(60) DEF Own, Storing, Covered
      <4>3. synced[c] + Own(c) < Total => synced'[c] + Own(c)' < Total'
        <5>1. synced'[c] = synced[c]
          BY <3>1, Zenon
        <5> QED
          BY <1>1, <1>3, <1>4, <4>2, <5>1, ScopeArithmetic, Zenon
      <4>4. op'[c].access = op[c].access
        BY <3>3, <3>5, ZenonT(60)
      <4>5. Coherent(c)'
        BY <1>0, <1>1, <1>3, <3>1, <3>5, <4>2, <4>3, <4>4, ShrinkCoherent, ZenonT(60)
      <4>6. Cardinality(Entries(c)') <= Slots /\ synced'[c] + Own(c)' <= Total'
            /\ op'[c].expected = synced'[c] + 2
        <5>1. /\ synced'[c] = synced[c] /\ Entries(c)' = Entries(c)
              /\ synced[c] + 1 <= Total /\ op'[c].expected = synced[c] + 2
          BY <1>1, <1>3, <3>1, <3>3, <3>5, Zenon DEF Entries
        <5> QED
          BY <1>1, <1>4, <4>2, <5>1, ScopeArithmetic, Zenon
      <4>7. Settled(c)'
        BY <1>5, <3>3, <3>5, <4>1, <4>5, <4>6, Zenon DEF Settled, Closing, Checking
      <4> QED
        BY <3>5, <4>7, SettledGood, ZenonT(60)
    <3> QED
      BY <1>6, <3>1, <3>3, <3>4, <3>5, ZenonT(60)
  <2> QED
    BY <1>3, <2>1, <2>2, <2>3, <2>4, ZenonT(60) DEF Kind
<1>7. /\ alat' \in [CPU -> [Reg -> LoadAccess \union {{}}]] /\ synced' \in [CPU -> Nat]
      /\ \A d \in CPU \ {c} : alat'[d] = alat[d] /\ synced'[d] = synced[d]
      /\ (Types' /\ op'[c] = o /\ Dirty(c)' = Dirty(c)) => Good(c)'
  BY <1>6, ZenonT(60)
<1>8. op' \in [CPU -> Ops \union {Idle}] /\ op'[c] = o
      /\ \A d \in CPU \ {c} : op'[d] = op[d]
  BY <1>1, <1>6, ZenonT(60) DEF Types, Goto
<1>9. Types'
  BY <1>0, <1>1, <1>4, <1>7, <1>8, ZenonT(60) DEF Types
<1>10. Dirty(c)' = Dirty(c)
  BY <1>0, <1>8, Zenon DEF Dirty, Written
<1>11. Good(c)'
  BY <1>7, <1>8, <1>9, <1>10, Zenon
<1>12. ASSUME NEW d \in CPU \ {c} PROVE Good(d)'
  <2>1. Foreign(d)
    BY <1>0, <1>7, <1>8, BumpForeign, ZenonT(60)
  <2> QED
    BY <1>9, <2>1, ForeignGood, Zenon DEF IInv
<1> QED
  BY <1>9, <1>11, <1>12, Zenon DEF IInv

LEMMA GenerationTotal ==
    ASSUME Types, sequence' = sequence, generation' = generation + 1
    PROVE  /\ Total \in Nat /\ Total' = Total + 1 /\ generation' \in Nat
           /\ generation < generation'
           /\ \A n \in 0 .. Count : Rest(n)' = Rest(n) /\ Rest(n) \in Int
           /\ \A n \in 0 .. Count :
                  Rest(n) <= Rest(n)' /\ Rest(n)' - Rest(n) <= Total' - Total
<1>1. sequence \in [CPU -> Nat] /\ generation \in Nat
  BY DEF Types
<1>2. Total \in Nat /\ \A n \in 0 .. Count : Rest(n) \in Int
  BY <1>1, TotalFacts
<1>3. \A n : Rest(n)' = Rest(n)
  BY DEF Rest
<1>4. SumTo(sequence)[Count] \in Nat
  BY <1>1, RestFacts
<1>5. Total' = Total + 1
  BY <1>1, <1>4 DEF Total
<1> QED
  BY <1>1, <1>2, <1>3, <1>5, SMTT(40)

LEMMA ExclusiveStorePreserves ==
    ASSUME IInv, NEW c \in CPU, NEW a \in StoreAccess, ExclusiveStore(c, a)
    PROVE  IInv'
<1>1. Types /\ Good(c) /\ Total \in Nat /\ ram \in [Byte -> Nat]
  BY GoodFacts, ZenonT(60) DEF Types
<1>2. /\ \A d \in CPU : op[d] = Idle
      /\ Bump(a) /\ generation' = generation + 1
      /\ alat' = [alat EXCEPT ![c] = [r \in Reg |-> {}]]
      /\ synced' = [synced EXCEPT ![c] = Total + 1]
      /\ sequence' = sequence /\ writers' = writers /\ device' = device
      /\ loaded' = loaded /\ op' = op
  BY DEF ExclusiveStore
<1>3. /\ Total' = Total + 1 /\ generation' \in Nat /\ generation < generation'
      /\ \A n \in 0 .. Count :
             Rest(n) <= Rest(n)' /\ Rest(n)' - Rest(n) <= Total' - Total
  BY <1>1, <1>2, GenerationTotal
<1>4. /\ ram' \in [Byte -> Nat] /\ \A b \in Byte : ram[b] <= ram'[b]
  BY <1>1, <1>2, BumpDoes, Zenon
<1>5. /\ alat' \in [CPU -> [Reg -> LoadAccess \union {{}}]]
      /\ \A r \in Reg : alat'[c][r] = {}
      /\ \A d \in CPU \ {c} : alat'[d] = alat[d]
  BY <1>1, <1>2, ClearTypes, ZenonT(60)
<1>6. /\ synced' \in [CPU -> Nat] /\ synced'[c] = Total + 1
      /\ \A d \in CPU \ {c} : synced'[d] = synced[d]
  BY <1>1, <1>2 DEF Types
<1>7. Types'
  BY <1>1, <1>2, <1>3, <1>4, <1>5, <1>6 DEF Types
<1>8. Good(c)'
  <2>1. op'[c] = Idle
    BY <1>2, Zenon
  <2>2. ~Odd(sequence'[c])
    BY <1>1, <1>2, IdleFacts, NoScope, ZenonT(60)
  <2>3. Cardinality(Entries(c)') <= Slots /\ Coherent(c)'
    BY <1>5, <2>1, IdleNext, EmptyCurrent, ZenonT(60)
  <2>4. synced'[c] <= Total'
    BY <1>1, <1>3, <1>6, SMTT(40)
  <2> QED
    BY <1>7, <2>1, <2>2, <2>3, <2>4, IdleGood, ZenonT(60)
<1>9. ASSUME NEW d \in CPU \ {c} PROVE Good(d)'
  <2>1. \A e \in CPU : ~Written(e)
    BY <1>2, IdleFacts, ZenonT(60) DEF Written
  <2>2. Total < Total' /\ generation <= generation'
    BY <1>1, <1>3 DEF Types
  <2>3. Foreign(d)
    BY <1>2, <1>3, <1>4, <1>5, <1>6, <2>1, <2>2, ZenonT(60) DEF Foreign
  <2> QED
    BY <1>7, <2>3, ForeignGood, Zenon DEF IInv
<1> QED
  BY <1>7, <1>8, <1>9, Zenon DEF IInv

-----------------------------------------------------------------------------
(* The steps of a device.                                                  *)

\* The writers that are open, after one of them moves.
LEMMA OpenSet ==
    ASSUME Types, NEW d \in External,
           NEW at \in {"closed", "open", "dirty", "advanced"}, Device(d, at)
    PROVE  /\ device' \in [External -> {"closed", "open", "dirty", "advanced"}]
           /\ device'[d] = at /\ \A v \in External \ {d} : device'[v] = device[v]
           /\ writers \in Nat
           /\ at # "closed" /\ device[d] # "closed" =>
                  writers = Cardinality({v \in External : device'[v] # "closed"})
           /\ at # "closed" /\ device[d] = "closed" =>
                  writers + 1 = Cardinality({v \in External : device'[v] # "closed"})
           /\ at = "closed" /\ device[d] # "closed" =>
                  writers - 1 = Cardinality({v \in External : device'[v] # "closed"})
<1> DEFINE S == {v \in External : device[v] # "closed"}
           T == {v \in External : device'[v] # "closed"}
<1>1. /\ device' \in [External -> {"closed", "open", "dirty", "advanced"}]
      /\ device'[d] = at /\ \A v \in External \ {d} : device'[v] = device[v]
  BY DEF Types, Device
<1>2. S \in SUBSET External
  OBVIOUS
<1>3. IsFiniteSet(S)
  BY <1>2, FS_Subset, ExternalAssumption, ZenonT(60)
<1>4. writers = Cardinality(S) /\ Cardinality(S) \in Nat
  BY <1>3, FS_CardinalityType, Zenon DEF Types
<1>5. at # "closed" /\ device[d] # "closed" => T = S
  BY <1>1
<1>6. at # "closed" /\ device[d] = "closed" => T = S \cup {d} /\ d \notin S
  BY <1>1
<1>7. at = "closed" /\ device[d] # "closed" => T = S \ {d} /\ d \in S
  BY <1>1
<1>8. /\ d \notin S => Cardinality(S \cup {d}) = Cardinality(S) + 1
      /\ d \in S => Cardinality(S \ {d}) = Cardinality(S) - 1
  <2> HIDE DEF S
  <2> QED
    BY <1>3, FS_AddElement, FS_RemoveElement, Zenon
<1> HIDE DEF S, T
<1>9. /\ at # "closed" /\ device[d] # "closed" => writers = Cardinality(T)
      /\ at # "closed" /\ device[d] = "closed" => writers + 1 = Cardinality(T)
      /\ at = "closed" /\ device[d] # "closed" => writers - 1 = Cardinality(T)
  BY <1>4, <1>5, <1>6, <1>7, <1>8, ZenonT(60)
<1> QED
  BY <1>1, <1>4, <1>9, Zenon DEF T

\* What a device does to the processors: it never stores without a trace.
LEMMA DevicePreserves ==
    ASSUME IInv, NEW d \in External,
           NEW at \in {"closed", "open", "dirty", "advanced"}, Device(d, at),
           UNCHANGED <<sequence, alat, synced, loaded, op>>,
           ram' \in [Byte -> Nat], \A b \in Byte : ram[b] <= ram'[b],
           writers' = Cardinality({v \in External : device'[v] # "closed"}),
           ram' = ram \/ at = "dirty",
           generation' = generation \/ generation' = generation + 1,
           device[d] = "dirty" /\ at # "dirty" => generation' = generation + 1
    PROVE  IInv'
<1>1. Types /\ generation \in Nat
  BY Zenon DEF IInv, Types
<1>2. /\ device' \in [External -> {"closed", "open", "dirty", "advanced"}]
      /\ device'[d] = at /\ \A v \in External \ {d} : device'[v] = device[v]
  BY <1>1, OpenSet, Zenon
<1>3. generation' \in Nat /\ generation <= generation'
  BY <1>1, SMTT(40)
<1>4. Types'
  BY <1>1, <1>2, <1>3, Zenon DEF Types
<1>5. \A n \in 0 .. Count : Rest(n) <= Rest(n)' /\ Rest(n)' - Rest(n) <= Total' - Total
  <2>1. CASE generation' = generation + 1
    BY <1>1, <2>1, GenerationTotal, Zenon
  <2>2. CASE generation' = generation
    <3>1. Total' = Total /\ \A n : Rest(n)' = Rest(n)
      BY <2>2, Zenon DEF Total, Rest
    <3>2. Total \in Nat /\ \A n \in 0 .. Count : Rest(n) \in Int
      BY <1>1, TotalFacts, Zenon DEF Types
    <3> QED
      BY <3>1, <3>2, SMTT(40)
  <2> QED
    BY <2>1, <2>2, Zenon
<1>6. generation' = generation + 1 => generation < generation' /\ Total < Total'
  <2> SUFFICES ASSUME generation' = generation + 1
               PROVE  generation < generation' /\ Total < Total'
    BY Zenon
  <2>1. Total \in Nat /\ Total' = Total + 1
    BY <1>1, GenerationTotal, Zenon
  <2> QED
    BY <1>1, <2>1, SMTT(40)
<1>7. (\E v \in External : device[v] = "dirty")
          => (\E v \in External : device'[v] = "dirty") \/ generation' = generation + 1
  BY <1>2, Zenon
<1>8. at = "dirty" => \E v \in External : device'[v] = "dirty"
  BY <1>2, Zenon
<1>9. \A e \in CPU : Written(e)' = Written(e)
  BY Zenon DEF Written
<1>10. ASSUME NEW c \in CPU PROVE Good(c)'
  <2>1. ram' = ram \/ Dirty(c)'
    BY <1>8, Zenon DEF Dirty
  <2>2. Dirty(c) => Dirty(c)' \/ Total < Total'
    BY <1>6, <1>7, <1>9, ZenonT(60) DEF Dirty
  <2>3. /\ op'[c] = op[c] /\ alat'[c] = alat[c] /\ synced'[c] = synced[c]
        /\ loaded'[c] = loaded[c] /\ sequence'[c] = sequence[c]
    OBVIOUS
  <2>4. Foreign(c)
    BY <1>3, <1>5, <1>6, <1>7, <1>9, <2>1, <2>2, <2>3, ZenonT(60) DEF Foreign
  <2> QED
    BY <1>1, <1>4, <2>4, ForeignGood, ZenonT(60) DEF IInv
<1> QED
  BY <1>4, <1>10, Zenon DEF IInv

LEMMA DeviceStepPreserves ==
    ASSUME IInv, NEW d \in External, DeviceStep(d)
    PROVE  IInv'
<1>1. Types /\ ram \in [Byte -> Nat] /\ device[d] \in {"closed", "open", "dirty", "advanced"}
  BY DEF IInv, Types
<1>2. ram' = ram => ram' \in [Byte -> Nat] /\ \A b \in Byte : ram[b] <= ram'[b]
  BY <1>1, SMTT(40)
<1>3. CASE ExternalBegin(d)
  <2>1. /\ device[d] = "closed" /\ writers' = writers + 1 /\ Device(d, "open")
        /\ ram' = ram /\ generation' = generation
        /\ UNCHANGED <<sequence, alat, synced, loaded, op>>
    BY <1>3, Zenon DEF ExternalBegin
  <2>2. writers + 1 = Cardinality({v \in External : device'[v] # "closed"})
    BY <1>1, <2>1, OpenSet, Zenon
  <2> QED
    BY <1>2, <2>1, <2>2, DevicePreserves, ZenonT(60)
<1>4. CASE ExternalAdvance(d)
  <2>1. /\ device[d] # "closed" /\ writers' = writers /\ Device(d, "advanced")
        /\ ram' = ram /\ generation' = generation + 1
        /\ UNCHANGED <<sequence, alat, synced, loaded, op>>
    BY <1>4, Zenon DEF ExternalAdvance
  <2>2. writers = Cardinality({v \in External : device'[v] # "closed"})
    BY <1>1, <2>1, OpenSet, Zenon
  <2> QED
    BY <1>2, <2>1, <2>2, DevicePreserves, Zenon
<1>5. CASE ExternalEnd(d) \/ ExternalCancel(d)
  <2>1. /\ device[d] \in {"open", "advanced"} /\ writers' = writers - 1 /\ Device(d, "closed")
        /\ ram' = ram /\ generation' = generation
        /\ UNCHANGED <<sequence, alat, synced, loaded, op>>
    BY <1>5, Zenon DEF ExternalEnd, ExternalCancel
  <2>2. writers - 1 = Cardinality({v \in External : device'[v] # "closed"})
    BY <1>1, <2>1, OpenSet, Zenon
  <2> QED
    BY <1>2, <2>1, <2>2, DevicePreserves, Zenon
<1>6. CASE \E a \in StoreAccess : ExternalStore(d, a)
  <2>1. PICK a \in StoreAccess : ExternalStore(d, a)
    BY <1>6, Zenon
  <2>2. /\ device[d] # "closed" /\ writers' = writers /\ Device(d, "dirty")
        /\ Bump(a) /\ generation' = generation
        /\ UNCHANGED <<sequence, alat, synced, loaded, op>>
    BY <2>1, Zenon DEF ExternalStore
  <2>3. writers = Cardinality({v \in External : device'[v] # "closed"})
    BY <1>1, <2>2, OpenSet, Zenon
  <2>4. ram' \in [Byte -> Nat] /\ \A b \in Byte : ram[b] <= ram'[b]
    BY <1>1, <2>2, BumpDoes, Zenon
  <2> QED
    BY <2>2, <2>3, <2>4, DevicePreserves, Zenon
<1> QED
  BY <1>3, <1>4, <1>5, <1>6, ZenonT(60) DEF DeviceStep

-----------------------------------------------------------------------------
(* The invariant holds.                                                    *)

LEMMA InitIInv == Init => IInv
<1> SUFFICES ASSUME Init PROVE IInv
  OBVIOUS
<1>1. /\ ram = [b \in Byte |-> 0] /\ sequence = [c \in CPU |-> 0] /\ generation = 0
      /\ writers = 0 /\ device = [d \in External |-> "closed"]
      /\ alat = [c \in CPU |-> [r \in Reg |-> {}]] /\ synced = [c \in CPU |-> 0]
      /\ loaded = [c \in CPU |-> [r \in Reg |-> [b \in Byte |-> 0]]]
      /\ op = [c \in CPU |-> Idle]
  BY Zenon DEF Init
<1>2. writers = Cardinality({d \in External : device[d] # "closed"})
  <2>1. {d \in External : device[d] # "closed"} = {}
    BY <1>1
  <2> QED
    BY <1>1, <2>1, FS_EmptySet, ZenonT(60)
<1>3. Types
  <2>1. ram \in [Byte -> Nat] /\ sequence \in [CPU -> Nat] /\ generation \in Nat
    BY <1>1
  <2>2. device \in [External -> {"closed", "open", "dirty", "advanced"}]
    BY <1>1, Zenon
  <2>3. alat \in [CPU -> [Reg -> LoadAccess \union {{}}]] /\ synced \in [CPU -> Nat]
    BY <1>1
  <2>4. loaded \in [CPU -> [Reg -> [Byte -> Nat]]]
    BY <1>1
  <2>5. op \in [CPU -> Ops \union {Idle}]
    BY <1>1, Zenon
  <2> QED
    BY <1>2, <2>1, <2>2, <2>3, <2>4, <2>5 DEF Types
<1>4. ASSUME NEW c \in CPU PROVE Good(c)
  <2>1. op[c] = Idle /\ sequence[c] = 0 /\ synced[c] = 0 /\ \A r \in Reg : alat[c][r] = {}
    BY <1>1, Zenon
  <2>2. op[c].at = "idle" /\ Stage(c) = "idle" /\ Own(c) = 0
    BY <2>1, IdleFacts, Zenon
  <2>3. Entries(c) = {} /\ Cardinality(Entries(c)) <= Slots
    <3>1. Entries(c) = {}
      BY <2>1 DEF Entries
    <3> QED
      BY <3>1, FS_EmptySet, TableAssumption, SMTT(40)
  <2>4. ~Odd(sequence[c])
    BY <2>1, SMTT(40) DEF Odd
  <2>5. Shape(c)
    BY <2>2, <2>3, <2>4, Zenon DEF Shape, Samplers, Checking
  <2>6. Total \in Nat
    BY <1>3, TotalFacts, Zenon DEF Types
  <2>7. Behind(c)
    BY <2>1, <2>2, <2>6, SMTT(40) DEF Behind, Opening
  <2>8. Current(c)
    BY <2>1, <2>2 DEF Current, Covered
  <2> QED
    BY <2>2, <2>5, <2>7, <2>8, ZenonT(60) DEF Good, Coherent, Counts, Late
<1> QED
  BY <1>3, <1>4 DEF IInv

LEMMA NextIInv == IInv /\ [Next]_vars => IInv'
<1> SUFFICES ASSUME IInv, [Next]_vars PROVE IInv'
  OBVIOUS
<1>1. ASSUME NEW c \in CPU, SampleStep(c) PROVE IInv'
  BY <1>1, ReadExternalPreserves, ReadSequencePreserves, ReadWritersPreserves,
     ReadAgainPreserves, ResampledPreserves, ZenonT(60) DEF SampleStep
<1>2. ASSUME NEW c \in CPU, StoreStep(c) PROVE IInv'
  BY <1>2, ExclusiveStorePreserves, WriteBeginPreserves, WriteRamPreserves,
     TakeTokenPreserves, StoredPreserves, DropOverlapsPreserves, ZenonT(60) DEF StoreStep
<1>3. ASSUME NEW c \in Loader, LoaderStep(c) PROVE IInv'
  <2>1. c \in CPU
    BY AccessAssumption
  <2> QED
    BY <1>3, <2>1, InvalidateRegisterPreserves, LoadBeginPreserves, CheckBeginPreserves,
       InvalaPreserves, LoadRamPreserves, RegisterPreserves, PublishedPreserves,
       FindPreserves, MatchPreserves, HitPreserves, WindowChangedPreserves, ZenonT(60)
       DEF LoaderStep
<1>4. ASSUME NEW d \in External, DeviceStep(d) PROVE IInv'
  BY <1>4, DeviceStepPreserves
<1>5. CASE UNCHANGED vars
  <2>1. /\ ram' = ram /\ sequence' = sequence /\ generation' = generation
        /\ writers' = writers /\ device' = device /\ alat' = alat /\ synced' = synced
        /\ loaded' = loaded /\ op' = op
    BY <1>5, Zenon DEF vars
  <2>2. Types'
    BY <2>1, Zenon DEF IInv, Types
  <2>3. ASSUME NEW c \in CPU PROVE Good(c)'
    <3>1. ASSUME NEW d \in CPU PROVE Written(d)' = Written(d)
      BY <2>1, Zenon DEF Written
    <3>2. Total' = Total /\ \A n : Rest(n)' = Rest(n)
      BY <2>1, Zenon DEF Total, Rest
    <3>3. Total \in Nat /\ \A n \in 0 .. Count : Rest(n) \in Int
      BY TotalFacts DEF IInv, Types
    <3>4. \A n \in 0 .. Count : Rest(n) <= Rest(n)' /\ Rest(n)' - Rest(n) <= Total' - Total
      BY <3>2, <3>3, SMTT(40)
    <3>5. generation <= generation' /\ \A b \in Byte : ram[b] <= ram'[b]
      BY <2>1, SMTT(40) DEF IInv, Types
    <3>6. Dirty(c) => Dirty(c)'
      BY <2>1, <3>1 DEF Dirty
    <3>7. Foreign(c)
      BY <2>1, <3>1, <3>4, <3>5, <3>6, ZenonT(60) DEF Foreign
    <3> QED
      BY <2>2, <3>7, ForeignGood, Zenon DEF IInv
  <2> QED
    BY <2>2, <2>3, Zenon DEF IInv
<1> QED
  BY <1>1, <1>2, <1>3, <1>4, <1>5, ZenonT(60) DEF Next

LEMMA Invariant == Spec => []IInv
BY InitIInv, NextIInv, PTL DEF Spec

\* Tables hold known ranges and never overflow, and the sequences and the
\* writer count agree with the scopes that are open: the assertions of
\* ia64_alat_write_begin and physical_memory_write_external_end cannot fail.
THEOREM TypeCorrect == Spec => []TypeOK
<1>1. IInv => TypeOK
  <2> SUFFICES ASSUME IInv PROVE TypeOK
    BY Zenon
  <2>1. Types /\ \A c \in CPU : Shape(c)
    BY Zenon DEF IInv, Good
  <2> QED
    BY <2>1, Zenon DEF TypeOK, Types, Shape
<1> QED
  BY <1>1, Invariant, PTL

\* No processor believes in a memory generation that has not happened yet, so
\* none can miss the next foreign store.
THEOREM SampleNotAhead == Spec => []SyncedNotAhead
<1>1. IInv => SyncedNotAhead
  BY GoodFacts, Zenon DEF SyncedNotAhead
<1> QED
  BY <1>1, Invariant, PTL

\* Between instructions, with nobody storing, a table in step with the memory
\* generation only holds entries whose bytes are unchanged in RAM.
THEOREM TablesCoherent == Spec => []EntriesCurrent
<1>1. IInv => EntriesCurrent
  <2> SUFFICES ASSUME IInv, NEW c \in CPU, op[c] = Idle, synced[c] = Total, ~Active,
                      NEW r \in Reg, NEW b \in alat[c][r]
               PROVE  loaded[c][r][b] = ram[b]
    BY Zenon DEF EntriesCurrent
  <2>1. Types /\ Coherent(c) /\ Total \in Nat
    BY GoodFacts, ZenonT(60)
  <2>2. Stage(c) = "idle" /\ Own(c) = 0 /\ ~Storing(c)
    BY IdleFacts, Zenon
  <2>3. \A d \in CPU : ~Written(d)
    <3>1. \A d \in CPU : Shape(d) /\ ~Odd(sequence[d])
      BY ZenonT(60) DEF Active, IInv, Good
    <3> QED
      BY <3>1, ZenonT(60) DEF Shape, Written
  <2>4. ~\E v \in External : device[v] = "dirty"
    BY <2>1, DirtyCounted, Zenon DEF Active
  <2>5. Current(c)
    BY <2>1, <2>2, <2>3, <2>4, SMTT(40) DEF Coherent, Dirty
  <2> QED
    BY <2>2, <2>5, Zenon DEF Current, Covered
<1> QED
  BY <1>1, Invariant, PTL

\* A check that hits never keeps a register whose bytes are older than RAM was
\* when the check began, however the steps of the samples, the stores of the
\* other processors and the devices interleave.
THEOREM HitsAreCurrent == Spec => HitIsCurrent
<1>1. ASSUME IInv, NEW c \in CPU, Hit(c), NEW b \in alat[c][op[c].reg]
      PROVE  loaded[c][op[c].reg][b] >= op[c].floor[b]
  <2>1. Types /\ Good(c) /\ op[c].at = "hit" /\ ~op[c].changed /\ op[c] \in Ops
    BY <1>1, GoodFacts, Running, ZenonT(60) DEF Hit
  <2>2. Stage(c) = "hit"
    BY <2>1, StageIs, Zenon DEF Samplers
  <2>3. ~Late(c)
    BY <2>1, ZenonT(60) DEF Good, Caught
  <2>4. ~(loaded[c][op[c].reg][b] < op[c].floor[b])
    BY <1>1, <2>2, <2>3, Zenon DEF Late
  <2>5. op[c].reg \in Reg /\ op[c].floor \in [Byte -> Nat]
    BY <2>1, OpsFields, Zenon
  <2>6. b \in Byte
    <3>1. alat[c][op[c].reg] \in LoadAccess \union {{}}
      BY <2>1, <2>5, ZenonT(60) DEF Types
    <3> QED
      BY <1>1, <3>1, AccessAssumption, Zenon
  <2>7. loaded[c][op[c].reg][b] \in Nat /\ op[c].floor[b] \in Nat
    BY <2>1, <2>5, <2>6, SMTT(40) DEF Types
  <2> QED
    BY <2>4, <2>7, SMTT(40)
<1>2. IInv /\ [Next]_vars => [\A c \in CPU : Hit(c) =>
          \A b \in alat[c][op[c].reg] : loaded[c][op[c].reg][b] >= op[c].floor[b]]_vars
  BY <1>1, Zenon
<1> QED
  BY <1>2, Invariant, PTL DEF Spec, HitIsCurrent
=============================================================================
