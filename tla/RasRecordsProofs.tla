-------------------------- MODULE RasRecordsProofs --------------------------
(***************************************************************************)
(* Proofs about the error records for any processors, ring depth and       *)
(* bounds: the banks can always be loaded again and are in order, no       *)
(* record waits unannounced, and a record that was handled and cleared     *)
(* raises no second machine check.                                         *)
(*                                                                         *)
(* None of the three is inductive.  IInv adds what a bank looks like (its  *)
(* ids rise and are older than next_record_id), that the records and       *)
(* requests of one bank are no other's, that a request is for the head of  *)
(* its bank or for a record before it, and which requests for a cleared    *)
(* record may still be queued: those of the machine check being handled.   *)
(***************************************************************************)
EXTENDS RasRecords, Integers, TLAPS

-----------------------------------------------------------------------------
(* The invariant.                                                          *)

\* A ring whose records are in the order of their ids, all below n.
Ring(k, n) ==
    /\ k.count = 0 => k.head = 0
    /\ \A i \in 0 .. k.count - 1 : At(k, i) \in 1 .. n - 1
    /\ \A i, j \in 0 .. k.count - 1 : i < j => At(k, i) < At(k, j)
    /\ \A x \in Index :
          k.slot[x] # 0 => \E i \in 0 .. k.count - 1 : x = (k.head + i) % RecordDepth

\* The records that a processor with queue w and state p is or will be asked
\* to take a machine check for.
Queued(w) == {w[i] : i \in DOMAIN w}
Asked(w, p) == Queued(w) \union ({p.pending, p.active} \ {0})

\* Such a processor, its bank k, and the records sn seen and dn done.
Processor(k, w, p, sn, dn) ==
    /\ k.count > 0 => \A id \in Asked(w, p) : id <= HeadId(k)
    /\ k.count > 0 /\ p.active = HeadId(k) => p.active \in sn
    /\ p.pending # 0 => p.pending # p.active
    /\ p.pending \notin dn
    /\ \A id \in Queued(w) : id \in dn => id = p.active

\* The record at the head of its bank will be, or was, announced.
Announced(k, w, p, sn) ==
    HeadId(k) \in sn \/ HeadId(k) \in Queued(w) \/ p.pending # 0

\* The ids of bank b: its records and the requests made for it.
Known(bk, w, p, b) ==
    Records(bk[b]) \union
    (IF b = Cpe THEN {} ELSE Asked(w[b[1]], p[b[1]]))

\* Everything but Announced, which ia64_ras_try_deliver_mca establishes.
Good(bk, n, w, p, sn, dn) ==
    /\ \A b \in Bank : Ring(bk[b], n)
    /\ \A b \in Bank : Known(bk, w, p, b) \subseteq 1 .. n - 1
    /\ \A b, d \in Bank :
          b # d => Known(bk, w, p, b) \intersect Known(bk, w, p, d) = {}
    /\ dn \subseteq 1 .. n - 1
    /\ \A b \in Bank : Records(bk[b]) \intersect dn = {}
    /\ \A c \in CPU : Processor(bk[Mca(c)], w[c], p[c], sn, dn)

\* A processor is online once it has a min-state area.
Registered ==
    \A c \in CPU : c \in hub.online \/ fw[c] = "registered" => pal[c].saved

IInv ==
    /\ TypeOK
    /\ Good(bank, hub.next, work, pal, seen, done)
    /\ \A c \in Wanted(bank, hub) : Announced(bank[Mca(c)], work[c], pal[c], seen)
    /\ hub.cpeVector => cpeIrq \/ Records(bank[Cpe]) \subseteq seen
    /\ Registered

-----------------------------------------------------------------------------
(* Rings.                                                                  *)

\* Where the i-th place after the head is.
LEMMA Wraps ==
    ASSUME NEW h \in Index, NEW i \in 0 .. RecordDepth
    PROVE  /\ (h + i) % RecordDepth =
                 IF h + i < RecordDepth THEN h + i ELSE h + i - RecordDepth
           /\ (h + i) % RecordDepth \in Index
<1> DEFINE d == RecordDepth
           q == (h + i) \div d
           r == (h + i) % d
<1>0. d \in Nat \ {0} /\ h \in 0 .. d - 1 /\ i \in 0 .. d
  BY DepthAssumption DEF Index
<1>1. q \in Int /\ r \in 0 .. d - 1 /\ h + i = d * q + r
  <2>1. h + i \in Int
    BY <1>0
  <2> HIDE DEF d
  <2> QED
    BY <1>0, <2>1
<1> HIDE DEF d, q, r
<1>2. CASE q <= -1
  BY <1>0, <1>1, <1>2
<1>3. CASE q >= 2
  BY <1>0, <1>1, <1>3
<1>4. CASE q = 0
  BY <1>0, <1>1, <1>4 DEF d, r, Index
<1>5. CASE q = 1
  BY <1>0, <1>1, <1>5 DEF d, r, Index
<1> QED
  BY <1>0, <1>1, <1>2, <1>3, <1>4, <1>5

\* Different places of a ring are different slots.
LEMMA WrapsApart ==
    ASSUME NEW h \in Index, NEW i \in Index, NEW j \in Index, i # j
    PROVE  (h + i) % RecordDepth # (h + j) % RecordDepth
<1>1. /\ RecordDepth \in Nat /\ h \in 0 .. RecordDepth - 1
      /\ i \in 0 .. RecordDepth - 1 /\ j \in 0 .. RecordDepth - 1
      /\ i \in 0 .. RecordDepth /\ j \in 0 .. RecordDepth
  BY DepthAssumption DEF Index
<1>2. /\ (h + i) % RecordDepth =
            IF h + i < RecordDepth THEN h + i ELSE h + i - RecordDepth
      /\ (h + j) % RecordDepth =
            IF h + j < RecordDepth THEN h + j ELSE h + j - RecordDepth
  BY <1>1, Wraps
<1> QED
  BY <1>1, <1>2

LEMMA RingFields ==
    ASSUME NEW k \in Rings
    PROVE  /\ k.slot \in [Index -> 0 .. MaxId] /\ k.head \in Index
           /\ k.head \in 0 .. RecordDepth - 1
           /\ k.count \in 0 .. RecordDepth /\ k.overflow \in BOOLEAN
           /\ RecordDepth \in Nat \ {0} /\ k.count \in Nat /\ MaxId \in Nat
           /\ \A i \in 0 .. k.count - 1 : i \in Index /\ i \in 0 .. RecordDepth
           /\ \A i \in Index : i \in 0 .. RecordDepth
BY DepthAssumption, BoundAssumption DEF Rings, Index

LEMMA RecordsAre ==
    ASSUME NEW k \in Rings, NEW n \in Nat, Ring(k, n)
    PROVE  /\ Records(k) \subseteq 1 .. n - 1
           /\ k.count > 0 => HeadId(k) \in Records(k)
           /\ \A id \in Records(k) : HeadId(k) <= id
           /\ k.count = 0 => Records(k) = {}
<1>1. k.count \in Nat
  BY RingFields
<1>2. Records(k) \subseteq 1 .. n - 1
  BY DEF Records, Ring
<1>3. k.count > 0 => HeadId(k) \in Records(k)
  BY <1>1 DEF Records, HeadId
<1>4. ASSUME NEW id \in Records(k) PROVE HeadId(k) <= id
  <2>1. PICK i \in 0 .. k.count - 1 : id = At(k, i)
    BY DEF Records
  <2>2. 0 \in 0 .. k.count - 1
    BY <1>1
  <2>3. At(k, 0) \in 1 .. n - 1 /\ At(k, i) \in 1 .. n - 1
    BY <2>1, <2>2 DEF Ring
  <2>4. CASE i = 0
    BY <2>1, <2>3, <2>4 DEF HeadId
  <2>5. CASE i # 0
    <3>1. 0 < i
      BY <2>5
    <3>2. At(k, 0) < At(k, i)
      BY <2>2, <3>1 DEF Ring
    <3> QED
      BY <2>1, <2>3, <3>2 DEF HeadId
  <2> QED
    BY <2>4, <2>5
<1>5. k.count = 0 => Records(k) = {}
  BY DEF Records
<1> QED
  BY <1>2, <1>3, <1>4, <1>5

\* A ring that stays as it is holds for later ids too.
LEMMA RingLater ==
    ASSUME NEW k \in Rings, NEW n \in Nat, Ring(k, n)
    PROVE  Ring(k, n + 1)
BY DEF Ring

\* ia64_ras_queue_record on a full ring.
LEMMA QueueFull ==
    ASSUME NEW k \in Rings, NEW n \in Nat, Ring(k, n), k.count = RecordDepth
    PROVE  /\ Queue(k, n) \in Rings /\ Ring(Queue(k, n), n + 1)
           /\ Queue(k, n).count = k.count /\ HeadId(Queue(k, n)) = HeadId(k)
           /\ Records(Queue(k, n)) = Records(k)
<1> DEFINE g == Queue(k, n)
<1>1. g = [k EXCEPT !.overflow = TRUE]
  BY DEF Queue
<1>2. g \in Rings /\ g.slot = k.slot /\ g.head = k.head /\ g.count = k.count
  BY <1>1, Zenon DEF Rings
<1> HIDE DEF g
<1>3. \A i : At(g, i) = At(k, i)
  BY <1>2 DEF At
<1>4. Ring(g, n)
  BY <1>2, <1>3 DEF Ring
<1>5. Ring(g, n + 1)
  BY <1>2, <1>4, RingLater
<1>6. HeadId(g) = HeadId(k) /\ Records(g) = Records(k)
  BY <1>2, <1>3 DEF HeadId, Records
<1> QED
  BY <1>2, <1>5, <1>6 DEF g

\* ia64_ras_queue_record with room: the record goes behind the others.
LEMMA QueueRing ==
    ASSUME NEW k \in Rings, NEW n \in Id, Ring(k, n), k.count # RecordDepth
    PROVE  /\ Queue(k, n) \in Rings /\ Ring(Queue(k, n), n + 1)
           /\ Queue(k, n).count = k.count + 1
           /\ Records(Queue(k, n)) = Records(k) \union {n}
           /\ HeadId(Queue(k, n)) = IF k.count = 0 THEN n ELSE HeadId(k)
<1> DEFINE g == Queue(k, n)
           x == (k.head + k.count) % RecordDepth
<1>0. n \in Nat /\ n >= 1 /\ n \in 0 .. MaxId
  BY BoundAssumption DEF Id
<1>1. k.count \in Index /\ k.count \in 0 .. RecordDepth
  BY RingFields DEF Index
<1>2. x \in Index
  BY <1>1, RingFields, Wraps, Zenon
<1>3. g = [k EXCEPT !.slot[x] = n, !.count = @ + 1]
  BY DEF Queue
<1>4. /\ g.slot = [k.slot EXCEPT ![x] = n] /\ g.head = k.head
      /\ g.count = k.count + 1 /\ g.overflow = k.overflow
  BY <1>3, Zenon DEF Rings
<1>5. g \in Rings
  <2>1. k.count + 1 \in 0 .. RecordDepth
    BY <1>1, RingFields DEF Index
  <2>2. [k.slot EXCEPT ![x] = n] \in [Index -> 0 .. MaxId]
    BY <1>0, RingFields, Zenon
  <2> HIDE DEF x
  <2> QED
    BY <1>3, <2>1, <2>2, Zenon DEF Rings
<1> HIDE DEF g
<1>6. ASSUME NEW i \in 0 .. k.count - 1 PROVE At(g, i) = At(k, i)
  <2>1. i \in Index /\ i # k.count /\ i \in 0 .. RecordDepth
    BY RingFields
  <2>2. (k.head + i) % RecordDepth # x
    BY <1>1, <2>1, RingFields, WrapsApart
  <2>3. (k.head + i) % RecordDepth \in Index
    BY <2>1, RingFields, Wraps, Zenon
  <2> QED
    BY <1>4, <2>2, <2>3, RingFields, Zenon DEF At
<1>7. At(g, k.count) = n
  BY <1>2, <1>4, RingFields, Zenon DEF At
<1>8. /\ k.count \in Nat
      /\ \A i : i \in 0 .. g.count - 1 <=> (i \in 0 .. k.count - 1 \/ i = k.count)
  BY <1>4, RingFields
<1>9. Ring(g, n + 1)
  <2>1. g.count # 0
    BY <1>4, <1>8
  <2>2. ASSUME NEW i \in 0 .. g.count - 1 PROVE At(g, i) \in 1 .. n
    <3>1. CASE i \in 0 .. k.count - 1
      BY <1>0, <1>6, <3>1 DEF Ring
    <3>2. CASE i = k.count
      BY <1>0, <1>7, <3>2
    <3> QED
      BY <1>8, <3>1, <3>2
  <2>3. ASSUME NEW i \in 0 .. g.count - 1, NEW j \in 0 .. g.count - 1, i < j
        PROVE  At(g, i) < At(g, j)
    <3>1. i \in 0 .. k.count - 1
      BY <1>8, <2>3
    <3>2. CASE j \in 0 .. k.count - 1
      BY <1>6, <2>3, <3>1, <3>2 DEF Ring
    <3>3. CASE j = k.count
      <4>1. At(k, i) \in 1 .. n - 1
        BY <3>1 DEF Ring
      <4> QED
        BY <1>0, <1>6, <1>7, <3>1, <3>3, <4>1
    <3> QED
      BY <1>8, <3>2, <3>3
  <2>4. ASSUME NEW y \in Index, g.slot[y] # 0
        PROVE  \E i \in 0 .. g.count - 1 : y = (g.head + i) % RecordDepth
    <3>1. CASE y = x
      BY <1>4, <1>8, <3>1
    <3>2. CASE y # x
      <4>1. k.slot[y] # 0
        BY <1>4, <2>4, <3>2, RingFields, Zenon
      <4>2. PICK i \in 0 .. k.count - 1 : y = (k.head + i) % RecordDepth
        BY <4>1 DEF Ring
      <4> QED
        BY <1>4, <1>8, <4>2
    <3> QED
      BY <3>1, <3>2
  <2>5. \A z : z \in 1 .. n => z \in 1 .. (n + 1) - 1
    BY <1>0
  <2> QED
    BY <2>1, <2>2, <2>3, <2>4, <2>5, Zenon DEF Ring
<1>10. Records(g) = Records(k) \union {n}
  BY <1>6, <1>7, <1>8 DEF Records
<1>11. HeadId(g) = IF k.count = 0 THEN n ELSE HeadId(k)
  <2>1. CASE k.count = 0
    BY <1>7, <2>1 DEF HeadId
  <2>2. CASE k.count # 0
    <3>1. 0 \in 0 .. k.count - 1
      BY <1>8, <2>2
    <3> QED
      BY <1>6, <2>2, <3>1 DEF HeadId
  <2> QED
    BY <2>1, <2>2
<1> QED
  BY <1>4, <1>5, <1>9, <1>10, <1>11 DEF g

\* ia64_ras_pop_record: the oldest record goes, the others keep their order.
LEMMA PopRing ==
    ASSUME NEW k \in Rings, NEW n \in Nat, Ring(k, n), k.count > 0
    PROVE  /\ Pop(k) \in Rings /\ Ring(Pop(k), n)
           /\ Pop(k).count = k.count - 1
           /\ Records(Pop(k)) = Records(k) \ {HeadId(k)}
           /\ Pop(k).count > 0 => HeadId(Pop(k)) > HeadId(k)
<1> DEFINE g == Pop(k)
           h == IF k.count = 1 THEN 0 ELSE (k.head + 1) % RecordDepth
<1>0. /\ k.count \in Nat /\ k.count <= RecordDepth /\ k.head \in 0 .. RecordDepth - 1
      /\ RecordDepth \in Nat \ {0} /\ k.head \in Index
      /\ k.slot \in [Index -> 0 .. MaxId] /\ 0 \in 0 .. MaxId
  BY RingFields
<1>1. h \in Index /\ 1 \in 0 .. RecordDepth
  <2>1. 1 \in 0 .. RecordDepth /\ 0 \in Index
    BY <1>0 DEF Index
  <2> QED
    BY <1>0, <2>1, Wraps, Zenon
<1>2. g = [slot |-> [k.slot EXCEPT ![k.head] = 0], head |-> h,
           count |-> k.count - 1, overflow |-> k.overflow /\ k.count > 1]
  BY <1>0 DEF Pop
<1> HIDE DEF g, h
<1>3. /\ g.slot = [k.slot EXCEPT ![k.head] = 0] /\ g.head = h
      /\ g.count = k.count - 1
  BY <1>2
<1>4. g \in Rings
  <2>1. k.count - 1 \in 0 .. RecordDepth
    BY <1>0
  <2>2. [k.slot EXCEPT ![k.head] = 0] \in [Index -> 0 .. MaxId]
    BY <1>0, Zenon
  <2>3. (k.overflow /\ k.count > 1) \in BOOLEAN
    OBVIOUS
  <2> QED
    BY <1>1, <1>2, <2>1, <2>2, <2>3 DEF Rings
<1>5. \A i \in 0 .. g.count - 1 :
         /\ i + 1 \in 0 .. k.count - 1 /\ i + 1 \in Index /\ i + 1 # 0
         /\ i \in 0 .. RecordDepth /\ i \in Nat /\ k.count # 1
  <2>1. g.count = k.count - 1 /\ k.count \in Nat /\ k.count <= RecordDepth
        /\ RecordDepth \in Nat
    BY <1>0, <1>3, Zenon
  <2>2. \A i \in 0 .. g.count - 1 :
           /\ i + 1 \in 0 .. k.count - 1 /\ i + 1 \in 0 .. RecordDepth - 1
           /\ i + 1 # 0 /\ i \in 0 .. RecordDepth /\ i \in Nat /\ k.count # 1
    BY <2>1, SMTT(40)
  <2> QED
    BY <2>2, Zenon DEF Index
<1>6. ASSUME NEW i \in 0 .. g.count - 1
      PROVE  (g.head + i) % RecordDepth = (k.head + (i + 1)) % RecordDepth
  <2> DEFINE m == (k.head + 1) % RecordDepth
  <2>1. g.head = m
    BY <1>3, <1>5 DEF h
  <2>2. m \in Index /\ m = IF k.head + 1 < RecordDepth THEN k.head + 1
                           ELSE k.head + 1 - RecordDepth
    BY <1>0, <1>1, Wraps, Zenon
  <2>3. (m + i) % RecordDepth = IF m + i < RecordDepth THEN m + i ELSE m + i - RecordDepth
    <3> HIDE DEF m
    <3> QED
      BY <1>5, <2>2, Wraps
  <2>4. (k.head + (i + 1)) % RecordDepth =
           IF k.head + (i + 1) < RecordDepth THEN k.head + (i + 1)
           ELSE k.head + (i + 1) - RecordDepth
    <3>1. i + 1 \in 0 .. RecordDepth
      BY <1>0, <1>5
    <3> QED
      BY <1>0, <3>1, Wraps, Zenon
  <2>5. i + 1 <= RecordDepth - 1 /\ i \in Nat
    BY <1>0, <1>3
  <2> HIDE DEF m
  <2> QED
    BY <1>0, <2>1, <2>2, <2>3, <2>4, <2>5
<1>7. ASSUME NEW i \in 0 .. g.count - 1 PROVE At(g, i) = At(k, i + 1)
  <2>0. 0 \in Index /\ k.head + 0 = k.head /\ 0 \in 0 .. RecordDepth
    BY <1>0 DEF Index
  <2>1. (k.head + 0) % RecordDepth # (k.head + (i + 1)) % RecordDepth
    BY <1>0, <1>5, <2>0, WrapsApart
  <2>2. (k.head + 0) % RecordDepth = k.head
    <3>1. (k.head + 0) % RecordDepth =
             IF k.head + 0 < RecordDepth THEN k.head + 0 ELSE k.head + 0 - RecordDepth
      BY <1>0, <2>0, Wraps, Zenon
    <3> QED
      BY <1>0, <3>1
  <2>3. (k.head + (i + 1)) % RecordDepth \in Index
    <3>1. i + 1 \in 0 .. RecordDepth
      BY <1>0, <1>5
    <3> QED
      BY <1>0, <3>1, Wraps
  <2>4. g.slot[(k.head + (i + 1)) % RecordDepth] = k.slot[(k.head + (i + 1)) % RecordDepth]
    BY <1>0, <1>3, <2>1, <2>2, <2>3, Zenon
  <2> QED
    BY <1>6, <2>4 DEF At
<1>8. \A i \in 0 .. k.count - 1 : i # 0 => i - 1 \in 0 .. g.count - 1 /\ (i - 1) + 1 = i
  BY <1>0, <1>3
<1>9. Ring(g, n)
  <2>1. g.count = 0 => g.head = 0
    BY <1>0, <1>3 DEF h
  <2>2. \A i \in 0 .. g.count - 1 : At(g, i) \in 1 .. n - 1
    BY <1>5, <1>7 DEF Ring
  <2>3. ASSUME NEW i \in 0 .. g.count - 1, NEW j \in 0 .. g.count - 1, i < j
        PROVE  At(g, i) < At(g, j)
    <3>1. i + 1 < j + 1
      BY <1>5, <2>3
    <3>2. i + 1 \in 0 .. k.count - 1 /\ j + 1 \in 0 .. k.count - 1
      BY <1>5
    <3>3. At(k, i + 1) < At(k, j + 1)
      BY <3>1, <3>2 DEF Ring
    <3> QED
      BY <1>7, <3>3
  <2>4. ASSUME NEW y \in Index, g.slot[y] # 0
        PROVE  \E i \in 0 .. g.count - 1 : y = (g.head + i) % RecordDepth
    <3>1. y # k.head /\ k.slot[y] # 0
      BY <1>0, <1>3, <2>4, Zenon
    <3>2. PICK i \in 0 .. k.count - 1 : y = (k.head + i) % RecordDepth
      BY <3>1 DEF Ring
    <3>3. i # 0
      <4>1. 0 \in 0 .. RecordDepth /\ k.head + 0 = k.head /\ k.head < RecordDepth
        BY <1>0
      <4>2. (k.head + 0) % RecordDepth = k.head
        BY <1>0, <4>1, Wraps
      <4> QED
        BY <3>1, <3>2, <4>2
    <3>4. i - 1 \in 0 .. g.count - 1 /\ (i - 1) + 1 = i
      BY <1>8, <3>3
    <3>5. (g.head + (i - 1)) % RecordDepth = (k.head + ((i - 1) + 1)) % RecordDepth
      BY <1>6, <3>4
    <3> QED
      BY <3>2, <3>4, <3>5
  <2> QED
    BY <2>1, <2>2, <2>3, <2>4 DEF Ring
<1>10. Records(g) = Records(k) \ {HeadId(k)}
  <2>1. ASSUME NEW id \in Records(g) PROVE id \in Records(k) /\ id # HeadId(k)
    <3>1. PICK i \in 0 .. g.count - 1 : id = At(g, i)
      BY <2>1 DEF Records
    <3>2. id = At(k, i + 1) /\ i + 1 \in 0 .. k.count - 1
      BY <1>5, <1>7, <3>1
    <3>3. 0 \in 0 .. k.count - 1 /\ 0 < i + 1
      BY <1>0, <1>5
    <3>4. At(k, 0) < At(k, i + 1) /\ At(k, 0) \in 1 .. n - 1 /\ At(k, i + 1) \in 1 .. n - 1
      BY <3>2, <3>3 DEF Ring
    <3>5. At(k, 0) # At(k, i + 1)
      BY <3>4
    <3> QED
      BY <3>2, <3>5 DEF Records, HeadId
  <2>2. ASSUME NEW id \in Records(k), id # HeadId(k) PROVE id \in Records(g)
    <3>1. PICK i \in 0 .. k.count - 1 : id = At(k, i)
      BY <2>2 DEF Records
    <3>2. i # 0
      BY <2>2, <3>1 DEF HeadId
    <3>3. i - 1 \in 0 .. g.count - 1 /\ At(g, i - 1) = At(k, (i - 1) + 1) /\ (i - 1) + 1 = i
      BY <1>7, <1>8, <3>2
    <3> QED
      BY <3>1, <3>3 DEF Records
  <2> QED
    BY <2>1, <2>2
<1>11. ASSUME g.count > 0 PROVE HeadId(g) > HeadId(k)
  <2>1. 0 \in 0 .. g.count - 1 /\ 0 + 1 = 1
    BY <1>0, <1>3, <1>11
  <2>2. At(g, 0) = At(k, 1) /\ 1 \in 0 .. k.count - 1 /\ 0 \in 0 .. k.count - 1
    BY <1>0, <1>3, <1>5, <1>7, <2>1
  <2>3. At(k, 0) < At(k, 1) /\ At(k, 0) \in Int /\ At(k, 1) \in Int
    BY <2>2 DEF Ring
  <2> QED
    BY <2>2, <2>3 DEF HeadId
<1> QED
  BY <1>3, <1>4, <1>9, <1>10, <1>11 DEF g

-----------------------------------------------------------------------------
(* Requests.                                                               *)

LEMMA QueueOf ==
    ASSUME NEW w \in Seq(Id)
    PROVE  /\ Queued(w) \subseteq Id
           /\ \A id \in Id : /\ Append(w, id) \in Seq(Id)
                             /\ Queued(Append(w, id)) = Queued(w) \union {id}
           /\ w # <<>> => /\ Head(w) \in Id /\ Tail(w) \in Seq(Id)
                          /\ Queued(w) = {Head(w)} \union Queued(Tail(w))
                          /\ Len(Tail(w)) <= Len(w)
           /\ Len(w) \in Nat
           /\ Queued(<<>>) = {}
<1>0. DOMAIN w = 1 .. Len(w) /\ Len(w) \in Nat /\ \A i \in 1 .. Len(w) : w[i] \in Id
  OBVIOUS
<1>1. Queued(w) \subseteq Id
  BY <1>0 DEF Queued
<1>2. ASSUME NEW id \in Id
      PROVE  /\ Append(w, id) \in Seq(Id)
             /\ Queued(Append(w, id)) = Queued(w) \union {id}
  <2> DEFINE v == Append(w, id)
  <2>1. /\ v \in Seq(Id) /\ DOMAIN v = 1 .. Len(w) + 1
        /\ \A i \in 1 .. Len(w) : v[i] = w[i]
        /\ v[Len(w) + 1] = id
    OBVIOUS
  <2> HIDE DEF v
  <2>2. \A i : i \in 1 .. Len(w) + 1 <=> i \in 1 .. Len(w) \/ i = Len(w) + 1
    BY <1>0
  <2>3. Queued(v) = Queued(w) \union {id}
    BY <1>0, <2>1, <2>2 DEF Queued
  <2> QED
    BY <2>1, <2>3 DEF v
<1>3. ASSUME w # <<>>
      PROVE  /\ Head(w) \in Id /\ Tail(w) \in Seq(Id)
             /\ Queued(w) = {Head(w)} \union Queued(Tail(w))
             /\ Len(Tail(w)) <= Len(w)
  <2> DEFINE v == Tail(w)
  <2>1. /\ v \in Seq(Id) /\ Len(v) = Len(w) - 1 /\ Len(w) >= 1
        /\ \A i \in 1 .. Len(w) - 1 : v[i] = w[i + 1]
        /\ Head(w) = w[1]
    BY <1>3
  <2>2. DOMAIN v = 1 .. Len(w) - 1
    BY <2>1
  <2> HIDE DEF v
  <2>3. ASSUME NEW id \in Queued(w) PROVE id = Head(w) \/ id \in Queued(v)
    <3>1. PICK i \in 1 .. Len(w) : id = w[i]
      BY <1>0 DEF Queued
    <3>2. CASE i = 1
      BY <2>1, <3>1, <3>2
    <3>3. CASE i # 1
      <4>1. i - 1 \in 1 .. Len(w) - 1 /\ (i - 1) + 1 = i
        BY <1>0, <3>3
      <4>2. v[i - 1] = id
        BY <2>1, <3>1, <4>1
      <4> QED
        BY <2>2, <4>1, <4>2 DEF Queued
    <3> QED
      BY <3>2, <3>3
  <2>4. ASSUME NEW id \in Queued(v) PROVE id \in Queued(w)
    <3>1. PICK i \in 1 .. Len(w) - 1 : id = v[i]
      BY <2>2 DEF Queued
    <3>2. i + 1 \in 1 .. Len(w) /\ id = w[i + 1]
      BY <1>0, <2>1, <3>1
    <3> QED
      BY <1>0, <3>2 DEF Queued
  <2>5. Head(w) \in Queued(w)
    BY <1>0, <2>1 DEF Queued
  <2>6. Head(w) \in Id /\ Len(v) <= Len(w)
    BY <1>0, <2>1
  <2> QED
    BY <2>1, <2>3, <2>4, <2>5, <2>6 DEF v
<1>4. Queued(<<>>) = {}
  BY DEF Queued
<1> QED
  BY <1>0, <1>1, <1>2, <1>3, <1>4

\* What ia64_cpu_request_mca_work does.
LEMMA RequestIs ==
    ASSUME NEW p \in Pals, NEW id \in Id
    PROVE  /\ RequestMca(p, id) \in Pals
           /\ RequestMca(p, id).active = p.active
           /\ RequestMca(p, id).saved = p.saved
           /\ RequestMca(p, id).mc = p.mc
           /\ RequestMca(p, id).pending =
                 IF id # p.active /\ id # p.pending THEN id ELSE p.pending
<1>0. id \in 0 .. MaxId
  BY DEF Id
<1>1. CASE id # p.active /\ id # p.pending
  <2>1. RequestMca(p, id) = [p EXCEPT !.pending = id]
    BY <1>1, Zenon DEF RequestMca
  <2> QED
    BY <1>0, <1>1, <2>1 DEF Pals
<1>2. CASE ~(id # p.active /\ id # p.pending)
  <2>1. RequestMca(p, id) = p
    BY <1>2, Zenon DEF RequestMca
  <2> QED
    BY <1>2, <2>1 DEF Pals
<1> QED
  BY <1>1, <1>2

\* The target asks itself for the record at the head of its bank.
LEMMA Requested ==
    ASSUME NEW k \in Rings, NEW n \in 1 .. MaxId + 1, Ring(k, n), k.count > 0,
           NEW w \in Seq(Id), NEW p \in Pals, NEW sn, NEW dn,
           Records(k) \intersect dn = {}, Processor(k, w, p, sn, dn)
    PROVE  /\ RequestMca(p, HeadId(k)) \in Pals
           /\ RequestMca(p, HeadId(k)).saved = p.saved
           /\ Processor(k, w, RequestMca(p, HeadId(k)), sn, dn)
           /\ Announced(k, w, RequestMca(p, HeadId(k)), sn)
           /\ Asked(w, RequestMca(p, HeadId(k))) \subseteq Asked(w, p) \union Records(k)
<1> DEFINE id == HeadId(k)
           q == RequestMca(p, id)
<1>1. id \in Records(k) /\ id \in Id /\ id \notin dn /\ id \in Nat \ {0}
  <2>1. n \in Nat /\ MaxId \in Nat
    BY BoundAssumption
  <2>2. id \in Records(k) /\ id \in 1 .. n - 1
    BY <2>1, RecordsAre, Zenon
  <2> HIDE DEF id
  <2>3. id \in Id /\ id \in Nat \ {0}
    BY <2>1, <2>2 DEF Id
  <2> QED
    BY <2>2, <2>3
<1> HIDE DEF id
<1>2. /\ q \in Pals /\ q.active = p.active /\ q.saved = p.saved
      /\ q.pending = IF id # p.active /\ id # p.pending THEN id ELSE p.pending
  BY <1>1, RequestIs, Zenon
<1> HIDE DEF q
<1>3. Asked(w, q) \subseteq Asked(w, p) \union {id}
  BY <1>2 DEF Asked
<1>4. Processor(k, w, q, sn, dn)
  <2>1. \A i \in Asked(w, q) : i <= id
    BY <1>1, <1>3 DEF Processor, id
  <2>2. q.pending # 0 => q.pending # q.active
    BY <1>2 DEF Processor
  <2>3. q.pending \notin dn
    BY <1>1, <1>2 DEF Processor
  <2> QED
    BY <1>2, <2>1, <2>2, <2>3, Zenon DEF Processor, id
<1>5. Announced(k, w, q, sn)
  <2>1. CASE id = p.active
    BY <2>1 DEF Announced, Processor, id
  <2>2. CASE id # p.active
    BY <1>1, <1>2, <2>2 DEF Announced
  <2> QED
    BY <2>1, <2>2
<1> QED
  BY <1>1, <1>2, <1>3, <1>4, <1>5 DEF id, q

\* Another thread queues the request.
LEMMA Appended ==
    ASSUME NEW k \in Rings, NEW n \in 1 .. MaxId + 1, Ring(k, n), k.count > 0,
           NEW w \in Seq(Id), NEW p \in Pals, NEW sn, NEW dn,
           Records(k) \intersect dn = {}, Processor(k, w, p, sn, dn)
    PROVE  /\ Append(w, HeadId(k)) \in Seq(Id)
           /\ Processor(k, Append(w, HeadId(k)), p, sn, dn)
           /\ Announced(k, Append(w, HeadId(k)), p, sn)
           /\ Asked(Append(w, HeadId(k)), p) \subseteq Asked(w, p) \union Records(k)
<1> DEFINE id == HeadId(k)
           v == Append(w, id)
<1>1. id \in Records(k) /\ id \in Id /\ id \notin dn /\ id \in Nat
  <2>1. n \in Nat /\ MaxId \in Nat
    BY BoundAssumption
  <2>2. id \in Records(k) /\ id \in 1 .. n - 1
    BY <2>1, RecordsAre, Zenon
  <2> HIDE DEF id
  <2>3. id \in Id /\ id \in Nat
    BY <2>1, <2>2 DEF Id
  <2> QED
    BY <2>2, <2>3
<1> HIDE DEF id
<1>2. v \in Seq(Id) /\ Queued(v) = Queued(w) \union {id}
  BY <1>1, QueueOf, Zenon
<1> HIDE DEF v
<1>3. Asked(v, p) \subseteq Asked(w, p) \union {id}
  BY <1>2 DEF Asked
<1>4. Processor(k, v, p, sn, dn)
  <2>1. \A i \in Asked(v, p) : i <= id
    BY <1>1, <1>3 DEF Processor, id
  <2>2. \A i \in Queued(v) : i \in dn => i = p.active
    BY <1>1, <1>2 DEF Processor
  <2> QED
    BY <2>1, <2>2, Zenon DEF Processor, id
<1>5. Announced(k, v, p, sn)
  BY <1>2 DEF Announced, id
<1> QED
  BY <1>1, <1>2, <1>3, <1>4, <1>5 DEF id, v

LEMMA Banks ==
    /\ Cpe \in Bank /\ \A c \in CPU : Mca(c) \in Bank /\ Mca(c) # Cpe /\ Mca(c)[1] = c
    /\ \A c, d \in CPU : Mca(c) = Mca(d) => c = d
    /\ \A b \in Bank : b # Cpe => b[1] \in CPU /\ b = Mca(b[1])
BY CpuAssumption DEF Bank, Cpe, Mca

\* Only the queues and the state of the processors change, and these only by
\* requests for their own records.
LEMMA SameBanks ==
    ASSUME NEW bk, NEW n, NEW w, NEW p, NEW sn, NEW dn, Good(bk, n, w, p, sn, dn),
           NEW w2, NEW p2, NEW sn2,
           \A c \in CPU : /\ Asked(w2[c], p2[c]) \subseteq
                                Asked(w[c], p[c]) \union Records(bk[Mca(c)])
                          /\ Processor(bk[Mca(c)], w2[c], p2[c], sn2, dn)
    PROVE  Good(bk, n, w2, p2, sn2, dn)
<1>1. ASSUME NEW b \in Bank
      PROVE  Known(bk, w2, p2, b) \subseteq Known(bk, w, p, b)
  <2>1. CASE b = Cpe
    BY <2>1 DEF Known
  <2>2. CASE b # Cpe
    <3>1. b[1] \in CPU /\ b = Mca(b[1])
      BY <2>2, Banks
    <3>2. Asked(w2[b[1]], p2[b[1]]) \subseteq Asked(w[b[1]], p[b[1]]) \union Records(bk[b])
      BY <3>1
    <3> QED
      BY <2>2, <3>2 DEF Known
  <2> QED
    BY <2>1, <2>2
<1>2. \A b \in Bank : Known(bk, w2, p2, b) \subseteq 1 .. n - 1
  BY <1>1 DEF Good
<1>3. \A b, d \in Bank :
         b # d => Known(bk, w2, p2, b) \intersect Known(bk, w2, p2, d) = {}
  <2> SUFFICES ASSUME NEW b \in Bank, NEW d \in Bank, b # d
               PROVE  Known(bk, w2, p2, b) \intersect Known(bk, w2, p2, d) = {}
    OBVIOUS
  <2>1. Known(bk, w, p, b) \intersect Known(bk, w, p, d) = {}
    BY DEF Good
  <2> QED
    BY <1>1, <2>1
<1> QED
  BY <1>2, <1>3 DEF Good

\* ia64_ras_try_deliver_mca: what it asks for is announced.
LEMMA Delivered ==
    ASSUME NEW bk \in [Bank -> Rings], NEW h \in Hubs, NEW t, NEW sn, NEW dn,
           work \in [CPU -> Seq(Id)], pal \in [CPU -> Pals],
           Good(bk, h.next, work, pal, sn, dn), TryDeliver(t, bk, h, pal)
    PROVE  /\ Good(bk, h.next, work', pal', sn, dn)
           /\ \A c \in Wanted(bk, h) : Announced(bk[Mca(c)], work'[c], pal'[c], sn)
           /\ work' \in [CPU -> Seq(Id)] /\ pal' \in [CPU -> Pals]
           /\ \A c \in CPU : Len(work'[c]) <= MaxWork
           /\ \A c \in CPU : pal'[c].saved = pal[c].saved
<1> DEFINE head(c) == HeadId(bk[Mca(c)])
<1>1. ASSUME NEW c \in CPU
      PROVE  /\ Asked(work'[c], pal'[c]) \subseteq
                   Asked(work[c], pal[c]) \union Records(bk[Mca(c)])
             /\ Processor(bk[Mca(c)], work'[c], pal'[c], sn, dn)
             /\ c \in Wanted(bk, h) => Announced(bk[Mca(c)], work'[c], pal'[c], sn)
             /\ work'[c] \in Seq(Id) /\ pal'[c] \in Pals
             /\ pal'[c].saved = pal[c].saved
  <2>0. /\ bk[Mca(c)] \in Rings /\ h.next \in 1 .. MaxId + 1
        /\ work[c] \in Seq(Id) /\ pal[c] \in Pals
        /\ Ring(bk[Mca(c)], h.next) /\ Records(bk[Mca(c)]) \intersect dn = {}
        /\ Processor(bk[Mca(c)], work[c], pal[c], sn, dn)
    BY Banks DEF Good, Hubs
  <2>1. CASE c \notin Wanted(bk, h)
    BY <2>0, <2>1, Zenon DEF TryDeliver
  <2>2. CASE c \in Wanted(bk, h) /\ c = t
    <3>1. work'[c] = work[c] /\ pal'[c] = RequestMca(pal[c], head(c))
      BY <2>2 DEF TryDeliver
    <3>2. bk[Mca(c)].count > 0
      BY <2>2, Zenon DEF Wanted
    <3> QED
      BY <2>0, <3>1, <3>2, Requested
  <2>3. CASE c \in Wanted(bk, h) /\ c # t
    <3>1. work'[c] = Append(work[c], head(c)) /\ pal'[c] = pal[c]
      BY <2>3 DEF TryDeliver
    <3>2. bk[Mca(c)].count > 0
      BY <2>3 DEF Wanted
    <3> QED
      BY <2>0, <3>1, <3>2, Appended
  <2> QED
    BY <2>1, <2>2, <2>3, Zenon
<1>2. Wanted(bk, h) \subseteq CPU
  BY DEF Wanted, Hubs
<1>3. Good(bk, h.next, work', pal', sn, dn)
  BY <1>1, SameBanks, Zenon
<1>4. work' \in [CPU -> Seq(Id)] /\ pal' \in [CPU -> Pals]
  <2>1. DOMAIN work' = CPU /\ DOMAIN pal' = CPU /\ work' = [c \in CPU |-> work'[c]]
        /\ pal' = [c \in CPU |-> pal'[c]]
    BY DEF TryDeliver
  <2> QED
    BY <1>1, <2>1, Zenon
<1> QED
  BY <1>1, <1>2, <1>3, <1>4, Zenon DEF TryDeliver

\* A record is added to bank b.
LEMMA Reported ==
    ASSUME NEW bk \in [Bank -> Rings], NEW n \in Id, NEW w, NEW p, NEW sn, NEW dn,
           Good(bk, n, w, p, sn, dn), NEW b \in Bank,
           \A c \in CPU : w[c] \in Seq(Id) /\ p[c] \in Pals
    PROVE  LET b2 == [bk EXCEPT ![b] = Queue(@, n)] IN
           /\ b2 \in [Bank -> Rings]
           /\ Good(b2, n + 1, w, p, sn, dn)
<1> DEFINE g == Queue(bk[b], n)
           b2 == [bk EXCEPT ![b] = g]
<1>0. n \in Nat \ {0} /\ bk[b] \in Rings /\ Ring(bk[b], n)
  BY DEF Id, Good
<1>1. /\ g \in Rings /\ Ring(g, n + 1)
      /\ Records(g) \subseteq Records(bk[b]) \union {n}
      /\ g.count > 0 => \/ HeadId(g) = n
                        \/ HeadId(g) = HeadId(bk[b]) /\ bk[b].count > 0
  <2>1. CASE bk[b].count = RecordDepth
    BY <1>0, <2>1, QueueFull
  <2>2. CASE bk[b].count # RecordDepth
    <3>1. /\ g \in Rings /\ Ring(g, n + 1)
          /\ Records(g) = Records(bk[b]) \union {n}
          /\ HeadId(g) = IF bk[b].count = 0 THEN n ELSE HeadId(bk[b])
      BY <1>0, <2>2, QueueRing
    <3>2. bk[b].count \in Nat
      BY <1>0, RingFields
    <3> HIDE DEF g
    <3> QED
      BY <3>1, <3>2
  <2> QED
    BY <2>1, <2>2
<1> HIDE DEF g
<1>2. b2 \in [Bank -> Rings] /\ b2[b] = g /\ \A d \in Bank : d # b => b2[d] = bk[d]
  BY <1>1, Zenon
<1> HIDE DEF b2
<1>3. ASSUME NEW d \in Bank PROVE Ring(b2[d], n + 1)
  <2>1. CASE d = b
    BY <1>1, <1>2, <2>1
  <2>2. CASE d # b
    <3>1. bk[d] \in Rings /\ Ring(bk[d], n)
      BY Zenon DEF Good
    <3> QED
      BY <1>0, <1>2, <2>2, <3>1, RingLater
  <2> QED
    BY <2>1, <2>2
<1>4. ASSUME NEW d \in Bank
      PROVE  /\ Known(bk, w, p, d) \subseteq 1 .. n - 1
             /\ d # b => Known(b2, w, p, d) = Known(bk, w, p, d)
             /\ Known(b2, w, p, b) \subseteq Known(bk, w, p, b) \union {n}
  BY <1>1, <1>2 DEF Known, Good
<1>5. n \notin 1 .. n - 1 /\ n \in 1 .. (n + 1) - 1
      /\ \A z \in 1 .. n - 1 : z \in 1 .. (n + 1) - 1 /\ z < n
  BY <1>0
<1>6. ASSUME NEW d \in Bank PROVE Known(b2, w, p, d) \subseteq 1 .. (n + 1) - 1
  <2>1. Known(b2, w, p, d) \subseteq Known(bk, w, p, d) \union {n}
    BY <1>4, Zenon
  <2>2. Known(bk, w, p, d) \subseteq 1 .. n - 1
    BY <1>4, Zenon
  <2> QED
    BY <1>5, <2>1, <2>2
<1>7. ASSUME NEW d \in Bank, NEW e \in Bank, d # e
      PROVE  Known(b2, w, p, d) \intersect Known(b2, w, p, e) = {}
  <2>1. Known(bk, w, p, d) \intersect Known(bk, w, p, e) = {}
    BY <1>7 DEF Good
  <2>2. n \notin Known(bk, w, p, d) /\ n \notin Known(bk, w, p, e)
    BY <1>4, <1>5, Zenon
  <2>3. CASE d = b
    BY <1>4, <1>7, <2>1, <2>2, <2>3, Zenon
  <2>4. CASE e = b
    BY <1>4, <1>7, <2>1, <2>2, <2>4, Zenon
  <2>5. CASE d # b /\ e # b
    BY <1>4, <2>1, <2>5, Zenon
  <2> QED
    BY <2>3, <2>4, <2>5
<1>8. dn \subseteq 1 .. (n + 1) - 1 /\ n \notin dn
  <2>1. dn \subseteq 1 .. n - 1
    BY DEF Good
  <2> QED
    BY <1>5, <2>1, Zenon
<1>9. ASSUME NEW d \in Bank PROVE Records(b2[d]) \intersect dn = {}
  <2>1. Records(bk[d]) \intersect dn = {}
    BY DEF Good
  <2> QED
    BY <1>1, <1>2, <1>8, <2>1, Zenon
<1>10. ASSUME NEW c \in CPU PROVE Processor(b2[Mca(c)], w[c], p[c], sn, dn)
  <2>0. Mca(c) \in Bank /\ Mca(c) # Cpe /\ Mca(c)[1] = c
    BY Banks
  <2>1. Processor(bk[Mca(c)], w[c], p[c], sn, dn)
    BY DEF Good
  <2>2. CASE Mca(c) # b
    BY <1>2, <2>0, <2>1, <2>2, Zenon
  <2>3. CASE Mca(c) = b
    <3>1. Asked(w[c], p[c]) \subseteq 1 .. n - 1
      <4>1. Asked(w[c], p[c]) \subseteq Known(bk, w, p, Mca(c))
        BY <2>0, Zenon DEF Known
      <4> QED
        BY <1>4, <2>0, <4>1, Zenon
    <3>2. p[c].active # n
      <4>1. p[c].active # 0 => p[c].active \in Asked(w[c], p[c])
        BY Zenon DEF Asked
      <4> QED
        BY <1>0, <1>5, <3>1, <4>1
    <3>3. ASSUME g.count > 0 PROVE \A id \in Asked(w[c], p[c]) : id <= HeadId(g)
      <4>1. CASE HeadId(g) = n
        BY <1>0, <3>1, <4>1
      <4>2. CASE HeadId(g) = HeadId(bk[b]) /\ bk[b].count > 0
        BY <2>1, <2>3, <4>2, Zenon DEF Processor
      <4> QED
        BY <1>1, <3>3, <4>1, <4>2
    <3>4. ASSUME g.count > 0, p[c].active = HeadId(g) PROVE p[c].active \in sn
      <4>1. HeadId(g) = HeadId(bk[b]) /\ bk[b].count > 0
        BY <1>1, <3>2, <3>4
      <4> QED
        BY <2>1, <2>3, <3>4, <4>1, Zenon DEF Processor
    <3> QED
      BY <1>2, <2>1, <2>3, <3>3, <3>4, Zenon DEF Processor
  <2> QED
    BY <2>2, <2>3
<1>11. Good(b2, n + 1, w, p, sn, dn)
  BY <1>3, <1>6, <1>7, <1>8, <1>9, <1>10, Zenon DEF Good
<1> QED
  BY <1>2, <1>11, Zenon DEF b2, g

\* The record at the head of bank b is cleared; it is done if it is the one
\* whose machine check the processor is in.
LEMMA Cleared ==
    ASSUME NEW bk \in [Bank -> Rings], NEW n \in Nat, NEW w, NEW p, NEW sn, NEW dn,
           Good(bk, n, w, p, sn, dn), NEW b \in Bank, bk[b].count > 0,
           NEW c \in CPU, b[1] = c
    PROVE  /\ [bk EXCEPT ![b] = Pop(@)] \in [Bank -> Rings]
           /\ Good([bk EXCEPT ![b] = Pop(@)], n, w, p, sn,
                   dn \union ({HeadId(bk[b])} \intersect {p[c].active}))
<1> DEFINE g == Pop(bk[b])
           b2 == [bk EXCEPT ![b] = g]
           d2 == dn \union ({HeadId(bk[b])} \intersect {p[c].active})
<1>0. bk[b] \in Rings /\ Ring(bk[b], n)
  BY DEF Good
<1>1. /\ g \in Rings /\ Ring(g, n)
      /\ Records(g) = Records(bk[b]) \ {HeadId(bk[b])}
      /\ g.count > 0 => HeadId(g) > HeadId(bk[b])
  BY <1>0, PopRing
<1>2. HeadId(bk[b]) \in Records(bk[b]) /\ HeadId(bk[b]) \in 1 .. n - 1
  BY <1>0, RecordsAre
<1> HIDE DEF g
<1>3. b2 \in [Bank -> Rings] /\ b2[b] = g /\ \A d \in Bank : d # b => b2[d] = bk[d]
  BY <1>1, Zenon
<1> HIDE DEF b2
<1>4. \A d \in Bank : Ring(b2[d], n)
  BY <1>1, <1>3, Zenon DEF Good
<1>5. ASSUME NEW d \in Bank PROVE Known(b2, w, p, d) \subseteq Known(bk, w, p, d)
  <2>1. Records(b2[d]) \subseteq Records(bk[d])
    BY <1>1, <1>3, Zenon
  <2> QED
    BY <2>1 DEF Known
<1>6. \A d \in Bank : Known(b2, w, p, d) \subseteq 1 .. n - 1
  BY <1>5 DEF Good
<1>7. ASSUME NEW d \in Bank, NEW e \in Bank, d # e
      PROVE  Known(b2, w, p, d) \intersect Known(b2, w, p, e) = {}
  <2>1. Known(bk, w, p, d) \intersect Known(bk, w, p, e) = {}
    BY <1>7 DEF Good
  <2> QED
    BY <1>5, <2>1
<1>8. d2 \subseteq 1 .. n - 1
  BY <1>2 DEF Good
<1>9. \A d \in Bank : Records(bk[d]) \subseteq Known(bk, w, p, d)
  BY DEF Known
<1>10. ASSUME NEW d \in Bank PROVE Records(b2[d]) \intersect d2 = {}
  <2>1. Records(bk[d]) \intersect dn = {}
    BY DEF Good
  <2>2. Records(b2[d]) \subseteq Records(bk[d])
    BY <1>1, <1>3, Zenon
  <2>3. HeadId(bk[b]) \notin Records(b2[d])
    <3>1. CASE d = b
      BY <1>1, <1>3, <3>1
    <3>2. CASE d # b
      <4>1. Known(bk, w, p, d) \intersect Known(bk, w, p, b) = {}
        BY <3>2 DEF Good
      <4> QED
        BY <1>2, <1>9, <2>2, <4>1
    <3> QED
      BY <3>1, <3>2
  <2> QED
    BY <2>1, <2>2, <2>3
<1>11. ASSUME NEW e \in CPU PROVE Processor(b2[Mca(e)], w[e], p[e], sn, d2)
  <2>0. Mca(e) \in Bank /\ Mca(e) # Cpe /\ Mca(e)[1] = e
    BY Banks
  <2>1. Processor(bk[Mca(e)], w[e], p[e], sn, dn)
    BY DEF Good
  <2>2. Asked(w[e], p[e]) \subseteq Known(bk, w, p, Mca(e))
    BY <2>0, Zenon DEF Known
  <2>3. CASE Mca(e) # b
    <3>1. b2[Mca(e)] = bk[Mca(e)]
      BY <1>3, <2>0, <2>3, Zenon
    <3>2. HeadId(bk[b]) \notin Asked(w[e], p[e])
      <4>1. Known(bk, w, p, Mca(e)) \intersect Known(bk, w, p, b) = {}
        BY <2>0, <2>3 DEF Good
      <4> QED
        BY <1>2, <1>9, <2>2, <4>1
    <3>3. HeadId(bk[b]) # 0
      BY <1>2
    <3>4. p[e].pending \notin d2 /\ \A id \in Queued(w[e]) : id \in d2 => id = p[e].active
      BY <2>1, <3>2, <3>3 DEF Processor, Asked
    <3> QED
      BY <2>1, <3>1, <3>4, Zenon DEF Processor
  <2>4. CASE Mca(e) = b
    <3>1. e = c
      BY <2>0, <2>4
    <3>2. b2[Mca(e)] = g
      BY <1>3, <2>4
    <3>3. HeadId(bk[b]) # 0
      BY <1>2
    <3>4. p[e].pending \notin d2 /\ \A id \in Queued(w[e]) : id \in d2 => id = p[e].active
      BY <2>1, <3>1, <3>3 DEF Processor
    <3>5. \A id \in Asked(w[e], p[e]) : id \in Int
      BY <2>0, <2>2 DEF Good
    <3>6. ASSUME g.count > 0 PROVE \A id \in Asked(w[e], p[e]) : id < HeadId(g)
      <4>1. HeadId(g) \in Int /\ HeadId(bk[b]) \in Int
        BY <1>1, <1>2, <3>6, RecordsAre, SMTT(40)
      <4>2. \A id \in Asked(w[e], p[e]) : id <= HeadId(bk[b])
        BY <2>1, <2>4, Zenon DEF Processor
      <4> QED
        BY <1>1, <3>5, <3>6, <4>1, <4>2
    <3>7. g.count > 0 => p[e].active # HeadId(g)
      <4>1. p[e].active # 0 => p[e].active \in Asked(w[e], p[e])
        BY DEF Asked
      <4>2. g.count > 0 => HeadId(g) \in Int /\ HeadId(g) # 0
        BY <1>1, RecordsAre
      <4> QED
        BY <3>5, <3>6, <4>1, <4>2
    <3>8. g.count > 0 => \A id \in Asked(w[e], p[e]) : id <= HeadId(g)
      <4>1. g.count > 0 => HeadId(g) \in Int
        BY <1>1, RecordsAre
      <4> QED
        BY <3>5, <3>6, <4>1
    <3> QED
      BY <2>1, <3>2, <3>4, <3>7, <3>8, Zenon DEF Processor
  <2> QED
    BY <2>3, <2>4
<1>12. Good(b2, n, w, p, sn, d2)
  BY <1>4, <1>6, <1>7, <1>8, <1>10, <1>11, Zenon DEF Good
<1> QED
  BY <1>3, <1>12, Zenon DEF b2, g

-----------------------------------------------------------------------------
(* The steps of one processor that leave the hub alone.                    *)

LEMMA WantedAre ==
    ASSUME NEW bk, NEW h \in Hubs
    PROVE  Wanted(bk, h) \subseteq CPU
BY Zenon DEF Wanted, Hubs

LEMMA OneProcessor ==
    ASSUME IInv, NEW c \in CPU, UNCHANGED <<bank, hub, done>>, TypeOK',
           seen \subseteq seen',
           \A d \in CPU : d # c => /\ work'[d] = work[d] /\ pal'[d] = pal[d]
                                   /\ fw'[d] = fw[d],
           Asked(work'[c], pal'[c]) \subseteq Asked(work[c], pal[c]),
           Processor(bank[Mca(c)], work'[c], pal'[c], seen', done),
           c \in Wanted(bank, hub) => Announced(bank[Mca(c)], work'[c], pal'[c], seen'),
           pal[c].saved => pal'[c].saved,
           fw'[c] = "registered" => pal'[c].saved,
           hub.cpeVector => cpeIrq' \/ Records(bank[Cpe]) \subseteq seen'
    PROVE  IInv'
<1>1. ASSUME NEW d \in CPU
      PROVE  /\ Asked(work'[d], pal'[d]) \subseteq
                   Asked(work[d], pal[d]) \union Records(bank[Mca(d)])
             /\ Processor(bank[Mca(d)], work'[d], pal'[d], seen', done)
             /\ d \in Wanted(bank, hub) =>
                   Announced(bank[Mca(d)], work'[d], pal'[d], seen')
             /\ d \in hub.online \/ fw'[d] = "registered" => pal'[d].saved
  <2>1. CASE d = c
    BY <2>1, Zenon DEF IInv, Registered
  <2>2. CASE d # c
    <3>1. work'[d] = work[d] /\ pal'[d] = pal[d] /\ fw'[d] = fw[d]
      BY <2>2
    <3>2. Processor(bank[Mca(d)], work[d], pal[d], seen, done)
      BY Zenon DEF IInv, Good
    <3>3. Processor(bank[Mca(d)], work[d], pal[d], seen', done)
      BY <3>2, Zenon DEF Processor
    <3>4. ASSUME d \in Wanted(bank, hub)
          PROVE  Announced(bank[Mca(d)], work[d], pal[d], seen')
      BY <3>4, Zenon DEF IInv, Announced
    <3> QED
      BY <3>1, <3>3, <3>4, ZenonT(60) DEF IInv, Registered
  <2> QED
    BY <2>1, <2>2, Zenon
<1>2. Good(bank, hub.next, work, pal, seen, done)
  BY DEF IInv
<1>3. Good(bank, hub.next, work', pal', seen', done)
  BY <1>1, <1>2, SameBanks, Zenon
<1>4. Wanted(bank, hub) \subseteq CPU
  BY WantedAre DEF IInv, TypeOK
<1>5. \A d \in Wanted(bank, hub) : Announced(bank[Mca(d)], work'[d], pal'[d], seen')
  BY <1>1, <1>4, ZenonT(60)
<1>6. bank' = bank /\ hub' = hub /\ done' = done
  BY ZenonT(60)
<1>7. Good(bank, hub.next, work, pal, seen, done)'
  BY <1>3, <1>6, Zenon
<1>8. (\A d \in Wanted(bank, hub) : Announced(bank[Mca(d)], work[d], pal[d], seen))'
  BY <1>5, <1>6, Zenon
<1>9. (hub.cpeVector => cpeIrq \/ Records(bank[Cpe]) \subseteq seen)'
  BY <1>6, Zenon
<1>10. Registered'
  BY <1>1, <1>6, ZenonT(60) DEF Registered
<1> QED
  BY <1>7, <1>8, <1>9, <1>10, ZenonT(60) DEF IInv

\* What IInv says of processor c.
LEMMA ProcessorOf ==
    ASSUME IInv, NEW c \in CPU
    PROVE  /\ bank[Mca(c)] \in Rings /\ Ring(bank[Mca(c)], hub.next)
           /\ hub.next \in Nat /\ hub.next \in 1 .. MaxId + 1 /\ MaxId \in Nat
           /\ bank[Mca(c)].count \in Nat
           /\ work[c] \in Seq(Id) /\ Len(work[c]) <= MaxWork /\ pal[c] \in Pals
           /\ pal[c].pending \in 0 .. MaxId /\ pal[c].active \in 0 .. MaxId
           /\ Processor(bank[Mca(c)], work[c], pal[c], seen, done)
           /\ c \in Wanted(bank, hub) =>
                 /\ Announced(bank[Mca(c)], work[c], pal[c], seen)
                 /\ c \in hub.online /\ bank[Mca(c)].count > 0 /\ pal[c].saved
<1>1. Mca(c) \in Bank
  BY Banks
<1>2. bank[Mca(c)] \in Rings
  BY <1>1 DEF IInv, TypeOK
<1>3. Ring(bank[Mca(c)], hub.next) /\ Processor(bank[Mca(c)], work[c], pal[c], seen, done)
  BY <1>1, Zenon DEF IInv, Good
<1>4. hub.next \in 1 .. MaxId + 1 /\ MaxId \in Nat
  BY BoundAssumption DEF IInv, TypeOK, Hubs
<1>5. /\ work[c] \in Seq(Id) /\ Len(work[c]) <= MaxWork /\ pal[c] \in Pals
      /\ pal[c].pending \in 0 .. MaxId /\ pal[c].active \in 0 .. MaxId
  BY DEF IInv, TypeOK, Pals
<1>6. bank[Mca(c)].count \in Nat
  BY <1>2, RingFields, ZenonT(60)
<1>7. ASSUME c \in Wanted(bank, hub)
      PROVE  /\ Announced(bank[Mca(c)], work[c], pal[c], seen)
             /\ c \in hub.online /\ bank[Mca(c)].count > 0 /\ pal[c].saved
  BY <1>7 DEF IInv, Wanted, Registered
<1> QED
  BY <1>2, <1>3, <1>4, <1>5, <1>6, <1>7

LEMMA DoWorkIInv ==
    ASSUME IInv, NEW c \in CPU, DoWork(c)
    PROVE  IInv'
<1> DEFINE id == Head(work[c])
           q == RequestMca(pal[c], id)
           v == Tail(work[c])
           k == bank[Mca(c)]
<1>0. /\ work[c] # <<>> /\ pal' = [pal EXCEPT ![c] = q] /\ work' = [work EXCEPT ![c] = v]
      /\ UNCHANGED <<bank, hub, fw, osMca, cpeIrq, seen, done, untidy, resets>>
  BY Zenon DEF DoWork, history
<1>1. /\ work[c] \in Seq(Id) /\ Len(work[c]) <= MaxWork /\ pal[c] \in Pals
      /\ Processor(k, work[c], pal[c], seen, done)
      /\ c \in Wanted(bank, hub) => /\ Announced(k, work[c], pal[c], seen)
                                    /\ k.count > 0
  BY ProcessorOf
<1>2. /\ id \in Id /\ v \in Seq(Id) /\ Queued(work[c]) = {id} \union Queued(v)
      /\ Len(v) <= Len(work[c]) /\ Len(work[c]) \in Nat
  BY <1>0, <1>1, QueueOf
<1>3. Len(v) \in Nat /\ Len(v) <= MaxWork
  BY <1>1, <1>2, BoundAssumption
<1> HIDE DEF id, v, k
<1>4. /\ q \in Pals /\ q.active = pal[c].active /\ q.saved = pal[c].saved
      /\ q.pending = IF id # pal[c].active /\ id # pal[c].pending
                     THEN id ELSE pal[c].pending
  BY <1>1, <1>2, RequestIs, Zenon
<1> HIDE DEF q
<1>5. /\ pal'[c] = q /\ work'[c] = v
      /\ \A d \in CPU : d # c => work'[d] = work[d] /\ pal'[d] = pal[d]
      /\ pal' \in [CPU -> Pals] /\ work' \in [CPU -> Seq(Id)]
  BY <1>0, <1>2, <1>4, Zenon DEF IInv, TypeOK
<1>6. TypeOK'
  <2>1. \A d \in CPU : Len(work'[d]) <= MaxWork
    BY <1>3, <1>5, Zenon DEF IInv, TypeOK
  <2> QED
    BY <1>0, <1>5, <2>1 DEF IInv, TypeOK
<1>7. id # 0
  BY <1>2 DEF Id
<1>8. Asked(v, q) \subseteq Asked(work[c], pal[c])
  BY <1>2, <1>4, <1>7 DEF Asked
<1>9. Processor(k, v, q, seen, done)
  <2>1. q.pending # 0 => q.pending # q.active
    BY <1>1, <1>4 DEF Processor
  <2>2. q.pending \notin done
    BY <1>1, <1>2, <1>4 DEF Processor
  <2>3. \A i \in Queued(v) : i \in done => i = q.active
    BY <1>1, <1>2, <1>4 DEF Processor
  <2> QED
    BY <1>1, <1>4, <1>8, <2>1, <2>2, <2>3, Zenon DEF Processor
<1>10. ASSUME c \in Wanted(bank, hub) PROVE Announced(k, v, q, seen)
  <2>1. k.count > 0 /\ (HeadId(k) \in seen \/ HeadId(k) \in Queued(work[c]) \/ pal[c].pending # 0)
    BY <1>1, <1>10 DEF Announced
  <2>2. CASE HeadId(k) \in seen
    BY <2>2 DEF Announced
  <2>3. CASE HeadId(k) = id
    <3>1. CASE id = pal[c].active
      BY <1>1, <2>1, <2>3, <3>1 DEF Announced, Processor
    <3>2. CASE id # pal[c].active
      BY <1>4, <1>7, <3>2 DEF Announced
    <3> QED
      BY <3>1, <3>2
  <2>4. CASE HeadId(k) \in Queued(v)
    BY <2>4 DEF Announced
  <2>5. CASE pal[c].pending # 0
    BY <1>4, <1>7, <2>5, ZenonT(60) DEF Announced
  <2> QED
    BY <1>2, <2>1, <2>2, <2>3, <2>4, <2>5, Zenon
<1>11. (fw'[c] = "registered" => pal'[c].saved) /\ (pal[c].saved => pal'[c].saved)
  BY <1>0, <1>4, <1>5 DEF IInv, Registered
<1>12. hub.cpeVector => cpeIrq' \/ Records(bank[Cpe]) \subseteq seen'
  BY <1>0 DEF IInv
<1>13. /\ seen \subseteq seen' /\ UNCHANGED <<bank, hub, done>>
       /\ \A d \in CPU : d # c => /\ work'[d] = work[d] /\ pal'[d] = pal[d]
                                  /\ fw'[d] = fw[d]
       /\ Asked(work'[c], pal'[c]) \subseteq Asked(work[c], pal[c])
       /\ Processor(bank[Mca(c)], work'[c], pal'[c], seen', done)
       /\ c \in Wanted(bank, hub) => Announced(bank[Mca(c)], work'[c], pal'[c], seen')
  BY <1>0, <1>5, <1>8, <1>9, <1>10 DEF k
<1> QED
  BY <1>6, <1>11, <1>12, <1>13, OneProcessor, Zenon

LEMMA EnterMcaIInv ==
    ASSUME IInv, NEW c \in CPU, EnterMca(c)
    PROVE  IInv'
<1> DEFINE k == bank[Mca(c)]
           q == Entered(pal[c])
<1>0. /\ pal' = [pal EXCEPT ![c] = q]
      /\ fw' = [fw EXCEPT ![c] = IF osMca THEN "handler" ELSE "halted"]
      /\ seen' = seen \union (IF k.count > 0 THEN {HeadId(k)} ELSE {})
      /\ pal[c].pending # 0 /\ pal[c].active = 0
      /\ UNCHANGED <<bank, hub, work, osMca, cpeIrq, done, untidy, resets>>
  BY Zenon DEF EnterMca
<1>1. /\ k \in Rings /\ Ring(k, hub.next) /\ hub.next \in Nat /\ hub.next \in 1 .. MaxId + 1
      /\ MaxId \in Nat /\ work[c] \in Seq(Id) /\ pal[c] \in Pals
      /\ Processor(k, work[c], pal[c], seen, done)
  BY ProcessorOf, Zenon
<1>2. k.count > 0 => HeadId(k) \in Id
  <2>1. k.count > 0 => HeadId(k) \in 1 .. hub.next - 1
    BY <1>1, RecordsAre
  <2> QED
    BY <1>1, <2>1, SMTT(40) DEF Id
<1> HIDE DEF k
<1>3. /\ q \in Pals /\ q.pending = 0 /\ q.active = pal[c].pending
      /\ q.saved = pal[c].saved
  <2>1. 0 \in 0 .. MaxId
    BY <1>1
  <2>2. q = [pal[c] EXCEPT !.pending = 0, !.active = pal[c].pending, !.mc = TRUE]
    BY DEF Entered
  <2> HIDE DEF q
  <2> QED
    BY <1>1, <2>1, <2>2, Zenon DEF Pals
<1> HIDE DEF q
<1>4. /\ pal'[c] = q /\ \A d \in CPU : d # c => pal'[d] = pal[d] /\ fw'[d] = fw[d]
      /\ pal' \in [CPU -> Pals]
  BY <1>0, <1>3, Zenon DEF IInv, TypeOK
<1>5. fw' \in [CPU -> Places] /\ fw'[c] # "registered"
  BY <1>0, Zenon DEF IInv, TypeOK, Places
<1>6. TypeOK'
  <2>1. seen' \subseteq Id
    BY <1>0, <1>2 DEF IInv, TypeOK
  <2> QED
    BY <1>0, <1>4, <1>5, <2>1, Zenon DEF IInv, TypeOK
<1>7. 0 \notin done /\ Queued(work[c]) \subseteq Id /\ 0 \notin Id
  BY <1>1, QueueOf, SMTT(40) DEF IInv, TypeOK, Id
<1>8. Asked(work[c], q) \subseteq Asked(work[c], pal[c])
  BY <1>3 DEF Asked
<1>9. Processor(k, work[c], q, seen', done)
  <2>1. k.count > 0 => HeadId(k) \in seen'
    BY <1>0
  <2>2. \A i \in Queued(work[c]) : i \notin done
    BY <1>0, <1>1, <1>7 DEF Processor
  <2> QED
    BY <1>1, <1>3, <1>7, <1>8, <2>1, <2>2, Zenon DEF Processor
<1>10. ASSUME c \in Wanted(bank, hub) PROVE Announced(k, work[c], q, seen')
  <2>1. k.count > 0
    BY <1>10, Zenon DEF k, Wanted
  <2> QED
    BY <1>0, <2>1 DEF Announced
<1>11. hub.cpeVector => cpeIrq' \/ Records(bank[Cpe]) \subseteq seen'
  BY <1>0, Zenon DEF IInv
<1>12. /\ seen \subseteq seen' /\ UNCHANGED <<bank, hub, done>>
       /\ \A d \in CPU : d # c => /\ work'[d] = work[d] /\ pal'[d] = pal[d]
                                  /\ fw'[d] = fw[d]
       /\ Asked(work'[c], pal'[c]) \subseteq Asked(work[c], pal[c])
       /\ Processor(bank[Mca(c)], work'[c], pal'[c], seen', done)
       /\ c \in Wanted(bank, hub) => Announced(bank[Mca(c)], work'[c], pal'[c], seen')
       /\ pal[c].saved => pal'[c].saved
       /\ fw'[c] = "registered" => pal'[c].saved
  BY <1>0, <1>3, <1>4, <1>5, <1>8, <1>9, <1>10, Zenon DEF k
<1> QED
  BY <1>6, <1>11, <1>12, OneProcessor, Zenon

LEMMA DropMcaIInv ==
    ASSUME IInv, NEW c \in CPU, DropMca(c)
    PROVE  IInv'
<1> DEFINE q == [pal[c] EXCEPT !.pending = 0]
<1>0. /\ pal' = [pal EXCEPT ![c] = q] /\ ~pal[c].saved
      /\ UNCHANGED <<bank, hub, work, fw, osMca, cpeIrq, seen, done, untidy, resets>>
  BY Zenon DEF DropMca, history
<1>1. /\ MaxId \in Nat /\ pal[c] \in Pals /\ work[c] \in Seq(Id)
      /\ Processor(bank[Mca(c)], work[c], pal[c], seen, done)
      /\ c \in Wanted(bank, hub) => pal[c].saved
  BY ProcessorOf
<1>2. /\ q \in Pals /\ q.pending = 0 /\ q.active = pal[c].active
      /\ q.saved = pal[c].saved
  <2>1. 0 \in 0 .. MaxId
    BY <1>1
  <2> QED
    BY <1>1, <2>1, ZenonT(60) DEF Pals
<1> HIDE DEF q
<1>3. /\ pal'[c] = q /\ \A d \in CPU : d # c => pal'[d] = pal[d]
      /\ pal' \in [CPU -> Pals]
  BY <1>0, <1>2, Zenon DEF IInv, TypeOK
<1>4. TypeOK'
  BY <1>0, <1>3, Zenon DEF IInv, TypeOK
<1>5. Asked(work[c], q) \subseteq Asked(work[c], pal[c])
  BY <1>2 DEF Asked
<1>6. 0 \notin done
  BY DEF IInv, TypeOK, Id
<1>7. Processor(bank[Mca(c)], work[c], q, seen, done)
  BY <1>1, <1>2, <1>5, <1>6, ZenonT(60) DEF Processor
<1>8. /\ hub.cpeVector => cpeIrq' \/ Records(bank[Cpe]) \subseteq seen'
      /\ fw'[c] = "registered" => pal'[c].saved
  BY <1>0, <1>2, <1>3, Zenon DEF IInv, Registered
<1>9. /\ seen \subseteq seen' /\ UNCHANGED <<bank, hub, done>>
      /\ \A d \in CPU : d # c => /\ work'[d] = work[d] /\ pal'[d] = pal[d]
                                 /\ fw'[d] = fw[d]
      /\ Asked(work'[c], pal'[c]) \subseteq Asked(work[c], pal[c])
      /\ Processor(bank[Mca(c)], work'[c], pal'[c], seen', done)
      /\ c \in Wanted(bank, hub) => Announced(bank[Mca(c)], work'[c], pal'[c], seen')
      /\ pal[c].saved => pal'[c].saved
  BY <1>0, <1>1, <1>2, <1>3, <1>5, <1>7, Zenon
<1> QED
  BY <1>4, <1>8, <1>9, OneProcessor, Zenon

\* Steps of processor c after which its requests are the ones before, but
\* for the machine check it left.
LEMMA SoftwareIInv ==
    ASSUME IInv, NEW c \in CPU, NEW q \in Pals, pal' = [pal EXCEPT ![c] = q],
           q.pending = pal[c].pending,
           q.active = pal[c].active \/ (q.active = 0 /\ work[c] = <<>>),
           pal[c].saved => q.saved, fw' \in [CPU -> Places],
           \A d \in CPU : d # c => fw'[d] = fw[d],
           fw'[c] = "registered" => q.saved,
           osMca' \in BOOLEAN, untidy' \subseteq CPU,
           UNCHANGED <<bank, hub, work, cpeIrq, seen, done, resets>>
    PROVE  IInv'
<1>1. /\ work[c] \in Seq(Id) /\ bank[Mca(c)] \in Rings /\ hub.next \in Nat
      /\ Ring(bank[Mca(c)], hub.next)
      /\ Processor(bank[Mca(c)], work[c], pal[c], seen, done)
      /\ c \in Wanted(bank, hub) => Announced(bank[Mca(c)], work[c], pal[c], seen)
  BY ProcessorOf, Zenon
<1>2. /\ pal'[c] = q /\ \A d \in CPU : d # c => pal'[d] = pal[d]
      /\ pal' \in [CPU -> Pals]
  BY Zenon DEF IInv, TypeOK
<1>3. TypeOK'
  BY <1>2, Zenon DEF IInv, TypeOK
<1>4. Asked(work[c], q) \subseteq Asked(work[c], pal[c])
  BY ZenonT(60) DEF Asked
<1>5. Processor(bank[Mca(c)], work[c], q, seen, done)
  <2>1. CASE q.active = pal[c].active
    BY <1>1, <1>4, <2>1, Zenon DEF Processor
  <2>2. CASE q.active = 0 /\ work[c] = <<>>
    <3>1. bank[Mca(c)].count > 0 => HeadId(bank[Mca(c)]) # 0
      BY <1>1, RecordsAre, SMTT(40)
    <3>2. Queued(work[c]) = {}
      BY <2>2, QueueOf, <1>1, ZenonT(60)
    <3> QED
      BY <1>1, <1>4, <2>2, <3>1, <3>2, ZenonT(60) DEF Processor
  <2> QED
    BY <2>1, <2>2
<1>6. hub.cpeVector => cpeIrq' \/ Records(bank[Cpe]) \subseteq seen'
  BY DEF IInv
<1>7. c \in Wanted(bank, hub) => Announced(bank[Mca(c)], work[c], q, seen)
  BY <1>1 DEF Announced
<1>8. /\ seen \subseteq seen' /\ UNCHANGED <<bank, hub, done>>
      /\ \A d \in CPU : d # c => /\ work'[d] = work[d] /\ pal'[d] = pal[d]
                                 /\ fw'[d] = fw[d]
      /\ Asked(work'[c], pal'[c]) \subseteq Asked(work[c], pal[c])
      /\ Processor(bank[Mca(c)], work'[c], pal'[c], seen', done)
      /\ c \in Wanted(bank, hub) => Announced(bank[Mca(c)], work'[c], pal'[c], seen')
      /\ pal[c].saved => pal'[c].saved
      /\ fw'[c] = "registered" => pal'[c].saved
  BY <1>2, <1>4, <1>5, <1>7, Zenon
<1> QED
  BY <1>3, <1>6, <1>8, OneProcessor, ZenonT(60)

LEMMA RegisterMemIInv ==
    ASSUME IInv, NEW c \in CPU, RegisterMem(c)
    PROVE  IInv'
<1> DEFINE q == [pal[c] EXCEPT !.saved = TRUE]
<1>0. /\ pal' = [pal EXCEPT ![c] = q] /\ fw' = [fw EXCEPT ![c] = "registered"]
      /\ UNCHANGED <<bank, hub, work, osMca, cpeIrq, seen, done, untidy, resets>>
  BY DEF RegisterMem, history
<1>1. /\ q \in Pals /\ q.saved /\ q.pending = pal[c].pending /\ q.active = pal[c].active
  BY ProcessorOf, Zenon DEF Pals
<1> HIDE DEF q
<1>2. /\ fw' \in [CPU -> Places] /\ \A d \in CPU : d # c => fw'[d] = fw[d]
  <2>1. "registered" \in Places
    BY DEF Places
  <2> QED
    BY <1>0, <2>1, Zenon DEF IInv, TypeOK
<1>3. osMca' \in BOOLEAN /\ untidy' \subseteq CPU
  BY <1>0 DEF IInv, TypeOK
<1>4. UNCHANGED <<bank, hub, work, cpeIrq, seen, done, resets>>
  BY <1>0
<1> QED
  BY <1>0, <1>1, <1>2, <1>3, <1>4, SoftwareIInv, Zenon

LEMMA WritePsrMcIInv ==
    ASSUME IInv, NEW c \in CPU, WritePsrMc(c)
    PROVE  IInv'
<1> DEFINE q == [pal[c] EXCEPT !.mc = ~@]
<1>0. /\ pal' = [pal EXCEPT ![c] = q]
      /\ UNCHANGED <<bank, hub, work, fw, osMca, cpeIrq, seen, done, untidy, resets>>
  BY DEF WritePsrMc, history
<1>1. /\ q \in Pals /\ q.saved = pal[c].saved /\ q.pending = pal[c].pending
      /\ q.active = pal[c].active
  BY ProcessorOf, ZenonT(60) DEF Pals
<1> HIDE DEF q
<1>2. /\ fw' \in [CPU -> Places] /\ \A d \in CPU : d # c => fw'[d] = fw[d]
      /\ fw'[c] = "registered" => q.saved
  BY <1>0, <1>1, Zenon DEF IInv, TypeOK, Registered
<1>3. osMca' \in BOOLEAN /\ untidy' \subseteq CPU
  BY <1>0 DEF IInv, TypeOK
<1>4. UNCHANGED <<bank, hub, work, cpeIrq, seen, done, resets>>
  BY <1>0
<1> QED
  BY <1>0, <1>1, <1>2, <1>3, <1>4, SoftwareIInv, Zenon

LEMMA ResumeIInv ==
    ASSUME IInv, NEW c \in CPU, Resume(c)
    PROVE  IInv'
<1> DEFINE q == [pal[c] EXCEPT !.active = 0, !.mc = FALSE]
<1>0. /\ pal' = [pal EXCEPT ![c] = q] /\ fw' = [fw EXCEPT ![c] = "os"]
      /\ work[c] = <<>>
      /\ UNCHANGED <<bank, hub, work, osMca, cpeIrq, seen, done, resets>>
  BY ZenonT(60) DEF Resume, Runs
<1>1. /\ q \in Pals /\ q.saved = pal[c].saved /\ q.pending = pal[c].pending
      /\ q.active = 0
  <2>1. 0 \in 0 .. MaxId
    BY BoundAssumption
  <2> QED
    BY <2>1, ProcessorOf, Zenon DEF Pals
<1> HIDE DEF q
<1>2. /\ fw' \in [CPU -> Places] /\ \A d \in CPU : d # c => fw'[d] = fw[d]
      /\ fw'[c] # "registered"
  BY <1>0 DEF IInv, TypeOK, Places
<1>3. osMca' \in BOOLEAN /\ untidy' \subseteq CPU
  BY <1>0 DEF IInv, TypeOK, Resume
<1>4. UNCHANGED <<bank, hub, work, cpeIrq, seen, done, resets>>
  BY <1>0
<1> QED
  BY <1>0, <1>1, <1>2, <1>3, <1>4, SoftwareIInv, Zenon

-----------------------------------------------------------------------------
(* The handlers of the hub.                                                *)

\* Handlers that end in ia64_ras_try_deliver_mca.
LEMMA DeliverIInv ==
    ASSUME IInv, NEW t, TryDeliver(t, bank', hub', pal),
           bank' \in [Bank -> Rings], hub' \in Hubs,
           Good(bank', hub'.next, work, pal, seen', done'),
           fw' \in [CPU -> Places], osMca' \in BOOLEAN, cpeIrq' \in BOOLEAN,
           seen' \subseteq Id, done' \subseteq Id, untidy' \subseteq CPU,
           resets' \in 0 .. MaxResets,
           hub'.cpeVector => cpeIrq' \/ Records(bank'[Cpe]) \subseteq seen',
           \A c \in CPU : c \in hub'.online \/ fw'[c] = "registered" => pal[c].saved
    PROVE  IInv'
<1>1. work \in [CPU -> Seq(Id)] /\ pal \in [CPU -> Pals]
  BY DEF IInv, TypeOK
<1>2. /\ Good(bank', hub'.next, work', pal', seen', done')
      /\ \A c \in Wanted(bank', hub') : Announced(bank'[Mca(c)], work'[c], pal'[c], seen')
      /\ work' \in [CPU -> Seq(Id)] /\ pal' \in [CPU -> Pals]
      /\ \A c \in CPU : Len(work'[c]) <= MaxWork
      /\ \A c \in CPU : pal'[c].saved = pal[c].saved
  BY <1>1, Delivered, ZenonT(60)
<1>3. TypeOK'
  BY <1>2, Zenon DEF TypeOK
<1>4. Registered'
  BY <1>2, Zenon DEF Registered
<1>5. (\A c \in Wanted(bank, hub) : Announced(bank[Mca(c)], work[c], pal[c], seen))'
  BY <1>2, Zenon
<1> QED
  BY <1>2, <1>3, <1>4, <1>5, ZenonT(60) DEF IInv

LEMMA CpuOnlineIInv ==
    ASSUME IInv, NEW c \in CPU, CpuOnline(c)
    PROVE  IInv'
<1>0. /\ hub' = [hub EXCEPT !.online = @ \union {c}] /\ fw[c] = "registered"
      /\ TryDeliver(c, bank, hub', pal)
      /\ fw' = [fw EXCEPT ![c] = IF c = 0 THEN "online" ELSE "os"]
      /\ UNCHANGED <<bank, osMca, cpeIrq, seen, done, untidy, resets>>
  BY DEF CpuOnline, history
<1>1. /\ hub' \in Hubs /\ hub'.next = hub.next /\ hub'.cpeVector = hub.cpeVector
      /\ hub'.online = hub.online \union {c}
  BY <1>0, Zenon DEF IInv, TypeOK, Hubs
<1>2. bank' = bank /\ TryDeliver(c, bank', hub', pal) /\ bank' \in [Bank -> Rings]
  BY <1>0 DEF IInv, TypeOK
<1>3. Good(bank', hub'.next, work, pal, seen', done')
  BY <1>0, <1>1, Zenon DEF IInv
<1>4. /\ fw' \in [CPU -> Places] /\ fw'[c] # "registered"
      /\ \A d \in CPU : d # c => fw'[d] = fw[d]
  BY <1>0 DEF IInv, TypeOK, Places
<1>5. /\ osMca' \in BOOLEAN /\ cpeIrq' \in BOOLEAN /\ seen' \subseteq Id
      /\ done' \subseteq Id /\ untidy' \subseteq CPU /\ resets' \in 0 .. MaxResets
  BY <1>0 DEF IInv, TypeOK
<1>6. hub'.cpeVector => cpeIrq' \/ Records(bank'[Cpe]) \subseteq seen'
  BY <1>0, <1>1 DEF IInv
<1>7. \A d \in CPU : d \in hub'.online \/ fw'[d] = "registered" => pal[d].saved
  BY <1>0, <1>1, <1>4 DEF IInv, Registered
<1> QED
  BY <1>1, <1>2, <1>3, <1>4, <1>5, <1>6, <1>7, DeliverIInv, Zenon

LEMMA McaEntryIInv ==
    ASSUME IInv, McaEntry
    PROVE  IInv'
<1>0. /\ hub' = [hub EXCEPT !.entry = TRUE] /\ TryDeliver(0, bank, hub', pal)
      /\ fw' = [fw EXCEPT ![0] = "os"]
      /\ UNCHANGED <<bank, osMca, cpeIrq, seen, done, untidy, resets>>
  BY DEF McaEntry, history
<1>1. /\ hub' \in Hubs /\ hub'.next = hub.next /\ hub'.cpeVector = hub.cpeVector
      /\ hub'.online = hub.online
  BY <1>0, Zenon DEF IInv, TypeOK, Hubs
<1>2. bank' = bank /\ TryDeliver(0, bank', hub', pal) /\ bank' \in [Bank -> Rings]
  BY <1>0 DEF IInv, TypeOK
<1>3. Good(bank', hub'.next, work, pal, seen', done')
  BY <1>0, <1>1, Zenon DEF IInv
<1>4. /\ fw' \in [CPU -> Places] /\ fw'[0] # "registered"
      /\ \A d \in CPU : d # 0 => fw'[d] = fw[d]
  BY <1>0, CpuAssumption DEF IInv, TypeOK, Places
<1>5. /\ osMca' \in BOOLEAN /\ cpeIrq' \in BOOLEAN /\ seen' \subseteq Id
      /\ done' \subseteq Id /\ untidy' \subseteq CPU /\ resets' \in 0 .. MaxResets
  BY <1>0 DEF IInv, TypeOK
<1>6. hub'.cpeVector => cpeIrq' \/ Records(bank'[Cpe]) \subseteq seen'
  BY <1>0, <1>1 DEF IInv
<1>7. \A d \in CPU : d \in hub'.online \/ fw'[d] = "registered" => pal[d].saved
  BY <1>0, <1>1, <1>4 DEF IInv, Registered
<1> QED
  BY <1>1, <1>2, <1>3, <1>4, <1>5, <1>6, <1>7, DeliverIInv, Zenon

LEMMA ReloadIInv ==
    ASSUME IInv, Reload
    PROVE  IInv'
<1>0. /\ TryDeliver(DEVICE, bank, hub, pal)
      /\ UNCHANGED <<bank, hub, fw, osMca, cpeIrq, seen, done, untidy, resets>>
  BY DEF Reload, history
<1>1. /\ TryDeliver(DEVICE, bank', hub', pal) /\ bank' \in [Bank -> Rings]
      /\ hub' \in Hubs /\ fw' \in [CPU -> Places]
      /\ osMca' \in BOOLEAN /\ cpeIrq' \in BOOLEAN /\ seen' \subseteq Id
      /\ done' \subseteq Id /\ untidy' \subseteq CPU /\ resets' \in 0 .. MaxResets
  BY <1>0 DEF IInv, TypeOK
<1>2. Good(bank', hub'.next, work, pal, seen', done')
  BY <1>0, ZenonT(60) DEF IInv
<1>3. hub'.cpeVector => cpeIrq' \/ Records(bank'[Cpe]) \subseteq seen'
  BY <1>0, ZenonT(60) DEF IInv
<1>4. \A d \in CPU : d \in hub'.online \/ fw'[d] = "registered" => pal[d].saved
  BY <1>0 DEF IInv, Registered
<1> QED
  BY <1>1, <1>2, <1>3, <1>4, DeliverIInv, Zenon

LEMMA ReportMcaIInv ==
    ASSUME IInv, NEW c \in CPU, NEW t, ReportMca(c, t)
    PROVE  IInv'
<1> DEFINE b == Mca(c)
<1>0. /\ hub.next <= MaxId /\ bank' = [bank EXCEPT ![b] = Queue(@, hub.next)]
      /\ hub' = [hub EXCEPT !.next = @ + 1]
      /\ IF bank[b].count = RecordDepth THEN UNCHANGED <<pal, work>>
         ELSE TryDeliver(t, bank', hub, pal)
      /\ UNCHANGED <<fw, osMca, cpeIrq, seen, done, untidy, resets>>
  BY Zenon DEF ReportMca, history
<1>1. hub.next \in Id /\ hub.next \in Nat /\ MaxId \in Nat /\ hub \in Hubs
  BY <1>0, BoundAssumption DEF IInv, TypeOK, Hubs, Id
<1>2. /\ hub' \in Hubs /\ hub'.next = hub.next + 1 /\ hub'.cpeVector = hub.cpeVector
      /\ hub'.online = hub.online /\ hub'.entry = hub.entry
  <2>1. hub.next + 1 \in 1 .. MaxId + 1
    BY <1>0, <1>1
  <2> QED
    BY <1>0, <1>1, <2>1, Zenon DEF Hubs
<1>3. b \in Bank /\ b # Cpe /\ Cpe \in Bank
  BY Banks
<1> HIDE DEF b
<1>4. bank' \in [Bank -> Rings] /\ Good(bank', hub.next + 1, work, pal, seen, done)
  <2>1. /\ bank \in [Bank -> Rings] /\ Good(bank, hub.next, work, pal, seen, done)
        /\ \A d \in CPU : work[d] \in Seq(Id) /\ pal[d] \in Pals
    BY DEF IInv, TypeOK
  <2> QED
    BY <1>0, <1>1, <1>3, <2>1, Reported, Zenon
<1>5. Good(bank', hub'.next, work, pal, seen', done')
  BY <1>0, <1>2, <1>4
<1>6. bank'[Cpe] = bank[Cpe] /\ bank'[b] = Queue(bank[b], hub.next)
      /\ \A d \in Bank : d # b => bank'[d] = bank[d]
  BY <1>0, <1>3, Zenon DEF IInv, TypeOK
<1>7. hub'.cpeVector => cpeIrq' \/ Records(bank'[Cpe]) \subseteq seen'
  BY <1>0, <1>2, <1>6 DEF IInv
<1>8. \A d \in CPU : d \in hub'.online \/ fw'[d] = "registered" => pal[d].saved
  BY <1>0, <1>2 DEF IInv, Registered
<1>9. /\ fw' \in [CPU -> Places]
      /\ osMca' \in BOOLEAN /\ cpeIrq' \in BOOLEAN /\ seen' \subseteq Id
      /\ done' \subseteq Id /\ untidy' \subseteq CPU /\ resets' \in 0 .. MaxResets
  BY <1>0, Zenon DEF IInv, TypeOK
<1>10. CASE bank[b].count = RecordDepth
  <2>1. bank[b] \in Rings /\ Ring(bank[b], hub.next)
    BY <1>3, Zenon DEF IInv, TypeOK, Good
  <2>2. bank'[b].count = bank[b].count /\ HeadId(bank'[b]) = HeadId(bank[b])
    BY <1>1, <1>6, <1>10, <2>1, QueueFull, ZenonT(60)
  <2>3. \A d \in CPU : /\ bank'[Mca(d)].count = bank[Mca(d)].count
                       /\ HeadId(bank'[Mca(d)]) = HeadId(bank[Mca(d)])
    BY <1>6, <2>2, Banks, Zenon
  <2>4. Wanted(bank', hub') = Wanted(bank, hub) /\ Wanted(bank, hub) \subseteq CPU
    <3>1. hub.online \subseteq CPU
      BY <1>1 DEF Hubs
    <3> QED
      BY <1>2, <2>3, <3>1, Zenon DEF Wanted
  <2>5. UNCHANGED <<pal, work>>
    BY <1>0, <1>10
  <2>6. (\A d \in Wanted(bank, hub) : Announced(bank[Mca(d)], work[d], pal[d], seen))'
    BY <1>0, <2>3, <2>4, <2>5, SMTT(40) DEF IInv, Announced
  <2>7. TypeOK'
    BY <1>2, <1>4, <1>9, <2>5 DEF IInv, TypeOK
  <2>8. Registered'
    BY <1>8, <2>5 DEF Registered
  <2>9. Good(bank, hub.next, work, pal, seen, done)'
    BY <1>5, <2>5
  <2> QED
    BY <1>7, <2>6, <2>7, <2>8, <2>9, Zenon DEF IInv
<1>11. CASE bank[b].count # RecordDepth
  <2>1. TryDeliver(t, bank', hub, pal)
    BY <1>0, <1>11, Zenon
  <2>2. Wanted(bank', hub') = Wanted(bank', hub)
    BY <1>2 DEF Wanted
  <2>3. TryDeliver(t, bank', hub', pal)
    BY <2>1, <2>2, ZenonT(60) DEF TryDeliver
  <2> QED
    BY <1>2, <1>4, <1>5, <1>7, <1>8, <1>9, <2>3, DeliverIInv, Zenon
<1> QED
  BY <1>10, <1>11

\* Handlers that ask no processor for anything.
LEMMA QuietIInv ==
    ASSUME IInv, UNCHANGED <<work, pal, fw, untidy, resets>>,
           bank' \in [Bank -> Rings], hub' \in Hubs,
           hub'.online = hub.online, hub'.entry = hub.entry,
           Good(bank', hub'.next, work, pal, seen', done'),
           \A c \in CPU : bank'[Mca(c)] = bank[Mca(c)],
           osMca' \in BOOLEAN, cpeIrq' \in BOOLEAN,
           seen \subseteq seen', seen' \subseteq Id, done' \subseteq Id,
           hub'.cpeVector => cpeIrq' \/ Records(bank'[Cpe]) \subseteq seen'
    PROVE  IInv'
<1>1. TypeOK'
  BY Zenon DEF IInv, TypeOK
<1>2. Registered'
  BY Zenon DEF IInv, Registered
<1>3. Wanted(bank', hub') = Wanted(bank, hub) /\ Wanted(bank, hub) \subseteq CPU
  <2>1. hub.online \subseteq CPU
    BY Zenon DEF IInv, TypeOK, Hubs
  <2> QED
    BY <2>1 DEF Wanted
<1>4. (\A c \in Wanted(bank, hub) : Announced(bank[Mca(c)], work[c], pal[c], seen))'
  <2> SUFFICES ASSUME NEW c \in Wanted(bank, hub)
               PROVE  Announced(bank'[Mca(c)], work'[c], pal'[c], seen')
    BY <1>3, Zenon
  <2>1. Announced(bank[Mca(c)], work[c], pal[c], seen) /\ c \in CPU
    BY <1>3, Zenon DEF IInv
  <2> QED
    BY <2>1, ZenonT(60) DEF Announced
<1>5. Good(bank, hub.next, work, pal, seen, done)'
  OBVIOUS
<1> QED
  BY <1>1, <1>2, <1>4, <1>5, Zenon DEF IInv

LEMMA ReportCpeIInv ==
    ASSUME IInv, ReportCpe
    PROVE  IInv'
<1>0. /\ hub.next <= MaxId /\ bank' = [bank EXCEPT ![Cpe] = Queue(@, hub.next)]
      /\ hub' = [hub EXCEPT !.next = @ + 1]
      /\ cpeIrq' = (cpeIrq \/ (hub.cpeVector /\ bank[Cpe].count < RecordDepth))
      /\ UNCHANGED <<work, pal, fw, osMca, seen, done, untidy, resets>>
  BY DEF ReportCpe, history
<1>1. hub.next \in Id /\ hub.next \in Nat /\ MaxId \in Nat /\ hub \in Hubs
  BY <1>0, BoundAssumption DEF IInv, TypeOK, Hubs, Id
<1>2. /\ hub' \in Hubs /\ hub'.next = hub.next + 1 /\ hub'.cpeVector = hub.cpeVector
      /\ hub'.online = hub.online /\ hub'.entry = hub.entry
  <2>1. hub.next + 1 \in 1 .. MaxId + 1
    BY <1>0, <1>1
  <2> QED
    BY <1>0, <1>1, <2>1, Zenon DEF Hubs
<1>3. Cpe \in Bank
  BY Banks
<1>4. bank' \in [Bank -> Rings] /\ Good(bank', hub.next + 1, work, pal, seen, done)
  <2>1. /\ bank \in [Bank -> Rings] /\ Good(bank, hub.next, work, pal, seen, done)
        /\ \A d \in CPU : work[d] \in Seq(Id) /\ pal[d] \in Pals
    BY DEF IInv, TypeOK
  <2> QED
    BY <1>0, <1>1, <1>3, <2>1, Reported, Zenon
<1>5. Good(bank', hub'.next, work, pal, seen', done')
  BY <1>0, <1>2, <1>4
<1>6. /\ bank'[Cpe] = Queue(bank[Cpe], hub.next)
      /\ \A c \in CPU : bank'[Mca(c)] = bank[Mca(c)]
  BY <1>0, <1>3, Banks, Zenon DEF IInv, TypeOK
<1>7. hub'.cpeVector => cpeIrq' \/ Records(bank'[Cpe]) \subseteq seen'
  <2>0. /\ bank[Cpe] \in Rings /\ Ring(bank[Cpe], hub.next)
        /\ hub.cpeVector => cpeIrq \/ Records(bank[Cpe]) \subseteq seen
    BY <1>3 DEF IInv, TypeOK, Good
  <2>1. CASE bank[Cpe].count = RecordDepth
    <3>1. Records(bank'[Cpe]) = Records(bank[Cpe])
      BY <1>1, <1>6, <2>0, <2>1, QueueFull
    <3> QED
      BY <1>0, <1>2, <2>0, <3>1, Zenon
  <2>2. CASE bank[Cpe].count # RecordDepth
    <3>1. bank[Cpe].count < RecordDepth
      BY <2>0, <2>2, RingFields
    <3> QED
      BY <1>0, <1>2, <3>1, Zenon
  <2> QED
    BY <2>1, <2>2, Zenon
<1>8. /\ osMca' \in BOOLEAN /\ cpeIrq' \in BOOLEAN /\ seen \subseteq seen'
      /\ seen' \subseteq Id /\ done' \subseteq Id
  BY <1>0 DEF IInv, TypeOK
<1>9. UNCHANGED <<work, pal, fw, untidy, resets>>
  BY <1>0
<1> QED
  BY <1>2, <1>4, <1>5, <1>6, <1>7, <1>8, <1>9, QuietIInv, Zenon

LEMMA ClearIInv ==
    ASSUME IInv, NEW c \in CPU, NEW b \in Bank, Clear(c, b)
    PROVE  IInv'
<1>0. /\ b[1] = c /\ bank' = [bank EXCEPT ![b] = Pop(@)]
      /\ IF b = Mca(c) THEN TryDeliver(c, bank', hub, pal) ELSE UNCHANGED <<pal, work>>
      /\ done' = IF bank[b].count > 0
                 THEN done \union ({HeadId(bank[b])} \intersect {pal[c].active})
                 ELSE done
      /\ UNCHANGED <<hub, fw, osMca, cpeIrq, seen, untidy, resets>>
  BY Zenon DEF Clear
<1>1. hub.next \in Nat /\ hub.next \in 1 .. MaxId + 1 /\ MaxId \in Nat /\ hub \in Hubs
  BY BoundAssumption DEF IInv, TypeOK, Hubs
<1>2. bank' \in [Bank -> Rings] /\ Good(bank', hub.next, work, pal, seen, done')
  <2>1. bank \in [Bank -> Rings] /\ Good(bank, hub.next, work, pal, seen, done)
    BY ZenonT(60) DEF IInv, TypeOK
  <2>2. CASE bank[b].count > 0
    BY <1>0, <1>1, <2>1, <2>2, Cleared, Zenon
  <2>3. CASE ~(bank[b].count > 0)
    <3>1. Pop(bank[b]) = bank[b]
      <4>1. bank[b].count = 0
        BY <2>1, <2>3 DEF Rings
      <4> QED
        BY <4>1, Zenon DEF Pop
    <3>2. bank' = bank /\ done' = done
      BY <1>0, <2>1, <2>3, <3>1, Zenon
    <3> QED
      BY <2>1, <3>2, Zenon
  <2> QED
    BY <2>2, <2>3, Zenon
<1>3. Good(bank', hub'.next, work, pal, seen', done') /\ hub' \in Hubs
  BY <1>0, <1>1, <1>2
<1>4. done' \subseteq Id
  <2>1. done' \subseteq 1 .. hub.next - 1
    BY <1>2, Zenon DEF Good
  <2> QED
    BY <1>1, <2>1 DEF Id
<1>5. bank[b] \in Rings /\ Ring(bank[b], hub.next)
  BY DEF IInv, TypeOK, Good
<1>6. Records(bank'[Cpe]) \subseteq Records(bank[Cpe])
  <2>1. Records(Pop(bank[b])) \subseteq Records(bank[b])
    <3>1. CASE bank[b].count > 0
      BY <1>1, <1>5, <3>1, PopRing
    <3>2. CASE ~(bank[b].count > 0)
      <4>1. bank[b].count = 0
        BY <1>5, <3>2 DEF Rings
      <4> QED
        BY <4>1, Zenon DEF Pop
    <3> QED
      BY <3>1, <3>2, Zenon
  <2>2. \A d \in Bank : bank'[d] = IF d = b THEN Pop(bank[b]) ELSE bank[d]
    BY <1>0, Zenon DEF IInv, TypeOK
  <2> QED
    BY <2>1, <2>2, Banks, Zenon
<1>7. hub'.cpeVector => cpeIrq' \/ Records(bank'[Cpe]) \subseteq seen'
  BY <1>0, <1>6, Zenon DEF IInv
<1>8. /\ fw' \in [CPU -> Places]
      /\ osMca' \in BOOLEAN /\ cpeIrq' \in BOOLEAN /\ seen' \subseteq Id
      /\ untidy' \subseteq CPU /\ resets' \in 0 .. MaxResets /\ seen \subseteq seen'
  BY <1>0, Zenon DEF IInv, TypeOK
<1>9. CASE b = Mca(c)
  <2>1. TryDeliver(c, bank', hub', pal)
    BY <1>0, <1>9, Zenon
  <2>2. \A d \in CPU : d \in hub'.online \/ fw'[d] = "registered" => pal[d].saved
    BY <1>0 DEF IInv, Registered
  <2> QED
    BY <1>2, <1>3, <1>4, <1>7, <1>8, <2>1, <2>2, DeliverIInv, ZenonT(60)
<1>10. CASE b # Mca(c)
  <2>1. \A d \in CPU : Mca(d) # b
    BY <1>0, <1>10, Banks, Zenon
  <2>2. \A d \in CPU : bank'[Mca(d)] = bank[Mca(d)]
    BY <1>0, <2>1, Banks, ZenonT(60) DEF IInv, TypeOK
  <2>3. UNCHANGED <<work, pal, fw, untidy, resets>>
    BY <1>0, <1>10, Zenon
  <2>4. hub'.online = hub.online /\ hub'.entry = hub.entry
    BY <1>0, Zenon
  <2> QED
    BY <1>2, <1>3, <1>4, <1>7, <1>8, <2>2, <2>3, <2>4, QuietIInv, ZenonT(60)
<1> QED
  BY <1>9, <1>10

LEMMA SetOsMcaIInv ==
    ASSUME IInv, SetOsMca
    PROVE  IInv'
<1>0. osMca' = TRUE /\ UNCHANGED <<bank, hub, work, pal, fw, cpeIrq, seen, done, untidy, resets>>
  BY DEF SetOsMca, history
<1> QED
  BY <1>0, Zenon DEF IInv, TypeOK, Registered

LEMMA CpeBank ==
    ASSUME IInv
    PROVE  /\ bank[Cpe] \in Rings /\ Ring(bank[Cpe], hub.next) /\ hub.next \in Nat
           /\ hub.next \in 1 .. MaxId + 1 /\ MaxId \in Nat
<1>1. bank \in [Bank -> Rings] /\ hub \in Hubs /\ \A b \in Bank : Ring(bank[b], hub.next)
  BY Zenon DEF IInv, TypeOK, Good
<1>2. Cpe \in Bank
  BY Banks
<1>3. bank[Cpe] \in Rings /\ Ring(bank[Cpe], hub.next)
  BY <1>1, <1>2, Zenon
<1>4. hub.next \in 1 .. MaxId + 1 /\ MaxId \in Nat
  BY <1>1, BoundAssumption DEF Hubs
<1>5. hub.next \in Nat
  BY <1>4
<1> QED
  BY <1>3, <1>4, <1>5, Zenon

LEMMA SetCpeVectorIInv ==
    ASSUME IInv, SetCpeVector
    PROVE  IInv'
<1>0. /\ hub' = [hub EXCEPT !.cpeVector = TRUE]
      /\ cpeIrq' = (cpeIrq \/ bank[Cpe].count > 0)
      /\ UNCHANGED <<bank, work, pal, fw, osMca, seen, done, untidy, resets>>
  BY DEF SetCpeVector, history
<1>1. /\ hub' \in Hubs /\ hub'.next = hub.next
      /\ hub'.online = hub.online /\ hub'.entry = hub.entry
  BY <1>0, Zenon DEF IInv, TypeOK, Hubs
<1>2. Good(bank', hub'.next, work, pal, seen', done') /\ bank' \in [Bank -> Rings]
  BY <1>0, <1>1 DEF IInv, TypeOK
<1>3. hub'.cpeVector => cpeIrq' \/ Records(bank'[Cpe]) \subseteq seen'
  <2>1. /\ bank[Cpe] \in Rings /\ Ring(bank[Cpe], hub.next) /\ hub.next \in Nat
    BY CpeBank, Zenon
  <2>2. bank[Cpe].count > 0 \/ Records(bank[Cpe]) = {}
    BY <2>1, RecordsAre, RingFields
  <2> QED
    BY <1>0, <2>2, Zenon
<1>4. /\ osMca' \in BOOLEAN /\ cpeIrq' \in BOOLEAN /\ seen \subseteq seen'
      /\ seen' \subseteq Id /\ done' \subseteq Id
  BY <1>0 DEF IInv, TypeOK
<1>5. /\ UNCHANGED <<work, pal, fw, untidy, resets>>
      /\ \A c \in CPU : bank'[Mca(c)] = bank[Mca(c)]
  BY <1>0
<1> QED
  BY <1>1, <1>2, <1>3, <1>4, <1>5, QuietIInv, Zenon

LEMMA AcceptCpeIInv ==
    ASSUME IInv, AcceptCpe
    PROVE  IInv'
<1>0. /\ cpeIrq' = FALSE /\ seen' = seen \union Records(bank[Cpe])
      /\ UNCHANGED <<bank, hub, work, pal, fw, osMca, done, untidy, resets>>
  BY DEF AcceptCpe
<1>1. /\ bank[Cpe] \in Rings /\ Ring(bank[Cpe], hub.next) /\ hub.next \in Nat
      /\ hub.next \in 1 .. MaxId + 1 /\ MaxId \in Nat
  BY CpeBank, Zenon
<1>2. Records(bank[Cpe]) \subseteq Id
  <2>1. Records(bank[Cpe]) \subseteq 1 .. hub.next - 1
    BY <1>1, RecordsAre
  <2> QED
    BY <1>1, <2>1 DEF Id
<1>3. /\ osMca' \in BOOLEAN /\ cpeIrq' \in BOOLEAN /\ seen \subseteq seen'
      /\ seen' \subseteq Id /\ done' \subseteq Id
      /\ bank' \in [Bank -> Rings] /\ hub' \in Hubs
  BY <1>0, <1>2, ZenonT(60) DEF IInv, TypeOK
<1>4. Good(bank, hub.next, work, pal, seen', done)
  <2>1. Good(bank, hub.next, work, pal, seen, done)
    BY Zenon DEF IInv
  <2>2. ASSUME NEW c \in CPU
        PROVE  /\ Asked(work[c], pal[c]) \subseteq
                     Asked(work[c], pal[c]) \union Records(bank[Mca(c)])
               /\ Processor(bank[Mca(c)], work[c], pal[c], seen', done)
    <3>1. Processor(bank[Mca(c)], work[c], pal[c], seen, done)
      BY <2>1 DEF Good
    <3> QED
      BY <1>3, <3>1, Zenon DEF Processor
  <2> QED
    BY <2>1, <2>2, SameBanks, Zenon
<1>5. /\ UNCHANGED <<work, pal, fw, untidy, resets>>
      /\ hub'.online = hub.online /\ hub'.entry = hub.entry
      /\ \A c \in CPU : bank'[Mca(c)] = bank[Mca(c)]
      /\ hub'.cpeVector => cpeIrq' \/ Records(bank'[Cpe]) \subseteq seen'
      /\ Good(bank', hub'.next, work, pal, seen', done')
  BY <1>0, <1>4, Zenon
<1> QED
  BY <1>3, <1>5, QuietIInv, Zenon

LEMMA SystemResetIInv ==
    ASSUME IInv, SystemReset
    PROVE  IInv'
<1>0. /\ resets < MaxResets /\ resets' = resets + 1
      /\ hub' = [hub EXCEPT !.entry = FALSE, !.online = {}, !.cpeVector = FALSE]
      /\ pal' = [c \in CPU |-> NoMca] /\ fw' = [c \in CPU |-> "reset"]
      /\ osMca' = FALSE /\ cpeIrq' = FALSE
      /\ seen' = {} /\ done' = {} /\ untidy' = {}
      /\ UNCHANGED <<bank, work>>
  BY DEF SystemReset
<1>1. /\ hub' \in Hubs /\ hub'.next = hub.next /\ hub'.entry = FALSE
      /\ hub'.online = {} /\ hub'.cpeVector = FALSE
  BY <1>0, Zenon DEF IInv, TypeOK, Hubs
<1>2. /\ NoMca \in Pals /\ NoMca.pending = 0 /\ NoMca.active = 0
  BY BoundAssumption DEF NoMca, Pals
<1>3. TypeOK'
  <2>1. resets' \in 0 .. MaxResets
    BY <1>0, BoundAssumption DEF IInv, TypeOK
  <2>2. fw' \in [CPU -> Places] /\ pal' \in [CPU -> Pals]
    BY <1>0, <1>2 DEF Places
  <2> QED
    BY <1>0, <1>1, <2>1, <2>2, Zenon DEF IInv, TypeOK
<1>4. Good(bank, hub.next, work, pal', {}, {})
  <2>1. Good(bank, hub.next, work, pal, seen, done)
    BY Zenon DEF IInv
  <2>2. Good(bank, hub.next, work, pal, seen, {})
    BY <2>1, ZenonT(60) DEF Good, Processor
  <2>3. ASSUME NEW c \in CPU
        PROVE  /\ Asked(work[c], pal'[c]) \subseteq
                     Asked(work[c], pal[c]) \union Records(bank[Mca(c)])
               /\ Processor(bank[Mca(c)], work[c], pal'[c], {}, {})
    <3>1. /\ bank[Mca(c)] \in Rings /\ Ring(bank[Mca(c)], hub.next) /\ hub.next \in Nat
          /\ Processor(bank[Mca(c)], work[c], pal[c], seen, done)
      BY ProcessorOf, ZenonT(60)
    <3>2. bank[Mca(c)].count > 0 => HeadId(bank[Mca(c)]) # 0
      BY <3>1, RecordsAre
    <3>3. pal'[c].pending = 0 /\ pal'[c].active = 0
      BY <1>0, <1>2, Zenon
    <3>4. Asked(work[c], pal'[c]) \subseteq Asked(work[c], pal[c])
      BY <3>3 DEF Asked
    <3> QED
      BY <3>1, <3>2, <3>3, <3>4, ZenonT(60) DEF Processor
  <2> QED
    BY <2>2, <2>3, SameBanks, ZenonT(60)
<1>5. Good(bank, hub.next, work, pal, seen, done)'
  BY <1>0, <1>1, <1>4
<1>6. Wanted(bank, hub)' = {}
  BY <1>1 DEF Wanted
<1>7. Registered'
  BY <1>0, <1>1, Zenon DEF Registered
<1> QED
  BY <1>1, <1>3, <1>5, <1>6, <1>7, Zenon DEF IInv

-----------------------------------------------------------------------------
(* The theorems.                                                           *)

LEMMA InitIInv == Init => IInv
<1> SUFFICES ASSUME Init PROVE IInv
  OBVIOUS
<1>0. 0 \in 0 .. MaxId /\ 0 \in Index /\ 0 \in 0 .. RecordDepth
      /\ 1 \in 1 .. MaxId + 1 /\ 0 \in 0 .. MaxResets /\ MaxWork \in Nat
  BY BoundAssumption, DepthAssumption DEF Index
<1>1. EmptyBank \in Rings /\ EmptyBank.count = 0 /\ EmptyBank.head = 0
      /\ EmptyBank.slot = [i \in Index |-> 0]
  BY <1>0, Zenon DEF EmptyBank, Rings
<1>2. Ring(EmptyBank, 1) /\ Records(EmptyBank) = {}
  BY <1>1 DEF Ring, Records
<1>3. NoMca \in Pals /\ NoMca.pending = 0 /\ NoMca.active = 0
  BY <1>0 DEF NoMca, Pals
<1>4. /\ \A b \in Bank : bank[b] = EmptyBank
      /\ \A c \in CPU : work[c] = <<>> /\ pal[c] = NoMca /\ fw[c] = "reset"
      /\ hub.next = 1 /\ hub.entry = FALSE /\ hub.online = {} /\ hub.cpeVector = FALSE
      /\ seen = {} /\ done = {}
  BY DEF Init
<1>5. TypeOK
  <2>1. bank \in [Bank -> Rings] /\ pal \in [CPU -> Pals]
    BY <1>1, <1>3 DEF Init
  <2>2. work \in [CPU -> Seq(Id)] /\ \A c \in CPU : Len(work[c]) <= MaxWork
    BY <1>0 DEF Init
  <2>3. hub \in Hubs
    BY <1>0 DEF Init, Hubs
  <2>4. fw \in [CPU -> Places]
    BY Zenon DEF Init, Places
  <2> QED
    BY <1>0, <2>1, <2>2, <2>3, <2>4, Zenon DEF Init, TypeOK
<1>6. \A c \in CPU : Asked(work[c], pal[c]) = {} /\ Queued(work[c]) = {}
  BY <1>3, <1>4, SMTT(40) DEF Asked, Queued
<1>7. \A b \in Bank : Known(bank, work, pal, b) = {}
  BY <1>2, <1>4, <1>6, Banks, Zenon DEF Known
<1>8. \A c \in CPU : Processor(bank[Mca(c)], work[c], pal[c], seen, done)
  <2> SUFFICES ASSUME NEW c \in CPU
               PROVE  Processor(bank[Mca(c)], work[c], pal[c], seen, done)
    OBVIOUS
  <2>1. bank[Mca(c)].count = 0
    BY <1>1, <1>4, Banks, Zenon
  <2> QED
    BY <1>3, <1>4, <1>6, <2>1, SMTT(40) DEF Processor
<1>9. Good(bank, hub.next, work, pal, seen, done)
  BY <1>2, <1>4, <1>7, <1>8 DEF Good
<1>10. Wanted(bank, hub) = {}
  BY <1>4 DEF Wanted
<1>11. Registered
  BY <1>4 DEF Registered
<1> QED
  BY <1>4, <1>5, <1>9, <1>10, <1>11 DEF IInv

LEMMA NextIInv == IInv /\ [Next]_vars => IInv'
<1> SUFFICES ASSUME IInv, [Next]_vars PROVE IInv'
  OBVIOUS
<1>1. ASSUME NEW c \in CPU, Step(c) PROVE IInv'
  BY <1>1, DoWorkIInv, EnterMcaIInv, DropMcaIInv, RegisterMemIInv, CpuOnlineIInv,
     WritePsrMcIInv, ClearIInv, ResumeIInv DEF Step
<1>2. ASSUME NEW c \in Faulty, NEW t \in CPU \union {DEVICE}, ReportMca(c, t)
      PROVE  IInv'
  <2>1. c \in CPU
    BY FaultyAssumption, Zenon
  <2> QED
    BY <1>2, <2>1, ReportMcaIInv
<1>3. CASE UNCHANGED vars
  BY <1>3, Zenon DEF vars, history, IInv, TypeOK, Registered
<1> QED
  BY <1>1, <1>2, <1>3, ReportCpeIInv, McaEntryIInv, SetOsMcaIInv, SetCpeVectorIInv,
     AcceptCpeIInv, SystemResetIInv, ReloadIInv DEF Next

LEMMA Invariant == Spec => []IInv
BY InitIInv, NextIInv, PTL DEF Spec

\* The variables keep their types: ids stay in range, queues within MaxWork,
\* heads and counts within the rings.
THEOREM TypeCorrect == Spec => []TypeOK
<1>1. IInv => TypeOK
  BY ZenonT(60) DEF IInv
<1> QED
  BY <1>1, Invariant, PTL

\* Whatever sequence of errors, clears and resets filled the banks,
\* ia64_ras_hub_post_load accepts them and their records are in order.
THEOREM BanksCanBeLoaded == Spec => []BanksReload
<1>1. IInv => BanksReload
  <2> SUFFICES ASSUME IInv, NEW b \in Bank
               PROVE  /\ BankAccepted(bank[b])
                      /\ \A i, j \in 0 .. bank[b].count - 1 :
                            i < j => At(bank[b], i) < At(bank[b], j)
    BY Zenon DEF BanksReload
  <2> DEFINE k == bank[b]
  <2>1. k \in Rings /\ Ring(k, hub.next) /\ hub.next \in Nat
    BY SMTT(40) DEF IInv, TypeOK, Good, Hubs
  <2> HIDE DEF k
  <2>2. k.head < RecordDepth /\ k.count <= RecordDepth /\ (k.count = 0 => k.head = 0)
    BY <2>1, RingFields DEF Ring
  <2>3. ASSUME NEW i \in 0 .. k.count - 1
        PROVE  k.slot[(k.head + i) % RecordDepth] # 0
    BY <2>1, <2>3 DEF Ring, At
  <2>4. \A x \in Index :
           (k.slot[x] # 0) <=> x \in {(k.head + i) % RecordDepth : i \in 0 .. k.count - 1}
    BY <2>1, <2>3 DEF Ring
  <2>5. BankAccepted(k)
    BY <2>2, <2>4, ZenonT(60) DEF BankAccepted
  <2> QED
    BY <2>1, <2>5, Zenon DEF k, Ring
<1> QED
  BY <1>1, Invariant, PTL

\* No record waits unannounced: ia64_ras_try_deliver_mca runs after every
\* change that can bring a record to the head of a deliverable bank, and
\* every later step keeps a request, a pending machine check or the fact
\* that the record was seen.
THEOREM NoRecordForgotten == Spec => []RecordsAnnounced
<1>1. IInv => RecordsAnnounced
  BY Zenon DEF IInv, RecordsAnnounced, Announced, Queued
<1> QED
  BY <1>1, Invariant, PTL

\* ia64_cpu_request_mca_work drops the requests still queued for a record
\* that the handler of its machine check has cleared.
THEOREM NoSecondMachineCheck == Spec => []NoReplay
<1>1. IInv => NoReplay
  BY Zenon DEF IInv, Good, Processor, NoReplay
<1> QED
  BY <1>1, Invariant, PTL

=============================================================================
