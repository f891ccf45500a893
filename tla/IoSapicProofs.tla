--------------------------- MODULE IoSapicProofs ---------------------------
(***************************************************************************)
(* The I/O SAPIC leaves no level interrupt behind, its Remote IRR will be  *)
(* cleared, and it invents no request: for any number of pins and any      *)
(* processors, vectors and identifiers.                                    *)
(***************************************************************************)
EXTENDS IoSapic, TLAPS

\* Only vectors that the guest has programmed are pending, and an unmasked
\* route has such a vector.
VectorsOK ==
    /\ pending \in [CPU -> SUBSET Vector]
    /\ \A p \in Pin : ~rte[p].masked => rte[p].vector \in Vector

IInv ==
    /\ TypeOK
    /\ VectorsOK
    /\ LevelServed
    /\ RemoteIrrOutstanding

\* The action of RequestHasCause.
Caused ==
    \A c \in CPU : \A v \in pending'[c] \ pending[c] : \E p \in Pin :
        /\ rte'[p].vector = v
        /\ \/ rte'[p].rirr /\ line'[p]
           \/ ~rte'[p].level /\ ~rte'[p].masked /\ line'[p] /\ ~line[p]

-----------------------------------------------------------------------------
(* What UpdatePins does to each pin, and what it requests.                 *)

Delivers(x, high) == Fires(x, high) /\ Targets(x) # {}

\* The route of a table has the fields of its type.
LEMMA RouteFields ==
    ASSUME NEW x \in Routes
    PROVE  /\ x.vector \in Vector \union {0} /\ x.mode \in Mode \union {"INT"}
           /\ x.level \in BOOLEAN /\ x.masked \in BOOLEAN
           /\ x.dest \in Lid \union {0} /\ x.rirr \in BOOLEAN
BY DEF Routes

\* Setting or clearing Remote IRR gives a route with the other fields.
LEMMA RirrFields ==
    ASSUME NEW x \in Routes, NEW b \in BOOLEAN
    PROVE  LET y == [x EXCEPT !.rirr = b] IN
           /\ y \in Routes
           /\ y.vector = x.vector /\ y.mode = x.mode /\ y.level = x.level
           /\ y.masked = x.masked /\ y.dest = x.dest /\ y.rirr = b
BY DEF Routes

\* iosapic_update changes only Remote IRR, which it sets when a level route
\* delivers.
LEMMA AfterUpdateFields ==
    ASSUME NEW x \in Routes, NEW high \in BOOLEAN
    PROVE  LET y == AfterUpdate(x, high) IN
           /\ y \in Routes
           /\ y.vector = x.vector /\ y.mode = x.mode /\ y.level = x.level
           /\ y.masked = x.masked
           /\ y.rirr = (x.rirr \/ (x.level /\ Delivers(x, high)))
<1>1. CASE x.level /\ Delivers(x, high)
  <2>1. AfterUpdate(x, high) = [x EXCEPT !.rirr = TRUE]
    BY <1>1 DEF AfterUpdate, Delivers
  <2> QED BY <1>1, <2>1, RirrFields
<1>2. CASE ~(x.level /\ Delivers(x, high))
  BY <1>2, RouteFields DEF AfterUpdate, Delivers
<1> QED BY <1>1, <1>2

\* Without NMI the vector sent is the one in the route.
LEMMA SentIsVector ==
    ASSUME NEW x \in Routes
    PROVE  SentVector(x) = x.vector
BY IoModeAssumption, RouteFields DEF SentVector

\* The table after an update.
LEMMA UpdateTable ==
    ASSUME NEW S \in SUBSET Pin, NEW r \in [Pin -> Routes],
           NEW l \in [Pin -> BOOLEAN], UpdatePins(S, r, l)
    PROVE  /\ rte' \in [Pin -> Routes] /\ line' = l
           /\ \A p \in Pin :
                /\ rte'[p].vector = r[p].vector /\ rte'[p].level = r[p].level
                /\ rte'[p].masked = r[p].masked
                /\ rte'[p].rirr =
                     (r[p].rirr \/ (p \in S /\ r[p].level /\ Delivers(r[p], l[p])))
<1>1. rte' = [p \in Pin |-> IF p \in S THEN AfterUpdate(r[p], l[p]) ELSE r[p]]
      /\ line' = l
  BY DEF UpdatePins
<1>2. \A p \in Pin : r[p] \in Routes /\ l[p] \in BOOLEAN
  OBVIOUS
<1>3. ASSUME NEW p \in Pin
      PROVE  /\ rte'[p] \in Routes
             /\ rte'[p].vector = r[p].vector /\ rte'[p].level = r[p].level
             /\ rte'[p].masked = r[p].masked
             /\ rte'[p].rirr =
                  (r[p].rirr \/ (p \in S /\ r[p].level /\ Delivers(r[p], l[p])))
  <2>1. CASE p \in S
    BY <1>1, <1>2, <2>1, AfterUpdateFields
  <2>2. CASE p \notin S
    BY <1>1, <1>2, <2>2, RouteFields
  <2> QED BY <2>1, <2>2
<1> QED BY <1>1, <1>3

\* The requests of an update: nothing is withdrawn, what a pin delivers is
\* pending, and what is new comes from a pin that delivers.
RequestsOf(S, r, l) ==
    /\ \A c \in CPU : pending[c] \subseteq pending'[c]
    /\ \A p \in S : Delivers(r[p], l[p])
         => \E c \in CPU : r[p].vector \in pending'[c]
    /\ \A c \in CPU : \A v \in pending'[c] \ pending[c] :
         \E p \in S : Delivers(r[p], l[p]) /\ v = r[p].vector

\* What an update requests.
LEMMA UpdateRequests ==
    ASSUME pending \in [CPU -> SUBSET Vector],
           NEW S \in SUBSET Pin, NEW r \in [Pin -> Routes],
           NEW l \in [Pin -> BOOLEAN], UpdatePins(S, r, l)
    PROVE  RequestsOf(S, r, l)
<1> DEFINE sent == {p \in {q \in S : Fires(r[q], l[q])} : Targets(r[p]) # {}}
<1>1. PICK to \in [sent -> CPU] :
        pending' = [c \in CPU |-> pending[c] \union
                       {SentVector(r[p]) : p \in {q \in sent : to[q] = c}}]
  BY DEF UpdatePins, RequestFrom
<1>2. \A p \in S : p \in sent <=> Delivers(r[p], l[p])
  BY DEF Delivers
<1>3. \A p \in S : SentVector(r[p]) = r[p].vector
  BY SentIsVector
<1>4. sent \subseteq S
  OBVIOUS
<1> HIDE DEF sent
<1>5. ASSUME NEW p \in S, Delivers(r[p], l[p])
      PROVE  \E c \in CPU : r[p].vector \in pending'[c]
  <2>1. p \in sent /\ to[p] \in CPU
    BY <1>2, <1>5
  <2> QED BY <1>1, <1>3, <2>1
<1>6. ASSUME NEW c \in CPU, NEW v \in pending'[c] \ pending[c]
      PROVE  \E p \in S : Delivers(r[p], l[p]) /\ v = r[p].vector
  BY <1>1, <1>2, <1>3, <1>4, <1>6
<1>7. \A c \in CPU : pending[c] \subseteq pending'[c]
  BY <1>1
<1> QED BY <1>5, <1>6, <1>7 DEF RequestsOf

\* An update preserves the invariant and has causes for its requests, if the
\* handler that prepared the table sets no Remote IRR, forgets only EOIs that
\* it has itself applied, updates every pin that it may have asserted, and
\* updates an edge pin only when its input rises.
LEMMA UpdateInv ==
    ASSUME IInv, NEW S \in SUBSET Pin, NEW r \in [Pin -> Routes],
           NEW l \in [Pin -> BOOLEAN], UpdatePins(S, r, l),
           \A p \in Pin : r[p].rirr => rte[p].rirr /\ r[p].level,
           \A p \in Pin : ~r[p].masked => r[p].vector \in Vector,
           \A p \in Pin \ S : r[p].level /\ l[p] /\ ~r[p].masked
                => r[p].rirr \/ refused[p],
           \A p \in Pin : r[p].rirr /\ r[p].vector = rte[p].vector
                              /\ r[p].vector \in due => r[p].vector \in due',
           due' \subseteq Vector, sel' \in Selectable, lid' = lid,
           \A p \in S : r[p].level \/ (l[p] /\ ~line[p])
    PROVE  IInv' /\ Caused
<1> USE DEF IInv
<1>0. /\ \A p \in Pin : /\ r[p] \in Routes /\ r[p].rirr \in BOOLEAN
                        /\ r[p].level \in BOOLEAN /\ r[p].masked \in BOOLEAN
                        /\ l[p] \in BOOLEAN
  BY RouteFields
<1>1. /\ rte' \in [Pin -> Routes] /\ line' = l
      /\ \A p \in Pin :
           /\ rte'[p].vector = r[p].vector /\ rte'[p].level = r[p].level
           /\ rte'[p].masked = r[p].masked
           /\ rte'[p].rirr =
                (r[p].rirr \/ (p \in S /\ r[p].level /\ Delivers(r[p], l[p])))
  BY UpdateTable
<1>2. /\ \A c \in CPU : pending[c] \subseteq pending'[c]
      /\ \A p \in S : Delivers(r[p], l[p])
           => \E c \in CPU : r[p].vector \in pending'[c]
      /\ \A c \in CPU : \A v \in pending'[c] \ pending[c] :
           \E p \in S : Delivers(r[p], l[p]) /\ v = r[p].vector
  <2>1. pending \in [CPU -> SUBSET Vector]
    BY DEF VectorsOK
  <2>2. RequestsOf(S, r, l)
    BY <2>1, UpdateRequests
  <2> QED BY <2>2 DEF RequestsOf
<1>3. \A p \in Pin :
        /\ refused'[p] = (IF p \in S /\ Fires(r[p], l[p]) THEN ~Delivers(r[p], l[p])
                                                        ELSE refused[p] /\ ~r[p].rirr)
        /\ steady'[p] = (IF p \in S /\ Fires(r[p], l[p]) THEN TRUE
                         ELSE steady[p] /\ r[p].vector = rte[p].vector)
  <2> DEFINE firing == {p \in S : Fires(r[p], l[p])}
             sent == {p \in firing : Targets(r[p]) # {}}
  <2>1. /\ refused' = [p \in Pin |-> IF p \in firing THEN p \notin sent
                                     ELSE refused[p] /\ ~r[p].rirr]
        /\ steady' = [p \in Pin |-> IF p \in firing THEN TRUE
                                    ELSE steady[p] /\ r[p].vector = rte[p].vector]
    BY DEF UpdatePins
  <2>2. \A p \in Pin : /\ p \in firing <=> p \in S /\ Fires(r[p], l[p])
                       /\ p \in firing => (p \notin sent <=> ~Delivers(r[p], l[p]))
    BY DEF Delivers
  <2> HIDE DEF firing, sent
  <2> QED BY <2>1, <2>2
<1>4. \A p \in Pin : Delivers(r[p], l[p]) => Fires(r[p], l[p])
  BY DEF Delivers
<1>5. \A p \in Pin : Fires(r[p], l[p]) <=>
        ~r[p].masked /\ (r[p].level => l[p] /\ ~r[p].rirr)
  BY DEF Fires
<1>6. TypeOK'
  BY <1>1 DEF TypeOK
<1>7. VectorsOK'
  <2>1. ASSUME NEW c \in CPU, NEW v \in pending'[c]
        PROVE  v \in Vector
    BY <1>2, <1>4, <1>5 DEF VectorsOK
  <2>2. pending' = [c \in CPU |-> pending'[c]]
    BY DEF UpdatePins, RequestFrom
  <2> QED BY <1>1, <2>1, <2>2 DEF VectorsOK
<1>8. LevelServed'
  <2> SUFFICES ASSUME NEW p \in Pin, r[p].level, l[p], ~r[p].masked
               PROVE  rte'[p].rirr \/ refused'[p]
    BY <1>1 DEF LevelServed, Asserted
  <2> QED BY <1>0, <1>1, <1>3, <1>5
<1>9. RemoteIrrOutstanding'
  <2> SUFFICES ASSUME NEW p \in Pin, rte'[p].rirr
               PROVE  /\ rte'[p].level
                      /\ steady'[p] =>
                            \/ rte'[p].vector \in due'
                            \/ \E c \in CPU : rte'[p].vector \in pending'[c]
    BY DEF RemoteIrrOutstanding
  <2>1. CASE p \in S /\ Delivers(r[p], l[p])
    BY <1>0, <1>1, <1>2, <2>1
  <2>2. CASE ~(p \in S /\ Delivers(r[p], l[p]))
    <3>1. r[p].rirr /\ rte[p].rirr /\ r[p].level
      BY <1>0, <1>1, <2>2
    <3>2. steady'[p] => steady[p] /\ r[p].vector = rte[p].vector
      BY <1>3, <1>5, <3>1
    <3> QED BY <1>1, <1>2, <3>1, <3>2 DEF RemoteIrrOutstanding
  <2> QED BY <2>1, <2>2
<1>10. Caused
  <2> SUFFICES ASSUME NEW c \in CPU, NEW v \in pending'[c] \ pending[c]
               PROVE  \E p \in Pin :
                        /\ rte'[p].vector = v
                        /\ \/ rte'[p].rirr /\ line'[p]
                           \/ /\ ~rte'[p].level /\ ~rte'[p].masked
                              /\ line'[p] /\ ~line[p]
    BY DEF Caused
  <2>1. PICK p \in S : Delivers(r[p], l[p]) /\ v = r[p].vector
    BY <1>2
  <2>2. p \in Pin /\ Fires(r[p], l[p])
    BY <1>4, <2>1
  <2>3. CASE r[p].level
    BY <1>1, <1>5, <2>1, <2>2, <2>3
  <2>4. CASE ~r[p].level
    BY <1>1, <1>5, <2>1, <2>2, <2>4
  <2> QED BY <2>3, <2>4
<1> QED BY <1>6, <1>7, <1>8, <1>9, <1>10

-----------------------------------------------------------------------------
(* The operations.                                                         *)

\* A route of the table after a write of its window register.
LEMMA WrittenRoute ==
    ASSUME NEW x \in Routes
    PROVE  LET y == [x EXCEPT !.rirr = @ /\ x.level] IN
           /\ y \in Routes
           /\ y.vector = x.vector /\ y.level = x.level /\ y.masked = x.masked
           /\ y.rirr = (x.rirr /\ x.level)
BY RouteFields, RirrFields

\* A write of a table entry preserves the invariant.
LEMMA RteWriteInv ==
    ASSUME IInv, NEW p \in Pin, NEW x \in Routes, RteWrite(p, x),
           x.rirr = rte[p].rirr, ~x.masked => x.vector \in Vector,
           UNCHANGED <<sel, lid, due>>
    PROVE  IInv' /\ Caused
<1> DEFINE S == IF x.level THEN {p} ELSE {}
           y == [x EXCEPT !.rirr = @ /\ x.level]
           r == [rte EXCEPT ![p] = y]
<1>1. TypeOK /\ VectorsOK /\ LevelServed /\ RemoteIrrOutstanding
  BY DEF IInv
<1>2. /\ y \in Routes
      /\ y.vector = x.vector /\ y.level = x.level /\ y.masked = x.masked
      /\ y.rirr = (x.rirr /\ x.level)
  BY WrittenRoute
<1>3. x.level \in BOOLEAN /\ x.rirr \in BOOLEAN
  BY RouteFields
<1>4. UpdatePins(S, r, line)
  BY DEF RteWrite
<1> HIDE DEF y
<1>5. /\ r \in [Pin -> Routes] /\ r[p] = y
      /\ \A q \in Pin : q # p => r[q] = rte[q]
  BY <1>1, <1>2 DEF TypeOK
<1>6. S \in SUBSET Pin /\ (x.level => p \in S) /\ \A q \in S : q = p /\ x.level
  BY <1>3
<1> HIDE DEF r, S
<1>7. line \in [Pin -> BOOLEAN] /\ due' \subseteq Vector /\ sel' \in Selectable
      /\ lid' = lid /\ due' = due
  BY <1>1 DEF TypeOK
<1>8. \A q \in Pin : r[q].rirr => rte[q].rirr /\ r[q].level
  BY <1>1, <1>2, <1>3, <1>5 DEF RemoteIrrOutstanding
<1>9. \A q \in Pin : ~r[q].masked => r[q].vector \in Vector
  BY <1>1, <1>2, <1>5 DEF VectorsOK
<1>10. \A q \in Pin \ S : r[q].level /\ line[q] /\ ~r[q].masked
           => r[q].rirr \/ refused[q]
  BY <1>1, <1>2, <1>5, <1>6 DEF LevelServed, Asserted
<1>11. \A q \in S : r[q].level
  BY <1>2, <1>5, <1>6
<1> QED BY <1>4, <1>5, <1>6, <1>7, <1>8, <1>9, <1>10, <1>11, UpdateInv

\* So does a write of the window register, of either half.
LEMMA WriteWindowInv ==
    ASSUME IInv, WriteWindow
    PROVE  IInv' /\ Caused
<1>1. TypeOK /\ VectorsOK /\ UNCHANGED <<sel, lid, due>>
  BY DEF IInv, WriteWindow
<1>2. ASSUME NEW p \in Pin, NEW v \in Vector, NEW mode \in Mode,
             NEW lev \in BOOLEAN, NEW m \in BOOLEAN,
             RteWrite(p, [rte[p] EXCEPT !.vector = v, !.mode = mode,
                                        !.level = lev, !.masked = m])
      PROVE  IInv' /\ Caused
  <2> DEFINE x == [rte[p] EXCEPT !.vector = v, !.mode = mode,
                                 !.level = lev, !.masked = m]
  <2>1. x \in Routes /\ x.rirr = rte[p].rirr /\ x.vector \in Vector
    BY <1>1 DEF TypeOK, Routes
  <2> QED BY <1>1, <1>2, <2>1, RteWriteInv
<1>3. ASSUME NEW p \in Pin, NEW d \in Lid, RteWrite(p, [rte[p] EXCEPT !.dest = d])
      PROVE  IInv' /\ Caused
  <2> DEFINE x == [rte[p] EXCEPT !.dest = d]
  <2>1. x \in Routes /\ x.rirr = rte[p].rirr /\ x.masked = rte[p].masked
        /\ x.vector = rte[p].vector
    BY <1>1 DEF TypeOK, Routes
  <2>2. ~x.masked => x.vector \in Vector
    BY <1>1, <2>1 DEF VectorsOK
  <2> QED BY <1>1, <1>3, <2>1, <2>2, RteWriteInv
<1> QED BY <1>2, <1>3 DEF WriteWindow

\* An input change preserves the invariant.
LEMMA SetPinInv ==
    ASSUME IInv, NEW p \in Pin, SetPin(p)
    PROVE  IInv' /\ Caused
<1>1. TypeOK /\ VectorsOK /\ LevelServed /\ RemoteIrrOutstanding
  BY DEF IInv
<1>2. PICK high \in BOOLEAN :
        /\ UpdatePins(IF high /\ (rte[p].level \/ ~line[p]) THEN {p} ELSE {},
                      rte, [line EXCEPT ![p] = high])
        /\ UNCHANGED <<sel, lid, due>>
  BY DEF SetPin
<1> DEFINE S == IF high /\ (rte[p].level \/ ~line[p]) THEN {p} ELSE {}
           l == [line EXCEPT ![p] = high]
<1>3. /\ S \in SUBSET Pin /\ l \in [Pin -> BOOLEAN] /\ l[p] = high
      /\ \A q \in Pin : q # p => l[q] = line[q]
      /\ (rte[p].level /\ high) => p \in S
      /\ \A q \in S : q = p /\ high /\ (rte[p].level \/ ~line[p])
  BY <1>1 DEF TypeOK
<1>4. UpdatePins(S, rte, l)
  BY <1>2
<1> HIDE DEF S, l
<1>5. rte \in [Pin -> Routes] /\ due' \subseteq Vector /\ sel' \in Selectable
      /\ lid' = lid /\ due' = due
  BY <1>1, <1>2 DEF TypeOK
<1>6. \A q \in Pin : rte[q].rirr => rte[q].level
  BY <1>1 DEF RemoteIrrOutstanding
<1>7. \A q \in Pin \ S : rte[q].level /\ l[q] /\ ~rte[q].masked
           => rte[q].rirr \/ refused[q]
  BY <1>1, <1>3 DEF LevelServed, Asserted
<1>8. \A q \in Pin : ~rte[q].masked => rte[q].vector \in Vector
  BY <1>1 DEF VectorsOK
<1>9. \A q \in S : rte[q].level \/ (l[q] /\ ~line[q])
  BY <1>3
<1> QED BY <1>3, <1>4, <1>5, <1>6, <1>7, <1>8, <1>9, UpdateInv

\* Loading a snapshot preserves the invariant.
LEMMA PostLoadInv ==
    ASSUME IInv, PostLoad
    PROVE  IInv' /\ Caused
<1>1. TypeOK /\ VectorsOK /\ LevelServed /\ RemoteIrrOutstanding
  BY DEF IInv
<1> DEFINE S == {p \in Pin : rte[p].level}
<1>2. UpdatePins(S, rte, line) /\ UNCHANGED <<sel, lid, due>>
  BY DEF PostLoad
<1>3. /\ S \in SUBSET Pin
      /\ \A p \in Pin \ S : ~rte[p].level
      /\ \A p \in S : rte[p].level
  OBVIOUS
<1> HIDE DEF S
<1>4. /\ rte \in [Pin -> Routes] /\ line \in [Pin -> BOOLEAN]
      /\ due' \subseteq Vector /\ sel' \in Selectable /\ lid' = lid /\ due' = due
  BY <1>1, <1>2 DEF TypeOK
<1>5. \A q \in Pin : rte[q].rirr => rte[q].level
  BY <1>1 DEF RemoteIrrOutstanding
<1>6. \A q \in Pin : ~rte[q].masked => rte[q].vector \in Vector
  BY <1>1 DEF VectorsOK
<1> QED BY <1>2, <1>3, <1>4, <1>5, <1>6, UpdateInv

\* An EOI preserves the invariant: the pins whose EOI is no longer owed are
\* the ones whose Remote IRR it clears.
LEMMA EoiInv ==
    ASSUME IInv, NEW v \in Vector, Eoi(v)
    PROVE  IInv' /\ Caused
<1>1. TypeOK /\ VectorsOK /\ LevelServed /\ RemoteIrrOutstanding
  BY DEF IInv
<1> DEFINE S == {p \in Pin : rte[p].vector = v /\ rte[p].level /\ rte[p].rirr}
           r == [p \in Pin |-> IF p \in S THEN [rte[p] EXCEPT !.rirr = FALSE]
                                         ELSE rte[p]]
<1>2. UpdatePins(S, r, line) /\ due' = due \ {v} /\ UNCHANGED <<sel, lid>>
  BY DEF Eoi
<1>3. \A p \in Pin : p \in S <=> rte[p].vector = v /\ rte[p].level /\ rte[p].rirr
  OBVIOUS
<1>4. S \in SUBSET Pin
  OBVIOUS
<1>5. \A p \in Pin : r[p] = IF p \in S THEN [rte[p] EXCEPT !.rirr = FALSE] ELSE rte[p]
  OBVIOUS
<1>6. r = [p \in Pin |-> r[p]]
  OBVIOUS
<1> HIDE DEF S, r
<1>7. ASSUME NEW p \in Pin
      PROVE  /\ r[p] \in Routes
             /\ r[p].vector = rte[p].vector /\ r[p].level = rte[p].level
             /\ r[p].masked = rte[p].masked
             /\ p \in S => ~r[p].rirr
             /\ p \notin S => r[p] = rte[p]
  <2>1. rte[p] \in Routes
    BY <1>1 DEF TypeOK
  <2> QED BY <1>5, <2>1, RirrFields
<1>8. r \in [Pin -> Routes]
  BY <1>6, <1>7
<1>9. /\ line \in [Pin -> BOOLEAN] /\ due' \subseteq Vector
      /\ sel' \in Selectable /\ lid' = lid
  BY <1>1, <1>2 DEF TypeOK
<1>10. \A p \in Pin : r[p].rirr => rte[p].rirr /\ r[p].level
  BY <1>1, <1>7 DEF RemoteIrrOutstanding
<1>11. \A p \in Pin : ~r[p].masked => r[p].vector \in Vector
  BY <1>1, <1>7 DEF VectorsOK
<1>12. \A p \in Pin \ S : r[p].level /\ line[p] /\ ~r[p].masked
           => r[p].rirr \/ refused[p]
  BY <1>1, <1>7 DEF LevelServed, Asserted
<1>13. ASSUME NEW p \in Pin, r[p].rirr, r[p].vector \in due
       PROVE  r[p].vector \in due'
  BY <1>2, <1>3, <1>7, <1>10, <1>13
<1>14. \A p \in S : r[p].level
  BY <1>3, <1>4, <1>7
<1> QED BY <1>2, <1>4, <1>8, <1>9, <1>10, <1>11, <1>12, <1>13, <1>14, UpdateInv

\* The handlers of the guest move a vector from pending to due.
LEMMA GuestInv ==
    ASSUME IInv, NEW c \in CPU, GuestStep(c), UNCHANGED ioVars
    PROVE  IInv' /\ Caused
<1>1. TypeOK /\ VectorsOK /\ LevelServed /\ RemoteIrrOutstanding
  BY DEF IInv
<1>2. rte' = rte /\ line' = line /\ sel' = sel /\ refused' = refused /\ steady' = steady
  BY DEF ioVars
<1>3. LevelServed'
  BY <1>1, <1>2 DEF LevelServed, Asserted
<1>4. CASE HandlerStarts(c)
  <2>1. PICK v \in pending[c] : AcceptVector(c, v) /\ due' = due \union {v} /\ lid' = lid
    BY <1>4 DEF HandlerStarts
  <2>2. /\ pending' \in [CPU -> SUBSET Vector]
        /\ \A d \in CPU : pending[d] \ {v} \subseteq pending'[d]
        /\ v \in Vector
    BY <1>1, <2>1 DEF VectorsOK, AcceptVector
  <2>3. TypeOK' /\ VectorsOK'
    BY <1>1, <1>2, <2>1, <2>2 DEF TypeOK, VectorsOK
  <2>4. RemoteIrrOutstanding'
    BY <1>1, <1>2, <2>1, <2>2 DEF RemoteIrrOutstanding
  <2>5. Caused
    BY <1>1, <2>1 DEF Caused, AcceptVector, VectorsOK
  <2> QED BY <1>3, <2>3, <2>4, <2>5 DEF IInv
<1>5. CASE HandlerEnds(c)
  <2>1. UNCHANGED <<lid, due, pending>>
    BY <1>5 DEF HandlerEnds, Retire
  <2> QED BY <1>1, <1>2, <1>3, <2>1
          DEF IInv, TypeOK, VectorsOK, RemoteIrrOutstanding, Caused
<1>6. CASE WriteLid(c)
  <2>1. lid' \in [CPU -> Lid \union CPU] /\ due' = due /\ pending' = pending
    BY <1>1, <1>6 DEF WriteLid, TypeOK, portVars
  <2> QED BY <1>1, <1>2, <1>3, <2>1
          DEF IInv, TypeOK, VectorsOK, RemoteIrrOutstanding, Caused
<1> QED BY <1>4, <1>5, <1>6 DEF GuestStep

\* Every step preserves the invariant.
LEMMA InvStep ==
    ASSUME IInv, [Next]_vars
    PROVE  IInv' /\ Caused
<1>1. CASE Select
  <2>1. /\ sel' \in Selectable
        /\ UNCHANGED <<rte, line, refused, steady, lid, due, pending>>
    BY <1>1 DEF Select, guestVars, portVars
  <2> QED BY <2>1 DEF IInv, TypeOK, VectorsOK, LevelServed, Asserted,
                      RemoteIrrOutstanding, Caused
<1>2. CASE UNCHANGED vars
  BY <1>2 DEF IInv, TypeOK, VectorsOK, LevelServed, Asserted,
              RemoteIrrOutstanding, Caused, vars, ioVars, guestVars, portVars
<1> QED BY <1>1, <1>2, SetPinInv, WriteWindowInv, EoiInv, PostLoadInv, GuestInv
        DEF Next

\* The initial state satisfies the invariant.
LEMMA InitInv == Init => IInv
<1> SUFFICES ASSUME Init PROVE IInv
  OBVIOUS
<1>1. TypeOK
  BY DEF Init, GuestInit, ResetRte, Routes, TypeOK, Selectable
<1>2. VectorsOK
  BY DEF Init, GuestInit, PortInit, ResetRte, VectorsOK
<1>3. LevelServed /\ RemoteIrrOutstanding
  BY DEF Init, ResetRte, LevelServed, Asserted, RemoteIrrOutstanding
<1> QED BY <1>1, <1>2, <1>3 DEF IInv

\* The invariant always holds.
LEMMA Invariance == Spec => []IInv
BY InitInv, InvStep, PTL DEF Spec

\* Whatever the guest writes and whichever inputs change, an asserted level
\* input has a message outstanding or was refused when last evaluated, for
\* any number of pins and processors (iosapic_update, iosapic_rte_write,
\* iosapic_eoi, iosapic_post_load).
THEOREM NoLevelLeftBehind == Spec => []LevelServed
<1>1. IInv => LevelServed
  BY DEF IInv
<1> QED BY Invariance, <1>1, PTL

\* Remote IRR is set on level routes only, and its EOI is owed.
THEOREM RemoteIrrCleared == Spec => []RemoteIrrOutstanding
<1>1. IInv => RemoteIrrOutstanding
  BY DEF IInv
<1> QED BY Invariance, <1>1, PTL

\* Every request has an asserted level input or the rise of an edge input as
\* its cause: no table write, EOI or snapshot replays an edge.
THEOREM NoRequestInvented == Spec => RequestHasCause
<1>1. IInv /\ [Next]_vars => [Caused]_vars
  BY InvStep
<1> QED BY Invariance, <1>1, PTL DEF Spec, RequestHasCause, Caused
=============================================================================
