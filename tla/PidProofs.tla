----------------------------- MODULE PidProofs -----------------------------
(***************************************************************************)
(* The 460GX PID keeps status, Remote IRR and latch of every pin in        *)
(* agreement, leaves no level interrupt behind, loses no latched level and *)
(* no edge, and invents no request: for any number of pins and any         *)
(* processors, vectors, modes and identifiers.                             *)
(***************************************************************************)
EXTENDS Pid, TLAPS

\* The processors have pending vectors of the guest or NMI, and an unmasked
\* route has a vector of the guest.
VectorsOK ==
    /\ pending \in [CPU -> SUBSET (Vector \union {NMI})]
    /\ \A p \in Pin : ~pin[p].masked => pin[p].vector \in Vector

\* What PinConsistent says of one pin.
Consistent(x) ==
    /\ x.rirr \/ x.latched => LevelRoute(x)
    /\ x.latched => x.status /\ ~x.rirr
    /\ LevelRoute(x) => x.status = (IF x.masked THEN x.latched /\ ~x.rirr
                                                ELSE x.latched \/ x.line)

AllConsistent == \A p \in Pin : Consistent(pin[p])

IInv ==
    /\ TypeOK
    /\ VectorsOK
    /\ AllConsistent
    /\ LevelServed
    /\ RemoteIrrOutstanding

\* The actions of LatchHeld, EdgeHeld and RequestHasCause.
LatchKept ==
    \A p \in Pin : pin[p].latched /\ ~pin'[p].latched =>
        \/ pin'[p].rirr /\ Requested(p)
        \/ ~LevelRoute(pin'[p]) /\ (pin'[p].status \/ Requested(p))

EdgeKept ==
    \A p \in Pin : ~LevelRoute(pin[p]) /\ pin[p].status /\ ~pin'[p].status
        => LevelRoute(pin'[p]) \/ Requested(p)

Caused ==
    \A c \in CPU : \A v \in pending'[c] \ pending[c] : \E p \in Pin :
        /\ SentVector(pin'[p]) = v
        /\ \/ pin'[p].rirr /\ (pin'[p].line \/ pin[p].latched \/ pin[p].status)
           \/ ~LevelRoute(pin'[p]) /\ ~pin'[p].masked
              /\ ((pin'[p].line /\ ~pin[p].line) \/ pin[p].status)

Kept == LatchKept /\ EdgeKept /\ Caused

-----------------------------------------------------------------------------
(* One pin.                                                                *)

\* The fields of a pin.
LEMMA InputFields ==
    ASSUME NEW x \in Inputs
    PROVE  /\ x.vector \in Vector \union {0} /\ x.mode \in Mode \union {"INT"}
           /\ x.trigger \in BOOLEAN /\ x.masked \in BOOLEAN
           /\ x.dest \in Lid \union {0} /\ x.rirr \in BOOLEAN
           /\ x.status \in BOOLEAN /\ x.line \in BOOLEAN /\ x.latched \in BOOLEAN
BY DEF Inputs

\* Two pins with the same route: only input and flags may differ.
SameRoute(x, y) ==
    /\ y.vector = x.vector /\ y.mode = x.mode /\ y.trigger = x.trigger
    /\ y.masked = x.masked /\ y.dest = x.dest

\* An assignment to the status, or to Remote IRR and the latch.
LEMMA SetStatus ==
    ASSUME NEW x \in Inputs, NEW b \in BOOLEAN
    PROVE  LET y == [x EXCEPT !.status = b] IN
           /\ y \in Inputs /\ SameRoute(x, y) /\ y.line = x.line
           /\ y.rirr = x.rirr /\ y.latched = x.latched /\ y.status = b
<1> DEFINE y == [x EXCEPT !.status = b]
<1>1. y \in Inputs
  BY DEF Inputs
<1>2. y.rirr = x.rirr /\ y.latched = x.latched /\ y.line = x.line /\ SameRoute(x, y)
  BY DEF Inputs, SameRoute
<1>3. y.status = b
  BY DEF Inputs
<1> QED BY <1>1, <1>2, <1>3, Zenon

LEMMA SetLatch ==
    ASSUME NEW x \in Inputs, NEW b \in BOOLEAN
    PROVE  LET y == [x EXCEPT !.rirr = FALSE, !.latched = b] IN
           /\ y \in Inputs /\ SameRoute(x, y) /\ y.line = x.line
           /\ ~y.rirr /\ y.latched = b
<1> DEFINE y == [x EXCEPT !.rirr = FALSE, !.latched = b]
<1>1. y \in Inputs
  BY Zenon DEF Inputs
<1>2. y.line = x.line /\ SameRoute(x, y)
  BY DEF Inputs, SameRoute
<1>3. y.latched = b /\ ~y.rirr
  BY DEF Inputs
<1> QED BY <1>1, <1>2, <1>3, Zenon

\* pid_sync_level_status changes the status only.
LEMMA SyncFields ==
    ASSUME NEW x \in Inputs
    PROVE  LET y == SyncLevelStatus(x) IN
           /\ y \in Inputs /\ SameRoute(x, y)
           /\ y.rirr = x.rirr /\ y.latched = x.latched /\ y.line = x.line
           /\ y.status = (IF x.masked THEN x.latched /\ ~x.rirr
                                      ELSE x.latched \/ x.line)
BY Zenon DEF Inputs, SameRoute, SyncLevelStatus

\* The route decides whether a pin is level-triggered, and what it sends.
LEMMA SameRouteFacts ==
    ASSUME NEW x, NEW y, SameRoute(x, y)
    PROVE  /\ LevelRoute(y) = LevelRoute(x) /\ SentVector(y) = SentVector(x)
           /\ y.masked = x.masked /\ y.vector = x.vector
BY DEF SameRoute, LevelRoute, SentVector

Delivers(x) == Fires(x) /\ Targets(x) # {}

\* pid_update of a consistent pin: it stays consistent, and the flags change
\* only with a delivery.
UpdatedFacts(x, y) ==
    /\ y \in Inputs /\ SameRoute(x, y) /\ y.line = x.line
    /\ Consistent(y)
    /\ ~Delivers(x) => y = x
    /\ Delivers(x) /\ LevelRoute(x) => y.rirr /\ ~y.latched
    /\ Delivers(x) /\ ~LevelRoute(x) => y.rirr = x.rirr /\ y.latched = x.latched
                                        /\ ~y.status

\* What pid_update does to a pin.
LEMMA UpdatedPinFacts ==
    ASSUME NEW x \in Inputs, Consistent(x)
    PROVE  UpdatedFacts(x, UpdatedPin(x))
<1>1. CASE ~Delivers(x)
  <2>1. UpdatedPin(x) = x
    BY <1>1 DEF UpdatedPin, Delivers
  <2> QED BY <1>1, <2>1 DEF UpdatedFacts, SameRoute
<1>2. CASE Delivers(x) /\ LevelRoute(x)
  <2> DEFINE z == [x EXCEPT !.rirr = TRUE, !.latched = FALSE]
             y == SyncLevelStatus(z)
  <2>1. UpdatedPin(x) = y
    BY <1>2 DEF UpdatedPin, Delivers
  <2>2. z \in Inputs /\ SameRoute(x, z) /\ z.rirr /\ ~z.latched /\ z.line = x.line
    BY Zenon DEF Inputs, SameRoute
  <2> HIDE DEF z
  <2>3. /\ y \in Inputs /\ SameRoute(z, y)
        /\ y.rirr = z.rirr /\ y.latched = z.latched /\ y.line = z.line
        /\ y.status = (IF z.masked THEN z.latched /\ ~z.rirr ELSE z.latched \/ z.line)
    BY <2>2, SyncFields, Zenon
  <2> HIDE DEF y
  <2>4. SameRoute(x, y) /\ y.rirr /\ ~y.latched /\ y.line = x.line
    BY <2>2, <2>3 DEF SameRoute
  <2>5. LevelRoute(y) /\ y.masked = z.masked
    BY <1>2, <2>3, <2>4, SameRouteFacts
  <2>6. Consistent(y)
    BY <2>2, <2>3, <2>4, <2>5, InputFields DEF Consistent
  <2> QED BY <1>2, <2>1, <2>3, <2>4, <2>6 DEF UpdatedFacts
<1>3. CASE Delivers(x) /\ ~LevelRoute(x)
  <2> DEFINE y == [x EXCEPT !.status = FALSE]
  <2>1. UpdatedPin(x) = y
    BY <1>3 DEF UpdatedPin, Delivers
  <2>2. /\ y \in Inputs /\ SameRoute(x, y) /\ y.rirr = x.rirr
        /\ y.latched = x.latched /\ y.line = x.line /\ ~y.status
    BY Zenon DEF Inputs, SameRoute
  <2> HIDE DEF y
  <2>3. ~LevelRoute(y)
    BY <1>3, <2>2, SameRouteFacts
  <2>4. Consistent(y)
    BY <1>3, <2>2, <2>3 DEF Consistent
  <2> QED BY <1>3, <2>1, <2>2, <2>4 DEF UpdatedFacts
<1> QED BY <1>1, <1>2, <1>3

\* What a handler may do to a pin (x before, y after) before pid_update.
Good(x, y) ==
    /\ y \in Inputs /\ Consistent(y)
    /\ y.rirr => x.rirr
    /\ x.latched => y.latched \/ (~LevelRoute(y) /\ y.status)
    /\ ~LevelRoute(x) /\ x.status => LevelRoute(y) \/ y.status
    /\ y.latched => x.latched \/ x.status
    /\ ~y.masked => y.vector \in Vector

-----------------------------------------------------------------------------
(* All pins.                                                               *)

\* The pins after an update.
LEMMA UpdateTable ==
    ASSUME NEW S \in SUBSET Pin, NEW y \in [Pin -> Inputs], UpdatePins(S, y),
           \A p \in Pin : Consistent(y[p])
    PROVE  /\ pin' = [p \in Pin |-> pin'[p]]
           /\ \A p \in S : UpdatedFacts(y[p], pin'[p])
           /\ \A p \in Pin \ S : pin'[p] = y[p]
<1>1. pin' = [p \in Pin |-> IF p \in S THEN UpdatedPin(y[p]) ELSE y[p]]
  BY DEF UpdatePins
<1>2. \A p \in S : UpdatedFacts(y[p], UpdatedPin(y[p]))
  BY UpdatedPinFacts
<1> QED BY <1>1, <1>2

\* The requests of an update: nothing is withdrawn, what a pin delivers is
\* pending, and what is new comes from a pin that delivers.
RequestsOf(S, y) ==
    /\ \A c \in CPU : pending[c] \subseteq pending'[c]
    /\ \A p \in S : Delivers(y[p])
         => \E c \in CPU : SentVector(y[p]) \in pending'[c]
    /\ \A c \in CPU : \A v \in pending'[c] \ pending[c] :
         \E p \in S : Delivers(y[p]) /\ v = SentVector(y[p])

\* What an update requests.
LEMMA UpdateRequests ==
    ASSUME NEW S \in SUBSET Pin, NEW y \in [Pin -> Inputs], UpdatePins(S, y)
    PROVE  RequestsOf(S, y)
<1> DEFINE sent == {p \in {q \in S : Fires(y[q])} : Targets(y[p]) # {}}
<1>1. PICK to \in [sent -> CPU] :
        pending' = [c \in CPU |-> pending[c] \union
                       {SentVector(y[p]) : p \in {q \in sent : to[q] = c}}]
  BY Zenon DEF UpdatePins, RequestFrom
<1>2. \A p \in S : p \in sent <=> Delivers(y[p])
  BY DEF Delivers
<1>3. sent \subseteq S
  OBVIOUS
<1> HIDE DEF sent
<1>4. ASSUME NEW p \in S, Delivers(y[p])
      PROVE  \E c \in CPU : SentVector(y[p]) \in pending'[c]
  <2>1. p \in sent /\ to[p] \in CPU
    BY <1>2, <1>4
  <2> QED BY <1>1, <2>1
<1>5. ASSUME NEW c \in CPU, NEW v \in pending'[c] \ pending[c]
      PROVE  \E p \in S : Delivers(y[p]) /\ v = SentVector(y[p])
  BY <1>1, <1>2, <1>3, <1>5
<1>6. \A c \in CPU : pending[c] \subseteq pending'[c]
  BY <1>1
<1> QED BY <1>4, <1>5, <1>6 DEF RequestsOf

\* The histories after an update.
LEMMA UpdateHistories ==
    ASSUME NEW S \in SUBSET Pin, NEW y \in [Pin -> Inputs], UpdatePins(S, y)
    PROVE  \A p \in Pin :
        /\ p \in S /\ Fires(y[p]) => refused'[p] = ~Delivers(y[p])
        /\ ~(p \in S /\ Fires(y[p])) =>
               /\ refused'[p] = (refused[p] /\ ~y[p].rirr)
               /\ steady'[p] => steady[p] /\ y[p].vector = pin[p].vector
<1> DEFINE firing == {p \in S : Fires(y[p])}
           sent == {p \in firing : Targets(y[p]) # {}}
<1>1. /\ refused' = [p \in Pin |-> IF p \in firing THEN p \notin sent
                                   ELSE refused[p] /\ ~y[p].rirr]
      /\ steady' = [p \in Pin |-> IF p \in firing THEN TRUE
                                  ELSE steady[p] /\ y[p].vector = pin[p].vector]
  BY DEF UpdatePins
<1>2. \A p \in Pin : /\ p \in firing <=> p \in S /\ Fires(y[p])
                     /\ p \in firing => (p \notin sent <=> ~Delivers(y[p]))
  BY DEF Delivers
<1> HIDE DEF firing, sent
<1> QED BY <1>1, <1>2, Zenon

\* An update preserves the invariant and keeps latches and edges, if the
\* handler has prepared the pins well, forgets only EOIs that it has itself
\* applied, updates every level pin that it may have asserted, and updates
\* an edge pin only when its input rises or it holds an edge.
LEMMA UpdateInv ==
    ASSUME IInv, NEW S \in SUBSET Pin, NEW y \in [Pin -> Inputs], UpdatePins(S, y),
           \A p \in Pin : Good(pin[p], y[p]),
           \A p \in Pin \ S : LevelRoute(y[p]) /\ ~y[p].masked /\ y[p].status
                => y[p].rirr \/ refused[p],
           \A p \in S : LevelRoute(y[p]) \/ (y[p].line /\ ~pin[p].line)
                            \/ pin[p].status,
           \A p \in Pin : y[p].rirr /\ y[p].vector = pin[p].vector
                              /\ y[p].vector \in due => y[p].vector \in due',
           due' \subseteq Vector \union {NMI}, sel' \in Selectable, lid' = lid
    PROVE  IInv' /\ Kept
<1>1. TypeOK /\ VectorsOK /\ AllConsistent /\ LevelServed /\ RemoteIrrOutstanding
  BY DEF IInv
<1>2. \A p \in Pin : y[p] \in Inputs /\ Consistent(y[p])
  BY DEF Good
<1>3. /\ pin' = [p \in Pin |-> pin'[p]]
      /\ \A p \in S : UpdatedFacts(y[p], pin'[p])
      /\ \A p \in Pin \ S : pin'[p] = y[p]
  BY <1>2, UpdateTable
<1>4. RequestsOf(S, y)
  BY UpdateRequests, SMTT(40)
<1>5. ASSUME NEW p \in Pin
      PROVE  /\ pin'[p] \in Inputs /\ Consistent(pin'[p]) /\ SameRoute(y[p], pin'[p])
             /\ pin'[p].line = y[p].line
             /\ ~(p \in S /\ Delivers(y[p])) => pin'[p] = y[p]
             /\ p \in S /\ Delivers(y[p]) /\ LevelRoute(y[p])
                  => pin'[p].rirr /\ ~pin'[p].latched
             /\ p \in S /\ Delivers(y[p]) /\ ~LevelRoute(y[p])
                  => pin'[p].rirr = y[p].rirr /\ pin'[p].latched = y[p].latched
  <2>1. CASE p \in S
    BY <1>3, <2>1 DEF UpdatedFacts
  <2>2. CASE p \notin S
    BY <1>2, <1>3, <2>2, SMTT(40) DEF SameRoute
  <2> QED BY <2>1, <2>2
<1>6. \A p \in Pin :
        /\ LevelRoute(pin'[p]) = LevelRoute(y[p])
        /\ SentVector(pin'[p]) = SentVector(y[p])
        /\ pin'[p].masked = y[p].masked /\ pin'[p].vector = y[p].vector
  BY <1>5, SameRouteFacts
<1>7. \A p \in Pin : Delivers(y[p]) => Fires(y[p])
  BY DEF Delivers
<1>8. \A p \in S : Delivers(y[p]) => Requested(p)
  BY <1>4, <1>6 DEF RequestsOf, Requested
<1>9. TypeOK'
  BY <1>1, <1>3, <1>5 DEF TypeOK
<1>10. VectorsOK'
  <2>1. ASSUME NEW c \in CPU, NEW v \in pending'[c]
        PROVE  v \in Vector \union {NMI}
    <3>1. CASE v \in pending[c]
      BY <1>1, <3>1, SMTT(40) DEF VectorsOK
    <3>2. CASE v \notin pending[c]
      <4>1. PICK p \in S : Delivers(y[p]) /\ v = SentVector(y[p])
        BY <1>4, <3>2, <2>1 DEF RequestsOf
      <4>2. ~y[p].masked
        BY <1>7, <4>1, SMTT(40) DEF Fires
      <4> QED BY <4>1, <4>2, SMTT(40) DEF Good, SentVector
    <3> QED BY <3>1, <3>2
  <2>2. pending' = [c \in CPU |-> pending'[c]]
    BY DEF UpdatePins, RequestFrom
  <2>3. \A p \in Pin : ~pin'[p].masked => pin'[p].vector \in Vector
    BY <1>6 DEF Good
  <2> QED BY <2>1, <2>2, <2>3 DEF VectorsOK
<1>11. AllConsistent'
  BY <1>5 DEF AllConsistent
<1>12. LevelServed'
  <2> SUFFICES ASSUME NEW p \in Pin, LevelRoute(pin'[p]), ~pin'[p].masked,
                      pin'[p].status
               PROVE  pin'[p].rirr \/ refused'[p]
    BY DEF LevelServed
  <2>1. LevelRoute(y[p]) /\ ~y[p].masked
    BY <1>6
  <2>2. CASE p \in S /\ Delivers(y[p])
    BY <1>5, <2>1, <2>2, SMTT(40)
  <2>3. CASE ~(p \in S /\ Delivers(y[p]))
    <3>1. pin'[p] = y[p]
      BY <1>5, <2>3
    <3>2. CASE p \in S
      <4>1. y[p].latched \/ y[p].line
        BY <1>2, <2>1, <3>1, Zenon DEF Consistent
      <4>2. Fires(y[p]) \/ y[p].rirr
        BY <2>1, <4>1 DEF Fires
      <4> QED BY <2>3, <3>1, <3>2, <4>2, UpdateHistories, Zenon
    <3>3. CASE p \notin S
      BY <2>1, <3>1, <3>3, UpdateHistories, Zenon
    <3> QED BY <3>2, <3>3
  <2> QED BY <2>2, <2>3
<1>13. RemoteIrrOutstanding'
  <2> SUFFICES ASSUME NEW p \in Pin, pin'[p].rirr, steady'[p]
               PROVE  \/ pin'[p].vector \in due'
                      \/ \E c \in CPU : pin'[p].vector \in pending'[c]
    BY DEF RemoteIrrOutstanding
  <2>1. LevelRoute(y[p])
    BY <1>5, <1>6 DEF Consistent
  <2>2. CASE p \in S /\ Delivers(y[p])
    <3>1. SentVector(y[p]) = y[p].vector
      BY <2>1, SMTT(40) DEF LevelRoute, SentVector
    <3> QED BY <1>4, <1>6, <2>2, <3>1 DEF RequestsOf
  <2>3. CASE ~(p \in S /\ Delivers(y[p]))
    <3>1. y[p].rirr /\ pin[p].rirr
      BY <1>5, <2>3 DEF Good
    <3>2. ~Fires(y[p])
      BY <2>1, <3>1 DEF Fires
    <3>3. steady[p] /\ y[p].vector = pin[p].vector
      BY <3>2, UpdateHistories, SMTT(40)
    <3> QED BY <1>1, <1>4, <1>6, <3>1, <3>3, SMTT(40) DEF RemoteIrrOutstanding, RequestsOf
  <2> QED BY <2>2, <2>3
<1>14. LatchKept
  <2> SUFFICES ASSUME NEW p \in Pin, pin[p].latched, ~pin'[p].latched
               PROVE  \/ pin'[p].rirr /\ Requested(p)
                      \/ ~LevelRoute(pin'[p]) /\ (pin'[p].status \/ Requested(p))
    BY DEF LatchKept
  <2>1. y[p].latched \/ (~LevelRoute(y[p]) /\ y[p].status)
    BY DEF Good
  <2>2. y[p].latched => LevelRoute(y[p])
    BY <1>2 DEF Consistent
  <2> QED BY <1>5, <1>6, <1>8, <2>1, <2>2
<1>15. EdgeKept
  <2> SUFFICES ASSUME NEW p \in Pin, ~LevelRoute(pin[p]), pin[p].status,
                      ~pin'[p].status
               PROVE  LevelRoute(pin'[p]) \/ Requested(p)
    BY DEF EdgeKept
  <2>1. LevelRoute(y[p]) \/ y[p].status
    BY DEF Good
  <2> QED BY <1>5, <1>6, <1>8, <2>1
<1>16. Caused
  <2> SUFFICES ASSUME NEW c \in CPU, NEW v \in pending'[c] \ pending[c]
               PROVE  \E p \in Pin :
                 /\ SentVector(pin'[p]) = v
                 /\ \/ pin'[p].rirr /\ (pin'[p].line \/ pin[p].latched \/ pin[p].status)
                    \/ ~LevelRoute(pin'[p]) /\ ~pin'[p].masked
                       /\ ((pin'[p].line /\ ~pin[p].line) \/ pin[p].status)
    BY DEF Caused
  <2>1. PICK p \in S : Delivers(y[p]) /\ v = SentVector(y[p])
    BY <1>4 DEF RequestsOf
  <2>2. /\ p \in Pin /\ ~y[p].masked
        /\ LevelRoute(y[p]) => y[p].line \/ y[p].latched
    BY <1>7, <2>1 DEF Fires
  <2>3. y[p].latched => pin[p].latched \/ pin[p].status
    BY <2>2, SMTT(40) DEF Good
  <2>4. CASE LevelRoute(y[p])
    BY <1>5, <1>6, <2>1, <2>2, <2>3, <2>4, SMTT(40)
  <2>5. CASE ~LevelRoute(y[p])
    BY <1>5, <1>6, <2>1, <2>2, <2>5
  <2> QED BY <2>4, <2>5
<1> QED BY <1>9, <1>10, <1>11, <1>12, <1>13, <1>14, <1>15, <1>16 DEF IInv, Kept

-----------------------------------------------------------------------------
(* The operations.                                                         *)

\* A pin that is left alone is well prepared.
LEMMA GoodSelf ==
    ASSUME IInv, NEW p \in Pin
    PROVE  Good(pin[p], pin[p])
<1>1. pin[p] \in Inputs /\ Consistent(pin[p])
  BY DEF IInv, TypeOK, AllConsistent
<1> QED BY <1>1 DEF Good, IInv, VectorsOK

\* pid_set_pin prepares the pin well, of either kind.
LEMMA GoodSetPin ==
    ASSUME IInv, NEW p \in Pin, NEW high \in BOOLEAN
    PROVE  LET x == [pin[p] EXCEPT !.line = high]
               rise == high /\ ~pin[p].line /\ ~x.masked
               e == [x EXCEPT !.status = @ \/ rise]
           IN  /\ SameRoute(pin[p], x)
               /\ LevelRoute(x) => /\ Good(pin[p], SyncLevelStatus(x))
                                   /\ LevelRoute(SyncLevelStatus(x))
                                   /\ SyncLevelStatus(x).masked = pin[p].masked
                                   /\ SyncLevelStatus(x).vector = pin[p].vector
                                   /\ SyncLevelStatus(x).rirr = pin[p].rirr
                                   /\ ~high /\ ~pin[p].masked /\ SyncLevelStatus(x).status
                                        => pin[p].status
               /\ ~LevelRoute(x) => /\ Good(pin[p], e) /\ ~LevelRoute(e)
                                    /\ e.line = high
                                    /\ e.vector = pin[p].vector
                                    /\ e.rirr = pin[p].rirr
<1> DEFINE x == [pin[p] EXCEPT !.line = high]
           rise == high /\ ~pin[p].line /\ ~x.masked
           e == [x EXCEPT !.status = @ \/ rise]
           s == SyncLevelStatus(x)
<1>1. pin[p] \in Inputs /\ Consistent(pin[p])
      /\ (~pin[p].masked => pin[p].vector \in Vector)
  BY DEF IInv, TypeOK, AllConsistent, VectorsOK
<1>2. /\ x \in Inputs /\ SameRoute(pin[p], x) /\ x.line = high
      /\ x.rirr = pin[p].rirr /\ x.latched = pin[p].latched
      /\ x.status = pin[p].status
  BY <1>1 DEF Inputs, SameRoute
<1>3. LevelRoute(x) = LevelRoute(pin[p]) /\ x.masked = pin[p].masked
      /\ x.vector = pin[p].vector
  BY <1>2, SameRouteFacts
<1>4. /\ e \in Inputs /\ SameRoute(x, e) /\ e.line = x.line
      /\ e.rirr = x.rirr /\ e.latched = x.latched /\ e.status = (x.status \/ rise)
  <2>1. x.status \in BOOLEAN
    BY <1>2, InputFields, Zenon
  <2>2. (x.status \/ rise) \in BOOLEAN
    BY <2>1, Zenon
  <2> HIDE DEF x, rise
  <2> QED
    BY <1>2, <2>2, SetStatus, Zenon
<1>5. /\ s \in Inputs /\ SameRoute(x, s) /\ s.line = x.line
      /\ s.rirr = x.rirr /\ s.latched = x.latched
      /\ s.status = (IF x.masked THEN x.latched /\ ~x.rirr ELSE x.latched \/ x.line)
  BY <1>2, SyncFields, Zenon
<1>6. LevelRoute(e) = LevelRoute(x) /\ e.masked = x.masked /\ e.vector = x.vector
  BY <1>4, SameRouteFacts
<1>7. LevelRoute(s) = LevelRoute(x) /\ s.masked = x.masked /\ s.vector = x.vector
  BY <1>5, SameRouteFacts, Zenon
<1>8. /\ pin[p].rirr \in BOOLEAN /\ pin[p].latched \in BOOLEAN
      /\ pin[p].status \in BOOLEAN /\ pin[p].masked \in BOOLEAN
      /\ pin[p].line \in BOOLEAN
  BY <1>1, InputFields
<1> HIDE DEF x, e, s, rise
<1>9. ASSUME LevelRoute(x)
      PROVE  /\ Good(pin[p], s)
             /\ ~high /\ ~pin[p].masked /\ s.status => pin[p].status
  <2>1. Consistent(s)
    BY <1>1, <1>2, <1>3, <1>5, <1>7, <1>8, <1>9 DEF Consistent
  <2>2. Good(pin[p], s)
    BY <1>1, <1>2, <1>3, <1>5, <1>7, <1>9, <2>1 DEF Good
  <2>3. ~high /\ ~pin[p].masked /\ s.status => pin[p].status
    BY <1>1, <1>2, <1>3, <1>5, <1>8, <1>9, SMTT(40) DEF Consistent
  <2> QED BY <2>2, <2>3
<1>10. ASSUME ~LevelRoute(x)
       PROVE  Good(pin[p], e)
  <2>1. Consistent(e)
    BY <1>1, <1>2, <1>3, <1>4, <1>6, <1>10 DEF Consistent
  <2> QED BY <1>1, <1>2, <1>3, <1>4, <1>6, <1>10, <2>1, Zenon DEF Good, Consistent
<1>11. /\ SameRoute(pin[p], x)
       /\ LevelRoute(x) => /\ Good(pin[p], s) /\ LevelRoute(s)
                           /\ s.masked = pin[p].masked /\ s.vector = pin[p].vector
                           /\ s.rirr = pin[p].rirr
                           /\ ~high /\ ~pin[p].masked /\ s.status => pin[p].status
       /\ ~LevelRoute(x) => /\ Good(pin[p], e) /\ ~LevelRoute(e) /\ e.line = high
                            /\ e.vector = pin[p].vector /\ e.rirr = pin[p].rirr
  BY <1>2, <1>3, <1>4, <1>5, <1>6, <1>7, <1>9, <1>10
<1> QED BY <1>11 DEF x, e, s, rise

\* A handler of one pin.
LEMMA OnePinInv ==
    ASSUME IInv, NEW p \in Pin, NEW z, Good(pin[p], z), NEW S \in SUBSET {p},
           UpdatePins(S, [pin EXCEPT ![p] = z]), UNCHANGED <<sel, lid, due>>,
           p \notin S /\ LevelRoute(z) /\ ~z.masked /\ z.status => z.rirr \/ refused[p],
           p \in S => LevelRoute(z) \/ (z.line /\ ~pin[p].line) \/ pin[p].status
    PROVE  IInv' /\ Kept
<1> DEFINE y == [pin EXCEPT ![p] = z]
<1>1. TypeOK /\ LevelServed
  BY DEF IInv
<1>2. y \in [Pin -> Inputs] /\ y[p] = z /\ \A q \in Pin : q # p => y[q] = pin[q]
  BY <1>1 DEF TypeOK, Good
<1>3. UpdatePins(S, y)
  OBVIOUS
<1> HIDE DEF y
<1>4. \A q \in Pin : Good(pin[q], y[q])
  BY <1>2, GoodSelf
<1>5. \A q \in Pin \ S : LevelRoute(y[q]) /\ ~y[q].masked /\ y[q].status
                => y[q].rirr \/ refused[q]
  BY <1>1, <1>2 DEF LevelServed
<1>6. \A q \in S : LevelRoute(y[q]) \/ (y[q].line /\ ~pin[q].line) \/ pin[q].status
  BY <1>2
<1>7. /\ S \in SUBSET Pin /\ due' = due /\ due' \subseteq Vector \union {NMI}
      /\ sel' \in Selectable /\ lid' = lid
  BY <1>1 DEF TypeOK
<1> QED BY <1>2, <1>3, <1>4, <1>5, <1>6, <1>7, UpdateInv

\* An input change preserves the invariant and keeps latches and edges.
LEMMA SetPinInv ==
    ASSUME IInv, NEW p \in Pin, SetPin(p)
    PROVE  IInv' /\ Kept
<1>1. PICK high \in BOOLEAN :
        LET x == [pin[p] EXCEPT !.line = high]
            rise == high /\ ~pin[p].line /\ ~x.masked
        IN  /\ IF LevelRoute(x)
               THEN UpdatePins(IF high THEN {p} ELSE {},
                               [pin EXCEPT ![p] = SyncLevelStatus(x)])
               ELSE UpdatePins(IF rise THEN {p} ELSE {},
                               [pin EXCEPT ![p] = [x EXCEPT !.status = @ \/ rise]])
            /\ UNCHANGED <<sel, lid, due>>
  BY Zenon DEF SetPin
<1> DEFINE x == [pin[p] EXCEPT !.line = high]
           rise == high /\ ~pin[p].line /\ ~x.masked
           e == [x EXCEPT !.status = @ \/ rise]
           s == SyncLevelStatus(x)
<1>2. /\ SameRoute(pin[p], x)
      /\ LevelRoute(x) => /\ Good(pin[p], s) /\ LevelRoute(s)
                          /\ s.masked = pin[p].masked /\ s.vector = pin[p].vector
                          /\ s.rirr = pin[p].rirr
                          /\ ~high /\ ~pin[p].masked /\ s.status => pin[p].status
      /\ ~LevelRoute(x) => /\ Good(pin[p], e) /\ ~LevelRoute(e) /\ e.line = high
                           /\ e.vector = pin[p].vector /\ e.rirr = pin[p].rirr
  BY GoodSetPin, ZenonT(60)
<1>3. CASE LevelRoute(x)
  <2>1. UpdatePins(IF high THEN {p} ELSE {}, [pin EXCEPT ![p] = s])
        /\ UNCHANGED <<sel, lid, due>>
    BY <1>1, <1>3
  <2>2. LevelRoute(pin[p])
    BY <1>2, <1>3, SameRouteFacts
  <2> HIDE DEF x, s
  <2>3. ~high /\ ~s.masked /\ s.status => s.rirr \/ refused[p]
    BY <1>2, <1>3, <2>2 DEF IInv, LevelServed
  <2> DEFINE S == IF high THEN {p} ELSE {}
  <2>4. S \in SUBSET {p} /\ (p \notin S => ~high)
    OBVIOUS
  <2>5. UpdatePins(S, [pin EXCEPT ![p] = s])
    BY <2>1
  <2> HIDE DEF S
  <2> QED BY <1>2, <1>3, <2>1, <2>3, <2>4, <2>5, OnePinInv
<1>4. CASE ~LevelRoute(x)
  <2> DEFINE S == IF rise THEN {p} ELSE {}
  <2>1. UpdatePins(S, [pin EXCEPT ![p] = e]) /\ UNCHANGED <<sel, lid, due>>
    BY <1>1, <1>4
  <2>2. S \in SUBSET {p} /\ (p \in S => high /\ ~pin[p].line)
    OBVIOUS
  <2> HIDE DEF x, e, S, rise
  <2> QED BY <1>2, <1>4, <2>1, <2>2, OnePinInv
<1> QED BY <1>3, <1>4, SMTT(40)

\* pid_rte_write prepares the pin well: x is the old pin with other fields of
\* its route.
LEMMA GoodPrepared ==
    ASSUME NEW old \in Inputs, Consistent(old), NEW x \in Inputs,
           x.rirr = old.rirr, x.latched = old.latched, x.status = old.status,
           x.line = old.line, ~x.masked => x.vector \in Vector
    PROVE  Good(old, Prepared(old, x))
           /\ (Prepared(old, x).status /\ ~LevelRoute(Prepared(old, x)) => old.status)
<1> DEFINE hold == x.masked /\ ~old.masked /\ old.status /\ ~old.rirr
           latched == old.latched \/ hold
           y == Prepared(old, x)
<1>0. /\ old.rirr \in BOOLEAN /\ old.latched \in BOOLEAN /\ old.status \in BOOLEAN
      /\ old.masked \in BOOLEAN /\ x.masked \in BOOLEAN /\ x.line \in BOOLEAN
  BY InputFields
<1>1. CASE LevelRoute(x) /\ LevelRoute(old)
  <2> DEFINE w == [x EXCEPT !.latched = latched]
  <2>1. y = SyncLevelStatus(w)
    BY <1>1 DEF Prepared
  <2>2. /\ w \in Inputs /\ SameRoute(x, w) /\ w.latched = latched
        /\ w.rirr = x.rirr /\ w.line = x.line
    BY <1>0 DEF Inputs, SameRoute
  <2> HIDE DEF w, y
  <2>3. /\ y \in Inputs /\ SameRoute(w, y)
        /\ y.rirr = w.rirr /\ y.latched = w.latched /\ y.line = w.line
        /\ y.status = (IF w.masked THEN w.latched /\ ~w.rirr ELSE w.latched \/ w.line)
    BY <2>1, <2>2, SyncFields
  <2>4. SameRoute(x, y)
    BY <2>2, <2>3 DEF SameRoute
  <2>5. LevelRoute(y) /\ y.masked = x.masked /\ w.masked = x.masked
        /\ y.vector = x.vector
    BY <1>1, <2>2, <2>4, SameRouteFacts
  <2>6. Consistent(y)
    BY <1>0, <1>1, <2>2, <2>3, <2>5 DEF Consistent
  <2> QED BY <1>0, <1>1, <2>2, <2>3, <2>5, <2>6 DEF Good, y
<1>2. CASE LevelRoute(x) /\ ~LevelRoute(old)
  <2> DEFINE b == old.status /\ (old.masked \/ x.masked)
             w == [x EXCEPT !.rirr = FALSE, !.latched = b]
  <2>1. y = SyncLevelStatus(w)
    BY <1>2 DEF Prepared
  <2>a. b \in BOOLEAN /\ (b => old.status)
    OBVIOUS
  <2> HIDE DEF b
  <2>2. /\ w \in Inputs /\ SameRoute(x, w) /\ ~w.rirr /\ w.line = x.line
        /\ w.latched = b
    BY <2>a, SetLatch, Zenon
  <2> HIDE DEF w, y
  <2>3. /\ y \in Inputs /\ SameRoute(w, y)
        /\ y.rirr = w.rirr /\ y.latched = w.latched /\ y.line = w.line
        /\ y.status = (IF w.masked THEN w.latched /\ ~w.rirr ELSE w.latched \/ w.line)
    BY <2>1, <2>2, SyncFields
  <2>4. SameRoute(x, y)
    BY <2>2, <2>3 DEF SameRoute
  <2>5. LevelRoute(y) /\ y.masked = x.masked /\ w.masked = x.masked
        /\ y.vector = x.vector
    BY <1>2, <2>2, <2>4, SameRouteFacts
  <2>6. Consistent(y) /\ ~old.latched
    BY <1>0, <1>2, <2>2, <2>3, <2>5, Zenon DEF Consistent
  <2> QED BY <1>0, <1>2, <2>a, <2>2, <2>3, <2>5, <2>6 DEF Good, y
<1>3. CASE ~LevelRoute(x)
  <2> DEFINE b == x.status /\ (~LevelRoute(old) \/ latched)
  <2>1. y = [x EXCEPT !.rirr = FALSE, !.latched = FALSE, !.status = b]
    BY <1>3 DEF Prepared
  <2>a. b \in BOOLEAN
    OBVIOUS
  <2> HIDE DEF b, y
  <2>2. /\ y \in Inputs /\ SameRoute(x, y) /\ ~y.rirr /\ ~y.latched
        /\ y.status = b
    BY <2>1, <2>a, ZenonT(60) DEF Inputs, SameRoute
  <2>3. ~LevelRoute(y) /\ y.masked = x.masked /\ y.vector = x.vector
    BY <1>3, <2>2, SameRouteFacts
  <2>4. Consistent(y)
    BY <2>2, <2>3 DEF Consistent
  <2>5. old.latched => old.status
    BY DEF Consistent
  <2>6. b => old.status
    BY DEF b
  <2>7. old.status /\ (~LevelRoute(old) \/ old.latched) => b
    BY DEF b
  <2> QED BY <1>0, <2>2, <2>3, <2>4, <2>5, <2>6, <2>7 DEF Good, y
<1> QED BY <1>1, <1>2, <1>3

\* A table write preserves the invariant and keeps latches and edges.
LEMMA RteWriteInv ==
    ASSUME IInv, NEW p \in Pin, NEW x \in Inputs, RteWrite(p, x),
           x.rirr = pin[p].rirr, x.latched = pin[p].latched,
           x.status = pin[p].status, x.line = pin[p].line,
           ~x.masked => x.vector \in Vector, UNCHANGED <<sel, lid, due>>
    PROVE  IInv' /\ Kept
<1> DEFINE y == Prepared(pin[p], x)
           S == IF LevelRoute(y) \/ y.status THEN {p} ELSE {}
<1>1. pin[p] \in Inputs /\ Consistent(pin[p])
  BY DEF IInv, TypeOK, AllConsistent
<1>2. Good(pin[p], y) /\ (y.status /\ ~LevelRoute(y) => pin[p].status)
  BY <1>1, GoodPrepared
<1>3. UpdatePins(S, [pin EXCEPT ![p] = y])
  BY DEF RteWrite
<1> HIDE DEF y
<1>4. S \in SUBSET {p} /\ (p \in S <=> LevelRoute(y) \/ y.status)
  BY SMTT(40)
<1> HIDE DEF S
<1> QED BY <1>2, <1>3, <1>4, OnePinInv

\* So does a write of the window register, of either half.
LEMMA WriteWindowInv ==
    ASSUME IInv, WriteWindow
    PROVE  IInv' /\ Kept
<1>1. /\ pin \in [Pin -> Inputs] /\ UNCHANGED <<sel, lid, due>>
      /\ \A p \in Pin : ~pin[p].masked => pin[p].vector \in Vector
  BY Zenon DEF IInv, WriteWindow, TypeOK, VectorsOK
<1>2. ASSUME NEW p \in Pin, NEW v \in Vector, NEW mode \in Mode,
             NEW trig \in BOOLEAN, NEW m \in BOOLEAN,
             RteWrite(p, [pin[p] EXCEPT !.vector = v, !.mode = mode,
                                        !.trigger = trig, !.masked = m])
      PROVE  IInv' /\ Kept
  <2> DEFINE x == [pin[p] EXCEPT !.vector = v, !.mode = mode,
                                 !.trigger = trig, !.masked = m]
  <2>1. /\ x \in Inputs /\ x.rirr = pin[p].rirr /\ x.latched = pin[p].latched
        /\ x.status = pin[p].status /\ x.line = pin[p].line /\ x.vector = v
    BY <1>1, ZenonT(60) DEF Inputs
  <2> HIDE DEF x
  <2> QED BY <1>1, <1>2, <2>1, RteWriteInv, Zenon DEF x
<1>3. ASSUME NEW p \in Pin, NEW d \in Lid, RteWrite(p, [pin[p] EXCEPT !.dest = d])
      PROVE  IInv' /\ Kept
  <2> DEFINE x == [pin[p] EXCEPT !.dest = d]
  <2>1. /\ x \in Inputs /\ x.rirr = pin[p].rirr /\ x.latched = pin[p].latched
        /\ x.status = pin[p].status /\ x.line = pin[p].line
        /\ x.vector = pin[p].vector /\ x.masked = pin[p].masked
    BY <1>1 DEF Inputs
  <2> QED BY <1>1, <1>3, <2>1, RteWriteInv, Zenon
<1> QED BY <1>2, <1>3, ZenonT(60) DEF WriteWindow

\* An EOI preserves the invariant: the pins whose EOI is no longer owed are
\* the ones whose Remote IRR it clears.
LEMMA EoiInv ==
    ASSUME IInv, NEW v \in Vector, Eoi(v)
    PROVE  IInv' /\ Kept
<1> DEFINE S == {p \in Pin : pin[p].vector = v /\ LevelRoute(pin[p]) /\ pin[p].rirr}
           y == [p \in Pin |-> IF p \in S THEN [pin[p] EXCEPT !.rirr = FALSE]
                                         ELSE pin[p]]
<1>1. TypeOK /\ VectorsOK /\ AllConsistent /\ LevelServed
  BY DEF IInv
<1>2. UpdatePins(S, y) /\ due' = due \ {v} /\ UNCHANGED <<sel, lid>>
  BY DEF Eoi
<1>3. \A p \in Pin : p \in S <=>
        pin[p].vector = v /\ LevelRoute(pin[p]) /\ pin[p].rirr
  OBVIOUS
<1>4. S \in SUBSET Pin
  OBVIOUS
<1>5. \A p \in Pin : y[p] = IF p \in S THEN [pin[p] EXCEPT !.rirr = FALSE] ELSE pin[p]
  OBVIOUS
<1>6. y = [p \in Pin |-> y[p]]
  BY SMTT(40)
<1> HIDE DEF S, y
<1>7. ASSUME NEW p \in S
      PROVE  Good(pin[p], y[p]) /\ ~y[p].rirr /\ LevelRoute(y[p])
  <2>0. p \in Pin
    BY <1>4
  <2>1. pin[p] \in Inputs /\ Consistent(pin[p])
    BY <1>1, <2>0 DEF TypeOK, AllConsistent
  <2>a. y[p] = [pin[p] EXCEPT !.rirr = FALSE]
    BY <1>5, <2>0
  <2>2. /\ y[p] \in Inputs /\ SameRoute(pin[p], y[p]) /\ ~y[p].rirr
        /\ y[p].latched = pin[p].latched /\ y[p].status = pin[p].status
        /\ y[p].line = pin[p].line
    BY <2>1, <2>a, Zenon DEF Inputs, SameRoute
  <2>3. /\ LevelRoute(y[p]) = LevelRoute(pin[p]) /\ y[p].masked = pin[p].masked
        /\ y[p].vector = pin[p].vector
    BY <2>2, SameRouteFacts
  <2>4. LevelRoute(pin[p]) /\ pin[p].rirr
    BY <1>3, <2>0
  <2>5. ~pin[p].latched
    BY <2>1, <2>4 DEF Consistent
  <2>6. Consistent(y[p])
    BY <2>1, <2>2, <2>3, <2>4, <2>5, InputFields DEF Consistent
  <2> QED BY <1>1, <2>0, <2>2, <2>3, <2>4, <2>5, <2>6 DEF Good, VectorsOK
<1>8. \A p \in Pin : Good(pin[p], y[p])
  BY <1>5, <1>7, GoodSelf, Zenon
<1>9. y \in [Pin -> Inputs]
  BY <1>6, <1>8 DEF Good
<1>10. \A p \in Pin \ S : LevelRoute(y[p]) /\ ~y[p].masked /\ y[p].status
                => y[p].rirr \/ refused[p]
  BY <1>1, <1>5, Zenon DEF LevelServed
<1>11. ASSUME NEW p \in Pin, y[p].rirr, y[p].vector \in due
       PROVE  y[p].vector \in due'
  <2>1. p \notin S /\ y[p] = pin[p]
    BY <1>5, <1>7, <1>11, Zenon
  <2>2. LevelRoute(pin[p])
    BY <1>1, <1>11, <2>1 DEF AllConsistent, Consistent
  <2> QED BY <1>2, <1>3, <1>11, <2>1, <2>2
<1>12. /\ due' \subseteq Vector \union {NMI} /\ sel' \in Selectable /\ lid' = lid
  BY <1>1, <1>2 DEF TypeOK
<1> QED BY <1>2, <1>4, <1>7, <1>8, <1>9, <1>10, <1>11, <1>12, UpdateInv

\* Loading a snapshot preserves the invariant and keeps latches and edges.
LEMMA PostLoadInv ==
    ASSUME IInv, PostLoad
    PROVE  IInv' /\ Kept
<1> DEFINE S == {p \in Pin : LevelRoute(pin[p])}
           y == [p \in Pin |-> Loaded(pin[p])]
<1>1. TypeOK /\ VectorsOK /\ AllConsistent
  BY DEF IInv
<1>2. UpdatePins(S, y) /\ UNCHANGED <<sel, lid, due>>
  BY DEF PostLoad
<1>3. ASSUME NEW p \in Pin
      PROVE  Loaded(pin[p]) = pin[p]
  <2>1. pin[p] \in Inputs /\ Consistent(pin[p])
    BY <1>1 DEF TypeOK, AllConsistent
  <2>2. /\ pin[p].rirr \in BOOLEAN /\ pin[p].latched \in BOOLEAN
        /\ pin[p].status \in BOOLEAN
    BY <2>1, InputFields
  <2>3. CASE LevelRoute(pin[p])
    <3>1. (pin[p].latched /\ pin[p].status /\ ~pin[p].rirr) = pin[p].latched
      BY <2>1, <2>2, Zenon DEF Consistent
    <3>2. [pin[p] EXCEPT !.latched = @ /\ pin[p].status /\ ~pin[p].rirr] = pin[p]
      BY <2>1, <3>1 DEF Inputs
    <3>3. SyncLevelStatus(pin[p]) = pin[p]
      BY <2>1, <2>3 DEF SyncLevelStatus, Consistent, Inputs
    <3> QED BY <2>3, <3>2, <3>3, SMTT(40) DEF Loaded
  <2>4. CASE ~LevelRoute(pin[p])
    <3>1. pin[p].rirr = FALSE /\ pin[p].latched = FALSE
      BY <2>1, <2>2, <2>4 DEF Consistent
    <3> QED BY <2>1, <2>4, <3>1, Zenon DEF Loaded, Inputs
  <2> QED BY <2>3, <2>4
<1>4. y = pin
  BY <1>1, <1>3 DEF TypeOK
<1>5. \A p \in Pin : Good(pin[p], pin[p])
  BY GoodSelf
<1>6. /\ S \in SUBSET Pin /\ \A p \in Pin : p \in S <=> LevelRoute(pin[p])
  OBVIOUS
<1> HIDE DEF S, y
<1>7. /\ pin \in [Pin -> Inputs] /\ due' = due /\ due' \subseteq Vector \union {NMI}
      /\ sel' \in Selectable /\ lid' = lid
  BY <1>1, <1>2 DEF TypeOK
<1> QED BY <1>2, <1>4, <1>5, <1>6, <1>7, UpdateInv

\* A step that leaves the pins alone and requests nothing keeps everything.
LEMMA KeptStill ==
    ASSUME pin' = pin, \A c \in CPU : pending'[c] \subseteq pending[c]
    PROVE  Kept
BY DEF Kept, LatchKept, EdgeKept, Caused

\* The handlers of the guest move a vector from pending to due.
LEMMA GuestInv ==
    ASSUME IInv, NEW c \in CPU, GuestStep(c), UNCHANGED pidVars
    PROVE  IInv' /\ Kept
<1>1. TypeOK /\ VectorsOK /\ AllConsistent /\ LevelServed /\ RemoteIrrOutstanding
  BY DEF IInv
<1>2. pin' = pin /\ sel' = sel /\ refused' = refused /\ steady' = steady
  BY SMTT(40) DEF pidVars
<1>3. LevelServed' /\ AllConsistent'
  BY <1>1, <1>2, SMTT(40) DEF LevelServed, AllConsistent
<1>4. CASE HandlerStarts(c)
  <2>1. PICK v \in pending[c] : AcceptVector(c, v) /\ due' = due \union {v} /\ lid' = lid
    BY <1>4 DEF HandlerStarts
  <2>2. /\ pending' \in [CPU -> SUBSET (Vector \union {NMI})]
        /\ \A d \in CPU : pending[d] \ {v} \subseteq pending'[d]
        /\ v \in Vector \union {NMI}
    BY <1>1, <2>1 DEF VectorsOK, AcceptVector
  <2>3. TypeOK' /\ VectorsOK'
    BY <1>1, <1>2, <2>1, <2>2, SMTT(40) DEF TypeOK, VectorsOK
  <2>4. RemoteIrrOutstanding'
    BY <1>1, <1>2, <2>1, <2>2 DEF RemoteIrrOutstanding
  <2>5. Kept
    <3>1. \A d \in CPU : pending'[d] \subseteq pending[d]
      BY <1>1, <2>1 DEF AcceptVector, VectorsOK
    <3> QED BY <1>2, <3>1, KeptStill
  <2> QED BY <1>3, <2>3, <2>4, <2>5, SMTT(40) DEF IInv
<1>5. CASE HandlerEnds(c)
  <2>1. UNCHANGED <<lid, due, pending>>
    BY <1>5, SMTT(40) DEF HandlerEnds, Retire
  <2>2. Kept
    BY <1>2, <2>1, KeptStill
  <2> QED BY <1>1, <1>2, <1>3, <2>1, <2>2
          DEF IInv, TypeOK, VectorsOK, RemoteIrrOutstanding
<1>6. CASE WriteLid(c)
  <2>1. lid' \in [CPU -> Lid \union CPU] /\ due' = due /\ pending' = pending
    BY <1>1, <1>6, SMTT(40) DEF WriteLid, TypeOK, portVars
  <2>2. Kept
    BY <1>2, <2>1, KeptStill
  <2> QED BY <1>1, <1>2, <1>3, <2>1, <2>2
          DEF IInv, TypeOK, VectorsOK, RemoteIrrOutstanding
<1> QED BY <1>4, <1>5, <1>6 DEF GuestStep

\* Every step preserves the invariant.
LEMMA InvStep ==
    ASSUME IInv, [Next]_vars
    PROVE  IInv' /\ Kept
<1>1. CASE Select
  <2>1. /\ sel' \in Selectable
        /\ UNCHANGED <<pin, refused, steady, lid, due, pending>>
    BY <1>1 DEF Select, guestVars, portVars
  <2>2. Kept
    BY <2>1, KeptStill, SMTT(40)
  <2> QED BY <2>1, <2>2 DEF IInv, TypeOK, VectorsOK, AllConsistent, LevelServed,
                            RemoteIrrOutstanding
<1>2. CASE UNCHANGED vars
  <2>1. UNCHANGED <<pin, refused, steady, sel, lid, due, pending>>
    BY <1>2 DEF vars, pidVars, guestVars, portVars
  <2>2. Kept
    BY <2>1, KeptStill
  <2> QED BY <2>1, <2>2 DEF IInv, TypeOK, VectorsOK, AllConsistent, LevelServed,
                            RemoteIrrOutstanding
<1> QED BY <1>1, <1>2, SetPinInv, WriteWindowInv, EoiInv, PostLoadInv, GuestInv, SMTT(40)
        DEF Next

\* The initial state satisfies the invariant.
LEMMA InitInv == Init => IInv
<1> SUFFICES ASSUME Init PROVE IInv
  OBVIOUS
<1>1. TypeOK
  BY DEF Init, GuestInit, ResetPin, Inputs, TypeOK, Selectable
<1>2. VectorsOK
  BY DEF Init, GuestInit, PortInit, ResetPin, VectorsOK
<1>3. AllConsistent /\ LevelServed /\ RemoteIrrOutstanding
  BY DEF Init, ResetPin, AllConsistent, Consistent, LevelRoute, LevelServed,
         RemoteIrrOutstanding
<1> QED BY <1>1, <1>2, <1>3 DEF IInv

\* The invariant always holds, and every step keeps latches and edges.
LEMMA Invariance == Spec => []IInv /\ [][Kept]_vars
<1>1. IInv /\ [Next]_vars => IInv' /\ [Kept]_vars
  BY InvStep
<1> QED BY InitInv, <1>1, PTL DEF Spec

\* The status bit, Remote IRR and the latch of every pin agree, so that
\* pid_post_load() changes nothing of what a running machine has saved.
THEOREM FlagsAgree == Spec => []PinConsistent
<1>1. ASSUME IInv
      PROVE  PinConsistent
  <2>1. ASSUME NEW p \in Pin, LevelRoute(pin[p])
        PROVE  pin[p] = SyncLevelStatus(pin[p])
    <3>1. pin[p] \in Inputs /\ Consistent(pin[p])
      BY <1>1 DEF IInv, TypeOK, AllConsistent
    <3> QED BY <2>1, <3>1 DEF SyncLevelStatus, Consistent, Inputs
  <2> QED BY <1>1, <2>1 DEF IInv, AllConsistent, Consistent, PinConsistent
<1> QED BY Invariance, <1>1, PTL

\* An unmasked level route that is asserted, or holds a level, has its message
\* outstanding or was refused when last evaluated.
THEOREM NoLevelLeftBehind == Spec => []LevelServed
<1>1. IInv => LevelServed
  BY DEF IInv
<1> QED BY Invariance, <1>1, PTL

\* The EOI that clears Remote IRR is owed or its message still waits.
THEOREM RemoteIrrCleared == Spec => []RemoteIrrOutstanding
<1>1. IInv => RemoteIrrOutstanding
  BY DEF IInv
<1> QED BY Invariance, <1>1, PTL

\* A level latched before masking is held until it is delivered or turned into
\* a held edge.
THEOREM LatchesHeld == Spec => LatchHeld
<1>1. [Kept]_vars => [LatchKept]_vars
  BY DEF Kept
<1> QED BY Invariance, <1>1, PTL DEF LatchHeld, LatchKept

\* An edge that no processor took is held until one does.
THEOREM EdgesHeld == Spec => EdgeHeld
<1>1. [Kept]_vars => [EdgeKept]_vars
  BY DEF Kept
<1> QED BY Invariance, <1>1, PTL DEF EdgeHeld, EdgeKept

\* Every request has an input, a latch or a held edge as its cause.
THEOREM NoRequestInvented == Spec => RequestHasCause
<1>1. [Kept]_vars => [Caused]_vars
  BY DEF Kept
<1> QED BY Invariance, <1>1, PTL DEF RequestHasCause, Caused
=============================================================================
