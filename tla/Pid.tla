--------------------------------- MODULE Pid ---------------------------------
(***************************************************************************)
(* The 460GX programmable interrupt device (hw/ia64/intel_460gx_pid.c): an *)
(* I/O SAPIC whose entries also report their delivery status, remember an  *)
(* edge until some processor takes it, and hold a level that was sampled   *)
(* before its pin was masked.  pin[p] joins the entry, the input and the   *)
(* latch of pin p.  The legacy input is one more source of SetPin.         *)
(***************************************************************************)
EXTENDS SapicGuest

VARIABLES
    pin,          \* pin[p]: rte, irq_level and mask_latched
    sel,          \* reg_select
    refused,      \* history: the last attempt to deliver from p was refused
    steady        \* history: p's vector has not changed since it last fired

pidVars == <<pin, sel, refused, steady>>
vars == <<pidVars, guestVars>>

Inputs ==
    [vector : Vector \union {0}, mode : Mode \union {"INT"}, trigger : BOOLEAN,
     masked : BOOLEAN, dest : Lid \union {0}, rirr : BOOLEAN, status : BOOLEAN,
     line : BOOLEAN, latched : BOOLEAN]

\* pid_reset
ResetPin ==
    [vector |-> 0, mode |-> "INT", trigger |-> FALSE, masked |-> TRUE,
     dest |-> 0, rirr |-> FALSE, status |-> FALSE, line |-> FALSE,
     latched |-> FALSE]

Init ==
    /\ GuestInit
    /\ pin = [p \in Pin |-> ResetPin]
    /\ sel = 0
    /\ refused = [p \in Pin |-> FALSE]
    /\ steady = [p \in Pin |-> FALSE]

-----------------------------------------------------------------------------
(* One pin.                                                                *)

\* pid_level_route: NMI is edge-triggered whatever the trigger bit says.
LevelRoute(x) == x.mode # "NMI" /\ x.trigger

\* pid_sync_level_status
SyncLevelStatus(x) ==
    [x EXCEPT !.status = IF x.masked THEN x.latched /\ ~x.rirr
                                     ELSE x.latched \/ x.line]

\* pid_update attempts a delivery.
Fires(x) ==
    ~x.masked /\ (LevelRoute(x) => (x.line \/ x.latched) /\ ~x.rirr)

\* Mutant: Remote IRR stays set when no processor takes the message.
UpdatedPinLeavesRirr(x) ==
    IF ~Fires(x) THEN x
    ELSE IF LevelRoute(x)
         THEN SyncLevelStatus([x EXCEPT !.rirr = TRUE, !.latched = FALSE])
         ELSE [x EXCEPT !.status = FALSE]

\* pid_update: a refused message leaves the pin as it was.
UpdatedPin(x) ==
    IF ~Fires(x) \/ Targets(x) = {} THEN x
    ELSE IF LevelRoute(x)
         THEN SyncLevelStatus([x EXCEPT !.rirr = TRUE, !.latched = FALSE])
         ELSE [x EXCEPT !.status = FALSE]

\* pid_update of the pins S, once a handler has prepared them as y.
UpdatePins(S, y) ==
    LET firing == {p \in S : Fires(y[p])}
        sent == {p \in firing : Targets(y[p]) # {}}
    IN  /\ pin' = [p \in Pin |-> IF p \in S THEN UpdatedPin(y[p]) ELSE y[p]]
        /\ RequestFrom(sent, y)
        /\ refused' = [p \in Pin |-> IF p \in firing THEN p \notin sent
                                     ELSE refused[p] /\ ~y[p].rirr]
        /\ steady' = [p \in Pin |-> IF p \in firing THEN TRUE
                                    ELSE steady[p] /\ y[p].vector = pin[p].vector]

-----------------------------------------------------------------------------
(* Operations.                                                             *)

\* pid_set_pin, from pid_irq_handler and pid_legacy_handler
SetPin(p) ==
    \E high \in BOOLEAN :
        LET x == [pin[p] EXCEPT !.line = high]
            rise == high /\ ~pin[p].line /\ ~x.masked
        IN  /\ IF LevelRoute(x)
               THEN UpdatePins(IF high THEN {p} ELSE {},
                               [pin EXCEPT ![p] = SyncLevelStatus(x)])
               ELSE UpdatePins(IF rise THEN {p} ELSE {},
                               [pin EXCEPT ![p] = [x EXCEPT !.status = @ \/ rise]])
            /\ UNCHANGED <<sel, lid, due>>

\* pid_mmio_write, IOREGSEL
Select ==
    /\ \E i \in Selectable : sel' = i
    /\ UNCHANGED <<pin, refused, steady, guestVars>>

\* Mutant: an edge route forgets what it has not delivered.
PreparedDropsEdge(old, x) ==
    LET hold == x.masked /\ ~old.masked /\ old.status /\ ~old.rirr
        latched == old.latched \/ hold
    IN  IF LevelRoute(x)
        THEN SyncLevelStatus(
                 IF LevelRoute(old) THEN [x EXCEPT !.latched = latched]
                 ELSE [x EXCEPT !.rirr = FALSE,
                                !.latched = old.status /\ (old.masked \/ x.masked)])
        ELSE [x EXCEPT !.rirr = FALSE, !.latched = FALSE, !.status = FALSE]

\* Mutant: a level sampled before masking stays latched on an edge route.
PreparedKeepsLatch(old, x) ==
    LET hold == x.masked /\ ~old.masked /\ old.status /\ ~old.rirr
        latched == old.latched \/ hold
    IN  IF LevelRoute(x)
        THEN SyncLevelStatus(
                 IF LevelRoute(old) THEN [x EXCEPT !.latched = latched]
                 ELSE [x EXCEPT !.rirr = FALSE,
                                !.latched = old.status /\ (old.masked \/ x.masked)])
        ELSE [x EXCEPT !.rirr = FALSE, !.latched = latched,
                       !.status = @ /\ (~LevelRoute(old) \/ latched)]

\* pid_rte_write up to its pid_update: x is the pin with the written fields.
\* Masking holds what was sampled and not delivered; a change between edge
\* and level keeps only what masking holds.
Prepared(old, x) ==
    LET hold == x.masked /\ ~old.masked /\ old.status /\ ~old.rirr
        latched == old.latched \/ hold
    IN  IF LevelRoute(x)
        THEN SyncLevelStatus(
                 IF LevelRoute(old) THEN [x EXCEPT !.latched = latched]
                 ELSE [x EXCEPT !.rirr = FALSE,
                                !.latched = old.status /\ (old.masked \/ x.masked)])
        ELSE [x EXCEPT !.rirr = FALSE, !.latched = FALSE,
                       !.status = @ /\ (~LevelRoute(old) \/ latched)]

\* Mutant: an edge is retried even if it was delivered.
RteWriteReplays(p, x) ==
    LET y == Prepared(pin[p], x) IN UpdatePins({p}, [pin EXCEPT ![p] = y])

\* Mutant: a table write never evaluates the input again.
RteWriteOnly(p, x) ==
    LET y == Prepared(pin[p], x) IN UpdatePins({}, [pin EXCEPT ![p] = y])

\* pid_rte_write
RteWrite(p, x) ==
    LET y == Prepared(pin[p], x) IN
    UpdatePins(IF LevelRoute(y) \/ y.status THEN {p} ELSE {},
               [pin EXCEPT ![p] = y])

\* pid_mmio_write, IOWIN
WriteWindow ==
    /\ \/ \E p \in Pin, v \in Vector, mode \in Mode, trig, m \in BOOLEAN :
            /\ sel = RteLow(p)
            /\ RteWrite(p, [pin[p] EXCEPT !.vector = v, !.mode = mode,
                                          !.trigger = trig, !.masked = m])
       \/ \E p \in Pin, d \in Lid :
            /\ sel = RteHigh(p)
            /\ RteWrite(p, [pin[p] EXCEPT !.dest = d])
    /\ UNCHANGED <<sel, lid, due>>

\* pid_eoi
Eoi(v) ==
    LET done == {p \in Pin : pin[p].vector = v /\ LevelRoute(pin[p]) /\ pin[p].rirr}
    IN  /\ UpdatePins(done, [p \in Pin |-> IF p \in done
                                THEN [pin[p] EXCEPT !.rirr = FALSE] ELSE pin[p]])
        /\ due' = due \ {v}
        /\ UNCHANGED <<sel, lid>>

\* Mutant: the held level is not part of the snapshot.
LoadedNoLatch(x) ==
    IF LevelRoute(x) THEN SyncLevelStatus([x EXCEPT !.latched = FALSE])
    ELSE [x EXCEPT !.latched = FALSE, !.rirr = FALSE]

\* pid_post_load, up to its pid_update of the level routes.
Loaded(x) ==
    IF LevelRoute(x)
    THEN SyncLevelStatus([x EXCEPT !.latched = @ /\ x.status /\ ~x.rirr])
    ELSE [x EXCEPT !.latched = FALSE, !.rirr = FALSE]

PostLoad ==
    /\ UpdatePins({p \in Pin : LevelRoute(pin[p])},
                  [p \in Pin |-> Loaded(pin[p])])
    /\ UNCHANGED <<sel, lid, due>>

Next ==
    \/ \E p \in Pin : SetPin(p)
    \/ Select
    \/ WriteWindow
    \/ \E v \in Vector : Eoi(v)
    \/ PostLoad
    \/ \E c \in CPU : GuestStep(c) /\ UNCHANGED pidVars

Spec == Init /\ [][Next]_vars

-----------------------------------------------------------------------------
(* Properties.                                                             *)

\* The pins, the select register and the processors' state keep their types.
TypeOK ==
    /\ pin \in [Pin -> Inputs]
    /\ sel \in Selectable
    /\ lid \in [CPU -> Lid \union CPU]
    /\ due \subseteq Vector \union {NMI}

\* The status bit, Remote IRR and the latch of a pin agree after any sequence
\* of input changes, table writes and EOIs: EOI and delivery do not recompute
\* the status, and pid_post_load() trusts the relation to keep the latch.
PinConsistent ==
    \A p \in Pin :
        /\ pin[p].rirr \/ pin[p].latched => LevelRoute(pin[p])
        /\ pin[p].latched => pin[p].status /\ ~pin[p].rirr
        /\ LevelRoute(pin[p]) => pin[p] = SyncLevelStatus(pin[p])

\* An unmasked level route whose input is asserted, or was sampled before a
\* mask, has its message outstanding unless no processor would take it.
LevelServed ==
    \A p \in Pin : LevelRoute(pin[p]) /\ ~pin[p].masked /\ pin[p].status
        => pin[p].rirr \/ refused[p]

\* Remote IRR means that the message waits at a processor or that its handler
\* still owes the EOI, unless the guest changed the vector meanwhile.
RemoteIrrOutstanding ==
    \A p \in Pin : pin[p].rirr /\ steady[p] =>
        \/ pin[p].vector \in due
        \/ \E c \in CPU : pin[p].vector \in pending[c]

\* Some processor has the vector of pin p's new route pending.
Requested(p) == \E c \in CPU : SentVector(pin'[p]) \in pending'[c]

\* "A value latched before masking is held until unmasked and delivered": the
\* latch goes only with a delivery, or turns into a held edge.
LatchHeld ==
    [][\A p \in Pin : pin[p].latched /\ ~pin'[p].latched =>
          \/ pin'[p].rirr /\ Requested(p)
          \/ ~LevelRoute(pin'[p]) /\ (pin'[p].status \/ Requested(p))]_vars

\* An edge that no processor took is kept until one does, through masking,
\* rerouting and snapshots; only a change to a level route drops it.
EdgeHeld ==
    [][\A p \in Pin : ~LevelRoute(pin[p]) /\ pin[p].status /\ ~pin'[p].status
          => LevelRoute(pin'[p]) \/ Requested(p)]_vars

\* Every request has a cause: an asserted or held level that now awaits its
\* EOI, the rise of an unmasked edge input, or an edge that was held.
RequestHasCause ==
    [][\A c \in CPU : \A v \in pending'[c] \ pending[c] : \E p \in Pin :
          /\ SentVector(pin'[p]) = v
          /\ \/ pin'[p].rirr /\ (pin'[p].line \/ pin[p].latched \/ pin[p].status)
             \/ ~LevelRoute(pin'[p]) /\ ~pin'[p].masked
                /\ ((pin'[p].line /\ ~pin[p].line) \/ pin[p].status)]_vars
=============================================================================
