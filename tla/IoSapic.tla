------------------------------- MODULE IoSapic -------------------------------
(***************************************************************************)
(* The I/O SAPIC of hw/ia64/ia64_iosapic.c: input pins, the redirection    *)
(* table behind the select and window registers, and the EOI register.     *)
(* The processors are the abstract SapicPort; guest handlers write an I/O  *)
(* EOI for every vector they accept (`due' until then).  Device handlers   *)
(* run under the big lock, so each is one step.                            *)
(*                                                                         *)
(* Delivery modes are INT and INT_REDIRECT, the ones an I/O EOI completes. *)
(***************************************************************************)
EXTENDS SapicGuest

ASSUME IoModeAssumption == "NMI" \notin Mode

VARIABLES
    rte,          \* rte[p]: redirection table entry
    line,         \* line[p]: irq_level
    sel,          \* reg_select
    refused,      \* history: the last attempt to deliver from p was refused
    steady        \* history: p's vector has not changed since it last fired

ioVars == <<rte, line, sel, refused, steady>>
vars == <<ioVars, guestVars>>

Routes ==
    [vector : Vector \union {0}, mode : Mode \union {"INT"}, level : BOOLEAN,
     masked : BOOLEAN, dest : Lid \union {0}, rirr : BOOLEAN]

\* iosapic_reset
ResetRte == [vector |-> 0, mode |-> "INT", level |-> FALSE,
             masked |-> TRUE, dest |-> 0, rirr |-> FALSE]

Init ==
    /\ GuestInit
    /\ rte = [p \in Pin |-> ResetRte]
    /\ line = [p \in Pin |-> FALSE]
    /\ sel = 0
    /\ refused = [p \in Pin |-> FALSE]
    /\ steady = [p \in Pin |-> FALSE]

-----------------------------------------------------------------------------
(* iosapic_update for a table and input levels that a handler has prepared *)
(* (r, l).  Pins are independent, so a handler that updates several pins   *)
(* does so at once.                                                        *)

\* The route asks for a message now.
Fires(x, high) == ~x.masked /\ (x.level => high /\ ~x.rirr)

\* Mutant: Remote IRR stays set when no processor takes the message.
AfterUpdateLeavesRirr(x, high) ==
    IF x.level /\ Fires(x, high) THEN [x EXCEPT !.rirr = TRUE] ELSE x

\* Remote IRR is set before the delivery and cleared again if that fails.
AfterUpdate(x, high) ==
    IF x.level /\ Fires(x, high) /\ Targets(x) # {}
    THEN [x EXCEPT !.rirr = TRUE] ELSE x

\* Update the pins S of table r with input levels l, send their messages and
\* keep the histories.
UpdatePins(S, r, l) ==
    LET firing == {p \in S : Fires(r[p], l[p])}
        sent == {p \in firing : Targets(r[p]) # {}}
    IN  /\ rte' = [p \in Pin |-> IF p \in S THEN AfterUpdate(r[p], l[p]) ELSE r[p]]
        /\ line' = l
        /\ RequestFrom(sent, r)
        /\ refused' = [p \in Pin |-> IF p \in firing THEN p \notin sent
                                     ELSE refused[p] /\ ~r[p].rirr]
        /\ steady' = [p \in Pin |-> IF p \in firing THEN TRUE
                                    ELSE steady[p] /\ r[p].vector = rte[p].vector]

-----------------------------------------------------------------------------
(* Operations.                                                             *)

\* iosapic_irq_handler
SetPin(p) ==
    \E high \in BOOLEAN :
        /\ UpdatePins(IF high /\ (rte[p].level \/ ~line[p]) THEN {p} ELSE {},
                      rte, [line EXCEPT ![p] = high])
        /\ UNCHANGED <<sel, lid, due>>

\* iosapic_write, IOREGSEL
Select ==
    /\ \E i \in Selectable : sel' = i
    /\ UNCHANGED <<rte, line, refused, steady, guestVars>>

\* Mutant: a table write never re-evaluates the input.
RteWriteOnly(p, x) ==
    UpdatePins({}, [rte EXCEPT ![p] = [x EXCEPT !.rirr = @ /\ x.level]], line)

\* Mutant: a table write replays an edge input.
RteWriteEdge(p, x) ==
    UpdatePins({p}, [rte EXCEPT ![p] = [x EXCEPT !.rirr = @ /\ x.level]], line)

\* iosapic_rte_write: Remote IRR is read-only, and zero on an edge route;
\* only an asserted level input is evaluated again.
RteWrite(p, x) ==
    UpdatePins(IF x.level THEN {p} ELSE {},
               [rte EXCEPT ![p] = [x EXCEPT !.rirr = @ /\ x.level]], line)

\* iosapic_write, IOWIN: the identification register ignores the write.
WriteWindow ==
    /\ \/ \E p \in Pin, v \in Vector, mode \in Mode, lev, m \in BOOLEAN :
            /\ sel = RteLow(p)
            /\ RteWrite(p, [rte[p] EXCEPT !.vector = v, !.mode = mode,
                                          !.level = lev, !.masked = m])
       \/ \E p \in Pin, d \in Lid :
            /\ sel = RteHigh(p)
            /\ RteWrite(p, [rte[p] EXCEPT !.dest = d])
    /\ UNCHANGED <<sel, lid, due>>

\* iosapic_eoi: every level pin of the vector that waits for an EOI.
Eoi(v) ==
    LET done == {p \in Pin : rte[p].vector = v /\ rte[p].level /\ rte[p].rirr}
    IN  /\ UpdatePins(done, [p \in Pin |-> IF p \in done
                                THEN [rte[p] EXCEPT !.rirr = FALSE] ELSE rte[p]], line)
        /\ due' = due \ {v}
        /\ UNCHANGED <<sel, lid>>

\* iosapic_post_load: levels are evaluated again, edges are not replayed.
PostLoad ==
    /\ UpdatePins({p \in Pin : rte[p].level}, rte, line)
    /\ UNCHANGED <<sel, lid, due>>

Next ==
    \/ \E p \in Pin : SetPin(p)
    \/ Select
    \/ WriteWindow
    \/ \E v \in Vector : Eoi(v)
    \/ PostLoad
    \/ \E c \in CPU : GuestStep(c) /\ UNCHANGED ioVars

Spec == Init /\ [][Next]_vars

\* The guest's handlers run: as long as one can go on, a processor accepts a
\* pending vector, writes an I/O EOI that is owed or ends a service.
Fairness ==
    \A c \in CPU :
        WF_vars(\/ (HandlerStarts(c) \/ HandlerEnds(c)) /\ UNCHANGED ioVars
                \/ \E v \in due : Eoi(v))

FairSpec == Spec /\ Fairness

-----------------------------------------------------------------------------
(* Properties.                                                             *)

\* The redirection table, the inputs and the processors' registers keep their
\* types.
TypeOK ==
    /\ rte \in [Pin -> Routes]
    /\ line \in [Pin -> BOOLEAN]
    /\ sel \in Selectable
    /\ lid \in [CPU -> Lid \union CPU]
    /\ due \subseteq Vector

Asserted(p) == rte[p].level /\ line[p] /\ ~rte[p].masked

\* An asserted, unmasked level input always has a message outstanding (Remote
\* IRR) unless no processor would take it: masking, rerouting, EOIs and
\* snapshots leave no level interrupt behind.
LevelServed ==
    \A p \in Pin : Asserted(p) => rte[p].rirr \/ refused[p]

\* Remote IRR is set on level routes only (iosapic_fix_edge_remote_irr), and
\* means that somebody will write the EOI that clears it: the message waits at
\* a processor or its handler still owes the EOI.  That only fails after the
\* guest changes the vector of a pin that awaits its EOI.
RemoteIrrOutstanding ==
    \A p \in Pin : rte[p].rirr =>
        /\ rte[p].level
        /\ steady[p] => \/ rte[p].vector \in due
                        \/ \E c \in CPU : rte[p].vector \in pending[c]

\* Every request has a cause: a level input that is asserted and now awaits
\* its EOI, or the rise of an unmasked edge input.  Table writes and snapshots
\* replay no edge.
RequestHasCause ==
    [][\A c \in CPU : \A v \in pending'[c] \ pending[c] : \E p \in Pin :
          /\ rte'[p].vector = v
          /\ \/ rte'[p].rirr /\ line'[p]
             \/ ~rte'[p].level /\ ~rte'[p].masked /\ line'[p] /\ ~line[p]]_vars

\* An asserted level input reaches a handler, over and over while it stays
\* asserted: EOI evaluates it again.  Excluded are routes that no processor
\* took when they were last evaluated (a processor that takes the LID later
\* evaluates nothing), and routes whose vector the guest changed while they
\* await an EOI.
Open(p) == Asserted(p) /\ ~refused[p] /\ (rte[p].rirr => steady[p])

LevelReachesHandler ==
    \A p \in Pin, v \in Vector :
        [](Open(p) /\ rte[p].vector = v
            => <>(v \in due \/ ~Open(p) \/ rte[p].vector # v))
=============================================================================
