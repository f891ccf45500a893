----------------------------- MODULE SapicGuest -----------------------------
(***************************************************************************)
(* What an I/O interrupt controller meets: processors that behave as       *)
(* SapicPort, whose CR.LID gives them an identifier, and guest handlers    *)
(* that owe an I/O EOI for every vector they accept (`due').               *)
(***************************************************************************)
EXTENDS SapicPort, FiniteSets, FiniteSetsExt

CONSTANTS
    Pins,         \* number of input pins of the controller
    Vector,       \* vectors that the guest programs (also invalid ones)
    Lid,          \* identifiers that CR.LID and routes may hold
    Mode          \* delivery modes that the guest programs

ASSUME PinsAssumption == Pins \in Nat \ {0}
ASSUME VectorAssumption == Vector \subseteq 0 .. 255
ASSUME ModeAssumption == Mode \subseteq {"INT", "INT_REDIRECT", "NMI"}
ASSUME LidAssumption == CPU \subseteq Nat /\ Lid \subseteq Nat

Pin == 0 .. Pins - 1

VARIABLES
    lid,          \* lid[c]: CR.LID of processor c
    due           \* vectors accepted by a handler that owes an I/O EOI

guestVars == <<lid, due, portVars>>

GuestInit ==
    /\ PortInit
    /\ lid = [c \in CPU |-> c]
    /\ due = {}

\* ia64_sapic_deliver: the vector that a route sends, and the processors that
\* may get it.  A redirected message goes to any of them; LocalSapic says to
\* which.  No processor: the delivery is refused.
SentVector(x) == IF x.mode = "NMI" THEN NMI ELSE x.vector

Targets(x) ==
    LET named == {c \in CPU : lid[c] = x.dest} IN
    IF named = {} \/ ~VectorValid(SentVector(x)) THEN {}
    ELSE IF x.mode = "INT_REDIRECT" THEN CPU
    ELSE {Min(named)}

\* Messages of the pins `sent' with routes r.
RequestFrom(sent, r) ==
    /\ \E to \in [sent -> CPU] :
        /\ \A p \in sent : to[p] \in Targets(r[p])
        /\ pending' = [c \in CPU |-> pending[c] \union
                          {SentVector(r[p]) : p \in {q \in sent : to[q] = c}}]
    /\ UNCHANGED service

\* The two registers of the redirection table entry of a pin: IOREGSEL holds
\* the register's number, the low half first.
RTE_BASE == 16
RteLow(p)  == RTE_BASE + 2 * p
RteHigh(p) == RTE_BASE + 2 * p + 1
Selectable == {0} \union {RteLow(p) : p \in Pin} \union {RteHigh(p) : p \in Pin}

\* The handler reads CR.IVR, and later writes CR.EOI (LocalSapic).
HandlerStarts(c) ==
    /\ \E v \in pending[c] : AcceptVector(c, v) /\ due' = due \union {v}
    /\ UNCHANGED lid

HandlerEnds(c) == Retire(c) /\ UNCHANGED <<lid, due>>

\* A write of CR.LID: no controller learns of it.
WriteLid(c) ==
    /\ \E i \in Lid : lid' = [lid EXCEPT ![c] = i]
    /\ UNCHANGED <<due, portVars>>

GuestStep(c) == HandlerStarts(c) \/ HandlerEnds(c) \/ WriteLid(c)
=============================================================================
