--------------------------- MODULE LocalSapicPort ---------------------------
(***************************************************************************)
(* LocalSapic implements SapicPort: a vector is pending while it is in the *)
(* request register or in a request that the processor has yet to run.     *)
(***************************************************************************)
EXTENDS LocalSapic

\* The vectors of the interrupt requests in a queue.
QueuedVectors(q) == {q[k].arg : k \in {j \in DOMAIN q : q[j].kind = "IRQ"}}

Pending == [c \in CPU |-> env[c].irr \union QueuedVectors(work[c])]
Service == [c \in CPU |-> env[c].isr]

\* Only an INIT without a handler resets a processor.
Initable ==
    IF "INIT" \in Mode \/ \E w \in RasWork : w.kind = "INIT" THEN CPU ELSE {}

Port == INSTANCE SapicPort WITH
    Resettable <- Initable,
    pending <- Pending,
    service <- Service

\* Whatever the masking, the queue and the nesting, the Local SAPIC of
\* interrupt.c loses no request, accepts only above what is in service, and
\* retires the innermost vector.
ImplementsPort == Port!PortSpec
=============================================================================
