------------------------------ MODULE SapicPort ------------------------------
(***************************************************************************)
(* What the Local SAPICs promise to the sources of interrupts: a requested *)
(* vector stays pending until the processor accepts it, acceptance nests   *)
(* in rising priority, and an EOI retires the innermost vector.            *)
(* Two requests for one vector that is still pending may coalesce.         *)
(***************************************************************************)
EXTENDS SapicVectors

CONSTANTS
    CPU,
    Resettable    \* processors that may be reset

VARIABLES
    pending,      \* pending[c]: vectors requested and not accepted
    service       \* service[c]: vectors accepted and not retired

portVars == <<pending, service>>

PortInit ==
    /\ pending = [c \in CPU |-> {}]
    /\ service = [c \in CPU |-> {}]

Request(c, S) ==
    /\ pending' = [pending EXCEPT ![c] = @ \union S]
    /\ UNCHANGED service

\* A vector is accepted over lower ones only.  It stays pending when another
\* request for it is on its way.
Acceptable(c, v) ==
    /\ v \in pending[c]
    /\ \A u \in service[c] : VectorPriority(u) < VectorPriority(v)

AcceptVector(c, v) ==
    /\ Acceptable(c, v)
    /\ service' = [service EXCEPT ![c] = @ \union {v}]
    /\ \/ pending' = [pending EXCEPT ![c] = @ \ {v}]
       \/ UNCHANGED pending

Innermost(S) == CHOOSE v \in S : \A u \in S : VectorPriority(u) <= VectorPriority(v)

\* Mutant: the retired vector stays in service.
RetireNothing(c) ==
    /\ service[c] # {}
    /\ UNCHANGED portVars

Retire(c) ==
    /\ service[c] # {}
    /\ service' = [service EXCEPT ![c] = @ \ {Innermost(@)}]
    /\ UNCHANGED pending

\* A reset of the processor forgets what it was serving, and may forget
\* requests.
Forget(c) ==
    /\ c \in Resettable
    /\ \E S \in SUBSET pending[c] : pending' = [pending EXCEPT ![c] = S]
    /\ service' = [service EXCEPT ![c] = {}]

PortNext ==
    \E c \in CPU :
        \/ \E v \in pending'[c] : VectorValid(v) /\ Request(c, {v})
        \/ \E v \in pending[c] : AcceptVector(c, v)
        \/ Retire(c)
        \/ Forget(c)

PortSpec == PortInit /\ [][PortNext]_portVars
=============================================================================
