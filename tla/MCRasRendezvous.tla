-------------------------- MODULE MCRasRendezvous --------------------------
(* Machines for checking RasRendezvous. *)
EXTENDS RasRendezvous

\* One monarch and two participants; two processors that may both be in a
\* machine check.
Machines ==
    {[online |-> {0, 1, 2}, monarch |-> {0}, events |-> 1],
     [online |-> {0, 1}, monarch |-> {0, 1}, events |-> 2]}

=============================================================================
