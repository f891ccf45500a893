---------------------------- MODULE SapicVectors ----------------------------
(***************************************************************************)
(* Interrupt vectors and their priorities, as the Local SAPIC orders them  *)
(* (target/ia64/arch/interrupt.c).                                         *)
(***************************************************************************)
EXTENDS Integers

SPURIOUS == 15
NMI == 2

\* ia64_external_interrupt_vector_valid
VectorValid(v) == v = 0 \/ v = NMI \/ v >= 16

\* sapic_vector_priority
VectorPriority(v) ==
    CASE v = NMI -> 257
      [] v = 0 -> 256
      [] v >= 16 -> v
      [] OTHER -> -1

\* sapic_vector_priority_class
PriorityClass(v) == IF v >= 16 THEN v \div 16 ELSE -1
=============================================================================
