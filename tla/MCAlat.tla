------------------------------- MODULE MCAlat -------------------------------
(* An instance of Alat: loads read two bytes, stores write the second, so   *)
(* that a store overlaps an entry without covering it.                      *)
EXTENDS Alat, TLC

Ranges == {{0, 1}}
Upper == {{1}}
DeviceSymmetry == Permutations(External)
=============================================================================
