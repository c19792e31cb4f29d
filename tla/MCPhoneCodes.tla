--------------------------- MODULE MCPhoneCodes ---------------------------
(* Instances of PhoneCodes for TLC. *)
EXTENDS PhoneCodes, TLC

Symmetry == Permutations(Procs) \cup Permutations(Users)
===========================================================================
