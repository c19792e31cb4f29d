---------------------------- MODULE MCSessions ----------------------------
(* Instances of Sessions for TLC. *)
EXTENDS Sessions, TLC

\* A ban, its end, and both privilege changes, one of them with a ban.
MCUpdates ==
    {[NoFields EXCEPT !.status = "banned"], [NoFields EXCEPT !.status = "active"],
     [NoFields EXCEPT !.admin = TRUE],
     [NoFields EXCEPT !.admin = FALSE, !.status = "banned"]}

Symmetry == Permutations(Procs) \cup Permutations(Platforms)
            \cup Permutations(Passwords)
===========================================================================
