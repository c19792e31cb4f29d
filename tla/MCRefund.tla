------------------------------ MODULE MCRefund ------------------------------
(* Small instances of Refund for TLC. *)
EXTENDS Refund, TLC

CONSTANTS u1, o1

OneOwner == [o \in Orders |-> u1]

MCNotifyOrder == [n \in NotifyIds |-> o1]

\* Two units: the full amount, or two partial refunds.
MCAmount == [o \in Orders |-> 2]

Symmetry == Permutations(Procs) \cup Permutations(RProcs) \cup Permutations(Refunds)
=============================================================================
