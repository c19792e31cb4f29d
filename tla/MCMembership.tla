---------------------------- MODULE MCMembership ----------------------------
(* Small instances of Membership for TLC. *)
EXTENDS Membership, TLC

CONSTANTS u1, o1, o2, k1, k2

\* One user buys all the orders: every transaction meets on the same row.
OneOwner == [o \in Orders |-> u1]

MCDays == [o \in Orders |-> IF o = o1 THEN 2 ELSE 1]

MCKeyOrder == [k \in Keys |-> IF k = k1 THEN o1 ELSE o2]

=============================================================================
