----------------------------- MODULE MCPayment -----------------------------
(* Small instances of Payment for TLC. *)
EXTENDS Payment, TLC

CONSTANTS u1, o1, o2

OneOwner == [o \in Orders |-> u1]

\* Every notification is about the first order.
MCNotifyOrder == [n \in NotifyIds |-> o1]

Symmetry == Permutations(Procs) \cup Permutations(NotifyIds) \cup Permutations(MockIds)

OrderSymmetry == Permutations(Procs) \cup Permutations(MockIds) \cup Permutations(Orders)

\* The fields of a job that the rest of its request still reads.
Live(j) ==
    [j EXCEPT !.snap  = IF j.pc \in {"lookup", "fulfil", "query"} THEN @ ELSE AbsentOrder,
              !.trade = IF j.pc \in {"save", "read", "lookup", "attempt", "success", "close"}
                        THEN @ ELSE None,
              !.no    = IF j.pc = "success" THEN @ ELSE 0,
              !.good  = IF j.pc \in {"save", "read"} THEN @ ELSE TRUE]

View == <<orders, expired, attempts, callbacks, planOn, trade, payURLs,
          [p \in Procs |-> Live(job[p])], faults, ledger>>
=============================================================================
