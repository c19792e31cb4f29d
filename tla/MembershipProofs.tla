-------------------------- MODULE MembershipProofs --------------------------
(***************************************************************************)
(* Proofs about Membership, for any number of users, orders, refunds and   *)
(* concurrent requests.                                                    *)
(*                                                                         *)
(* The argument: what a transaction read several statements ago is still   *)
(* true when it commits, because the lock it took then is still its own.   *)
(* LockInv states this for the two locks, the unique key of a grant and    *)
(* the user's membership row.                                              *)
(***************************************************************************)
EXTENDS Membership, TLAPS

\* A request inside a transaction is about an order; a revoke about its key's.
RequestInv ==
    \A p \in Procs :
        /\ tx[p].pc # "idle" => tx[p].order \in Orders
        /\ tx[p].pc \in {"rlock", "rwrite"} =>
              tx[p].key \in Keys /\ KeyOrder[tx[p].key] = tx[p].order

\* Between the insert of a grant row and the commit the key is the transaction's
\* own, and no committed row has it.
KeyInv ==
    \A p \in Procs : tx[p].pc \in {"gupsert", "gcommit"} =>
        /\ keyLock[tx[p].order] = p
        /\ tx[p].order \notin GrantedOrders

\* Who holds the membership row, and what its lock keeps true.
RowKept(p) ==
    /\ tx[p].pc = "gcommit" => rowLock[UserOf(p)] = p
    /\ tx[p].pc = "rwrite" => /\ rowLock[UserOf(p)] = p
                              /\ RowExists(UserOf(p))
                              /\ row[UserOf(p)].last = tx[p].order
    /\ tx[p].pc \in {"ginsert", "gupsert", "gcommit"} /\ tx[p].action # "activate" =>
          /\ rowLock[UserOf(p)] = p
          /\ tx[p].starts >= row[UserOf(p)].ends

RowInv == \A p \in Procs : RowKept(p)

IndInv == TypeOK /\ RequestInv /\ KeyInv /\ RowInv

-----------------------------------------------------------------------------
(* Type correctness *)

\* What a transaction leaves behind when it is over, however it ends.
LEMMA ReleaseType ==
    ASSUME TypeOK, NEW p \in Procs, Release(p)
    PROVE  /\ rowLock' \in [Users -> Procs \cup {None}]
           /\ keyLock' \in [Orders -> Procs \cup {None}]
           /\ tx' \in [Procs -> Tx]
           /\ tx' = [tx EXCEPT ![p] = IdleTx]
           /\ tx'[p].pc = "idle"
BY MembershipAssumption DEF TypeOK, Release, IdleTx, Tx, PCs, Actions

\* A transaction that goes on to its next statement keeps its order and its key.
LEMMA GotoType ==
    ASSUME TypeOK, RequestInv, NEW p \in Procs, NEW l \in PCs, tx[p].pc # "idle",
           l = "rwrite" => tx[p].pc = "rlock", l # "rlock",
           tx' = [tx EXCEPT ![p] = [@ EXCEPT !.pc = l]]
    PROVE  tx' \in [Procs -> Tx] /\ RequestInv'
<1> DEFINE t == [tx[p] EXCEPT !.pc = l]
<1>1. tx[p] \in Tx /\ tx \in [Procs -> Tx]
  BY DEF TypeOK
<1>2. t \in Tx /\ t.pc = l /\ t.order = tx[p].order /\ t.key = tx[p].key
  BY <1>1 DEF Tx
<1>3. tx' = [tx EXCEPT ![p] = t]
  OBVIOUS
<1> HIDE DEF t
<1>4. tx' \in [Procs -> Tx]
  BY <1>1, <1>2, <1>3
<1>5. tx'[p] = t /\ \A q \in Procs \ {p} : tx'[q] = tx[q]
  BY <1>1, <1>3
<1>6. RequestInv'
  BY <1>2, <1>5 DEF RequestInv
<1>7. QED
  BY <1>4, <1>6

\* The type invariant is inductive together with RequestInv: a step reads the row
\* of its order's owner, so the order has to be a real one.
LEMMA TypeStep ==
    ASSUME TypeOK, RequestInv, [Next]_vars
    PROVE  TypeOK' /\ RequestInv'
<1> USE MembershipAssumption DEF TypeOK, RequestInv, data, locks
<1>1. ASSUME NEW p \in Procs, NEW o \in Orders, GrantBegin(p, o)
      PROVE  TypeOK' /\ RequestInv'
  BY <1>1 DEF GrantBegin, IdleTx, Tx, PCs, Actions
<1>2. ASSUME NEW p \in Procs, NEW k \in Keys, RevokeBegin(p, k)
      PROVE  TypeOK' /\ RequestInv'
  BY <1>2 DEF RevokeBegin, IdleTx, Tx, PCs, Actions
<1>3. ASSUME NEW p \in Procs, GrantLock(p)
      PROVE  TypeOK' /\ RequestInv'
  <2>1. /\ tx[p].order \in Orders
        /\ UserOf(p) \in Users
        /\ tx[p].at \in Nat
        /\ row[UserOf(p)] \in Row
    BY <1>3 DEF GrantLock, UserOf, Tx
  <2> DEFINE s == StartsAt(row[UserOf(p)], tx[p].at)
             a == ActionAt(row[UserOf(p)], tx[p].at)
  <2>2. s \in Nat /\ a \in Actions
    BY <2>1 DEF StartsAt, ActionAt, Row, Actions
  <2> DEFINE t == [tx[p] EXCEPT !.pc = "ginsert", !.starts = s, !.action = a]
  <2>3. tx' = [tx EXCEPT ![p] = t]
    BY <1>3 DEF GrantLock
  <2>4. /\ rowLock' \in [Users -> Procs \cup {None}]
        /\ UNCHANGED <<now, data, keyLock>>
    BY <1>3, <2>1 DEF GrantLock
  <2> HIDE DEF s, a
  <2>a. tx[p] \in Tx
    OBVIOUS
  <2>5. t \in Tx /\ t.pc = "ginsert" /\ t.order = tx[p].order
    BY <2>a, <2>2 DEF Tx, PCs
  <2> HIDE DEF t
  <2>b. tx'[p] = t /\ \A q \in Procs \ {p} : tx'[q] = tx[q]
    BY <2>3
  <2>c. tx' \in [Procs -> Tx]
    BY <2>3, <2>5
  <2>d. RequestInv'
    BY <2>1, <2>5, <2>b
  <2>6. tx' \in [Procs -> Tx] /\ RequestInv'
    BY <2>c, <2>d
  <2>7. QED
    BY <2>4, <2>6
<1>4. ASSUME NEW p \in Procs, GrantInsert(p)
      PROVE  TypeOK' /\ RequestInv'
  <2>1. tx[p].order \in Orders
    BY <1>4 DEF GrantInsert
  <2>2. /\ keyLock' \in [Orders -> Procs \cup {None}]
        /\ UNCHANGED <<now, data, rowLock>>
    BY <1>4, <2>1 DEF GrantInsert
  <2>3. tx' \in [Procs -> Tx] /\ RequestInv'
    BY <1>4, GotoType DEF GrantInsert, PCs
  <2>4. QED
    BY <2>2, <2>3
<1>5. ASSUME NEW p \in Procs, Release(p), UNCHANGED <<now, data>>
      PROVE  TypeOK' /\ RequestInv'
  BY <1>5, ReleaseType
<1>6. ASSUME NEW p \in Procs, GrantConflict(p) \/ RevokeSkip(p) \/ RevokeConflict(p)
                                \/ Abort(p) \/ DeadlockVictim(p)
      PROVE  TypeOK' /\ RequestInv'
  <2>1. Release(p) /\ UNCHANGED <<now, data>>
    BY <1>6 DEF GrantConflict, RevokeSkip, RevokeConflict, Abort, DeadlockVictim
  <2>2. QED
    BY <2>1, <1>5
<1>7. ASSUME NEW p \in Procs, GrantUpsert(p)
      PROVE  TypeOK' /\ RequestInv'
  <2>1. UserOf(p) \in Users
    BY <1>7 DEF GrantUpsert, UserOf
  <2>2. /\ rowLock' \in [Users -> Procs \cup {None}]
        /\ UNCHANGED <<now, data, keyLock>>
    BY <1>7, <2>1 DEF GrantUpsert
  <2>3. tx' \in [Procs -> Tx] /\ RequestInv'
    BY <1>7, GotoType DEF GrantUpsert, PCs
  <2>4. QED
    BY <2>2, <2>3
<1>8. ASSUME NEW p \in Procs, GrantCommit(p)
      PROVE  TypeOK' /\ RequestInv'
  <2>1. tx[p].order \in Orders /\ tx[p].starts \in Nat /\ tx[p].action \in Actions
    BY <1>8 DEF GrantCommit, Tx
  <2>2. Release(p) /\ UNCHANGED <<now, revokes, role>>
    BY <1>8 DEF GrantCommit
  <2>3. grants' \in SUBSET GrantRow /\ row' \in [Users -> Row]
    BY <1>8, <2>1 DEF GrantCommit, GrantRow, Row
  <2>4. QED
    BY <2>2, <2>3, ReleaseType
<1>9. ASSUME NEW p \in Procs, RevokeLock(p)
      PROVE  TypeOK' /\ RequestInv'
  <2>1. UserOf(p) \in Users
    BY <1>9 DEF RevokeLock, UserOf
  <2>2. /\ rowLock' \in [Users -> Procs \cup {None}]
        /\ UNCHANGED <<now, data, keyLock>>
    BY <1>9, <2>1 DEF RevokeLock
  <2>3. tx' \in [Procs -> Tx] /\ RequestInv'
    BY <1>9, GotoType DEF RevokeLock, PCs
  <2>4. QED
    BY <2>2, <2>3
<1>10. ASSUME NEW p \in Procs, RevokeWrite(p)
       PROVE  TypeOK' /\ RequestInv'
  <2>1. tx[p].order \in Orders /\ tx[p].key \in Keys /\ tx[p].at \in Nat
    BY <1>10 DEF RevokeWrite, Tx
  <2>2. Release(p) /\ UNCHANGED <<now, grants>>
    BY <1>10 DEF RevokeWrite
  <2>a. /\ revokes' = revokes \cup {tx[p].key}
        /\ row' = [row EXCEPT ![UserOf(p)] =
                      [row[UserOf(p)] EXCEPT !.status = "refunded", !.ends = tx[p].at]]
        /\ role' = [role EXCEPT ![UserOf(p)] = "user"]
    BY <1>10 DEF RevokeWrite
  <2>b. UserOf(p) \in Users
    BY <2>1 DEF UserOf
  <2> DEFINE r == [row[UserOf(p)] EXCEPT !.status = "refunded", !.ends = tx[p].at]
  <2>e. row[UserOf(p)] \in Row
    BY <2>b
  <2>c. r \in Row
    BY <2>1, <2>e DEF Row
  <2>f. row' = [row EXCEPT ![UserOf(p)] = r]
    BY <2>a
  <2> HIDE DEF r
  <2>d. row' \in [Users -> Row]
    BY <2>b, <2>c, <2>f
  <2>3. /\ revokes' \in SUBSET Keys
        /\ row' \in [Users -> Row]
        /\ role' \in [Users -> {"user", "premium"}]
    BY <2>1, <2>a, <2>d
  <2>4. QED
    BY <2>2, <2>3, ReleaseType
<1>11. ASSUME NEW u \in Users, HasActiveMembership(u)
       PROVE  TypeOK' /\ RequestInv'
  BY <1>11 DEF HasActiveMembership, Row
<1>12. CASE Tick
  BY <1>12 DEF Tick
<1>13. CASE UNCHANGED vars
  BY <1>13 DEF vars
<1>14. QED
  BY <1>1, <1>2, <1>3, <1>4, <1>6, <1>7, <1>8, <1>9, <1>10, <1>11, <1>12, <1>13 DEF Next

\* Every reachable state of the membership store is well typed.
THEOREM Typing == Spec => [](TypeOK /\ RequestInv)
<1>1. Init => TypeOK /\ RequestInv
  BY MembershipAssumption
     DEF Init, TypeOK, RequestInv, NoRow, IdleTx, Row, GrantRow, Tx, PCs, Actions
<1>2. TypeOK /\ RequestInv /\ [Next]_vars => TypeOK' /\ RequestInv'
  BY TypeStep
<1>3. QED
  BY <1>1, <1>2, PTL DEF Spec

-----------------------------------------------------------------------------
(* The locks *)

\* A committed grant adds one row, of the transaction's order.
LEMMA CommitGrants ==
    ASSUME NEW p \in Procs, GrantCommit(p)
    PROVE  /\ \E g : /\ grants' = grants \cup {g}
                     /\ g.order = tx[p].order
                     /\ g.action = tx[p].action
                     /\ g.starts = tx[p].starts
                     /\ g.ends = tx[p].starts + Days[tx[p].order]
           /\ GrantedOrders' = GrantedOrders \cup {tx[p].order}
<1> DEFINE g == [order |-> tx[p].order, action |-> tx[p].action, starts |-> tx[p].starts,
                 ends |-> tx[p].starts + Days[tx[p].order]]
<1>1. /\ grants' = grants \cup {g}
      /\ g.order = tx[p].order
      /\ g.action = tx[p].action
      /\ g.starts = tx[p].starts
      /\ g.ends = tx[p].starts + Days[tx[p].order]
  BY DEF GrantCommit
<1> HIDE DEF g
<1>2. GrantedOrders' = GrantedOrders \cup {g.order}
  BY <1>1 DEF GrantedOrders
<1>3. QED
  BY <1>1, <1>2

\* A transaction that ends without writing disturbs nobody else's locks.
LEMMA ReleaseLocks ==
    ASSUME IndInv, TypeOK', RequestInv', NEW p \in Procs, Release(p),
           UNCHANGED <<row, grants>>
    PROVE  KeyInv' /\ RowInv'
<1> USE MembershipAssumption DEF IndInv, TypeOK, RequestInv
<1>1. /\ \A q \in Procs \ {p} : tx'[q] = tx[q]
      /\ tx'[p].pc = "idle"
  BY ReleaseType DEF IndInv
<1>2. \A q \in Procs \ {p} :
        /\ \A u \in Users : rowLock[u] = q => rowLock'[u] = q
        /\ \A o \in Orders : keyLock[o] = q => keyLock'[o] = q
  BY DEF Release
<1>3. KeyInv'
  BY <1>1, <1>2 DEF KeyInv, GrantedOrders
<1>4. RowInv'
  BY <1>1, <1>2 DEF RowInv, RowKept, UserOf, RowExists
<1>5. QED
  BY <1>3, <1>4

\* What the locks protect stays true: one step per action.
LEMMA LockStep ==
    ASSUME IndInv, TypeOK', RequestInv', [Next]_vars
    PROVE  KeyInv' /\ RowInv'
<1> USE MembershipAssumption DEF IndInv, data, locks
<1>1. ASSUME NEW p \in Procs, NEW o \in Orders, GrantBegin(p, o)
      PROVE  KeyInv' /\ RowInv'
  <2>1. /\ \A q \in Procs \ {p} : tx'[q] = tx[q]
        /\ tx'[p].pc = "glock"
        /\ UNCHANGED <<row, grants, rowLock, keyLock>>
    BY <1>1 DEF GrantBegin, IdleTx, TypeOK
  <2>2. QED
    BY <2>1 DEF KeyInv, RowInv, RowKept, UserOf, RowExists, GrantedOrders
<1>2. ASSUME NEW p \in Procs, NEW k \in Keys, RevokeBegin(p, k)
      PROVE  KeyInv' /\ RowInv'
  <2>1. /\ \A q \in Procs \ {p} : tx'[q] = tx[q]
        /\ tx'[p].pc = "rlock"
        /\ UNCHANGED <<row, grants, rowLock, keyLock>>
    BY <1>2 DEF RevokeBegin, IdleTx, TypeOK
  <2>2. QED
    BY <2>1 DEF KeyInv, RowInv, RowKept, UserOf, RowExists, GrantedOrders
<1>3. ASSUME NEW p \in Procs, GrantLock(p)
      PROVE  KeyInv' /\ RowInv'
  <2> DEFINE u == UserOf(p)
  <2>1. /\ u \in Users
        /\ row[u] \in Row
        /\ tx[p].at \in Nat
        /\ tx[p].order \in Orders
    BY <1>3 DEF GrantLock, UserOf, TypeOK, RequestInv, Tx
  <2>2. /\ \A q \in Procs \ {p} : tx'[q] = tx[q]
        /\ tx'[p].pc = "ginsert"
        /\ tx'[p].order = tx[p].order
        /\ tx'[p].starts = StartsAt(row[u], tx[p].at)
        /\ tx'[p].action = ActionAt(row[u], tx[p].at)
        /\ UNCHANGED <<row, grants, keyLock>>
    BY <1>3 DEF GrantLock, TypeOK, Tx
  <2>3. \A q \in Procs \ {p}, v \in Users : rowLock[v] = q => rowLock'[v] = q
    BY <1>3, <2>1 DEF GrantLock, RowFree, TypeOK
  <2>4. tx'[p].action # "activate" => rowLock'[u] = p /\ tx'[p].starts >= row[u].ends
    BY <1>3, <2>1, <2>2 DEF GrantLock, RowExists, StartsAt, ActionAt, Row, TypeOK
  <2>5. KeyInv'
    BY <2>2 DEF KeyInv, GrantedOrders
  <2>6. ASSUME NEW q \in Procs \ {p}
        PROVE  RowKept(q)'
    BY <2>1, <2>2, <2>3 DEF RowInv, RowKept, UserOf, RowExists, RequestInv, TypeOK
  <2>7. RowKept(p)'
    BY <2>1, <2>2, <2>4 DEF RowKept, UserOf
  <2>8. QED
    BY <2>5, <2>6, <2>7 DEF RowInv
<1>4. ASSUME NEW p \in Procs, GrantInsert(p)
      PROVE  KeyInv' /\ RowInv'
  <2>1. /\ \A q \in Procs \ {p} : tx'[q] = tx[q]
        /\ tx'[p].pc = "gupsert"
        /\ tx'[p].order = tx[p].order
        /\ tx'[p].starts = tx[p].starts
        /\ tx'[p].action = tx[p].action
        /\ tx[p].pc = "ginsert"
        /\ tx[p].order \in Orders \ GrantedOrders
        /\ UNCHANGED <<row, grants, rowLock>>
    BY <1>4 DEF GrantInsert, TypeOK, Tx, RequestInv
  <2>2. /\ \A q \in Procs \ {p}, o \in Orders : keyLock[o] = q => keyLock'[o] = q
        /\ keyLock'[tx[p].order] = p
    BY <1>4, <2>1 DEF GrantInsert, TypeOK
  <2>3. KeyInv'
    BY <2>1, <2>2 DEF KeyInv, GrantedOrders, RequestInv
  <2>4. RowInv'
    BY <2>1 DEF RowInv, RowKept, UserOf, RowExists
  <2>5. QED
    BY <2>3, <2>4
<1>5. ASSUME NEW p \in Procs, GrantConflict(p) \/ RevokeSkip(p) \/ RevokeConflict(p)
                                \/ Abort(p) \/ DeadlockVictim(p)
      PROVE  KeyInv' /\ RowInv'
  <2>1. Release(p) /\ UNCHANGED <<row, grants>>
    BY <1>5 DEF GrantConflict, RevokeSkip, RevokeConflict, Abort, DeadlockVictim
  <2>2. QED
    BY <2>1, ReleaseLocks
<1>6. ASSUME NEW p \in Procs, GrantUpsert(p)
      PROVE  KeyInv' /\ RowInv'
  <2>1. /\ \A q \in Procs \ {p} : tx'[q] = tx[q]
        /\ tx'[p].pc = "gcommit"
        /\ tx'[p].order = tx[p].order
        /\ tx'[p].starts = tx[p].starts
        /\ tx'[p].action = tx[p].action
        /\ tx[p].pc = "gupsert"
        /\ UserOf(p) \in Users
        /\ UNCHANGED <<row, grants, keyLock>>
    BY <1>6 DEF GrantUpsert, TypeOK, Tx, RequestInv, UserOf
  <2>2. /\ \A q \in Procs \ {p}, v \in Users : rowLock[v] = q => rowLock'[v] = q
        /\ rowLock'[UserOf(p)] = p
    BY <1>6, <2>1 DEF GrantUpsert, RowFree, TypeOK
  <2>3. KeyInv'
    BY <2>1 DEF KeyInv, GrantedOrders
  <2>4. ASSUME NEW q \in Procs \ {p} PROVE RowKept(q)'
    BY <2>1, <2>2 DEF RowInv, RowKept, UserOf, RowExists, RequestInv, TypeOK
  <2>5. RowKept(p)'
    BY <2>1, <2>2 DEF RowInv, RowKept, UserOf
  <2>6. QED
    BY <2>3, <2>4, <2>5 DEF RowInv
<1>7. ASSUME NEW p \in Procs, GrantCommit(p)
      PROVE  KeyInv' /\ RowInv'
  <2> DEFINE o == tx[p].order
             u == UserOf(p)
  <2>1. /\ o \in Orders
        /\ u \in Users
        /\ keyLock[o] = p
        /\ rowLock[u] = p
    BY <1>7 DEF GrantCommit, RequestInv, KeyInv, RowInv, RowKept, TypeOK, UserOf
  <2>2. Release(p)
    BY <1>7 DEF GrantCommit
  <2>3. /\ \A q \in Procs \ {p} : tx'[q] = tx[q]
        /\ tx'[p].pc = "idle"
    BY <2>2, ReleaseType DEF TypeOK
  <2>4. \A q \in Procs \ {p} :
          /\ \A v \in Users : rowLock[v] = q => rowLock'[v] = q
          /\ \A x \in Orders : keyLock[x] = q => keyLock'[x] = q
    BY <2>2 DEF Release, TypeOK
  <2>5. GrantedOrders' = GrantedOrders \cup {o}
    BY <1>7, CommitGrants
  <2>6. \A v \in Users \ {u} : row'[v] = row[v]
    BY <1>7, <2>1 DEF GrantCommit, TypeOK, UserOf
  <2>7. KeyInv'
    BY <2>1, <2>3, <2>4, <2>5 DEF KeyInv, RequestInv
  <2>8. ASSUME NEW q \in Procs \ {p}
        PROVE  RowKept(q)'
    <3>1. tx'[q] = tx[q] /\ UserOf(q)' = UserOf(q)
      BY <2>3 DEF UserOf
    <3>2. CASE tx[q].pc = "idle"
      BY <3>1, <3>2 DEF RowKept
    <3>3. CASE tx[q].pc # "idle"
      <4>1. UserOf(q) \in Users
        BY <3>3 DEF RequestInv, TypeOK, UserOf
      <4>2. rowLock[UserOf(q)] = q => row'[UserOf(q)] = row[UserOf(q)]
        BY <2>1, <2>6, <4>1
      <4>3. QED
        BY <3>1, <4>1, <4>2, <2>4 DEF RowInv, RowKept, RowExists
    <3>4. QED
      BY <3>2, <3>3
  <2>9. QED
    BY <2>3, <2>7, <2>8 DEF RowInv, RowKept
<1>8. ASSUME NEW p \in Procs, RevokeLock(p)
      PROVE  KeyInv' /\ RowInv'
  <2>1. /\ \A q \in Procs \ {p} : tx'[q] = tx[q]
        /\ tx'[p].pc = "rwrite"
        /\ tx'[p].order = tx[p].order
        /\ UserOf(p) \in Users
        /\ RowExists(UserOf(p))
        /\ row[UserOf(p)].last = tx[p].order
        /\ UNCHANGED <<row, grants, keyLock>>
    BY <1>8 DEF RevokeLock, TypeOK, Tx, RequestInv, UserOf
  <2>2. /\ \A q \in Procs \ {p}, v \in Users : rowLock[v] = q => rowLock'[v] = q
        /\ rowLock'[UserOf(p)] = p
    BY <1>8, <2>1 DEF RevokeLock, RowFree, TypeOK
  <2>3. KeyInv'
    BY <2>1 DEF KeyInv, GrantedOrders
  <2>4. ASSUME NEW q \in Procs \ {p} PROVE RowKept(q)'
    BY <2>1, <2>2 DEF RowInv, RowKept, UserOf, RowExists, RequestInv, TypeOK
  <2>5. RowKept(p)'
    BY <2>1, <2>2 DEF RowKept, UserOf, RowExists
  <2>6. QED
    BY <2>3, <2>4, <2>5 DEF RowInv
<1>9. ASSUME NEW p \in Procs, RevokeWrite(p)
      PROVE  KeyInv' /\ RowInv'
  <2> DEFINE u == UserOf(p)
  <2>1. u \in Users /\ rowLock[u] = p
    BY <1>9 DEF RevokeWrite, RequestInv, RowInv, RowKept, TypeOK, UserOf
  <2>2. Release(p) /\ UNCHANGED grants
    BY <1>9 DEF RevokeWrite
  <2>3. /\ \A q \in Procs \ {p} : tx'[q] = tx[q]
        /\ tx'[p].pc = "idle"
    BY <2>2, ReleaseType DEF TypeOK
  <2>4. \A q \in Procs \ {p} :
          /\ \A v \in Users : rowLock[v] = q => rowLock'[v] = q
          /\ \A x \in Orders : keyLock[x] = q => keyLock'[x] = q
    BY <2>2 DEF Release, TypeOK
  <2>5. \A v \in Users \ {u} : row'[v] = row[v]
    BY <1>9, <2>1 DEF RevokeWrite, TypeOK
  <2>6. KeyInv'
    BY <2>2, <2>3, <2>4 DEF KeyInv, RequestInv, GrantedOrders
  <2>7. ASSUME NEW q \in Procs \ {p}
        PROVE  RowKept(q)'
    <3>1. tx'[q] = tx[q] /\ UserOf(q)' = UserOf(q)
      BY <2>3 DEF UserOf
    <3>2. CASE tx[q].pc = "idle"
      BY <3>1, <3>2 DEF RowKept
    <3>3. CASE tx[q].pc # "idle"
      <4>1. UserOf(q) \in Users
        BY <3>3 DEF RequestInv, TypeOK, UserOf
      <4>2. rowLock[UserOf(q)] = q => row'[UserOf(q)] = row[UserOf(q)]
        BY <2>1, <2>5, <4>1
      <4>3. QED
        BY <3>1, <4>1, <4>2, <2>4 DEF RowInv, RowKept, RowExists
    <3>4. QED
      BY <3>2, <3>3
  <2>8. QED
    BY <2>3, <2>6, <2>7 DEF RowInv, RowKept
<1>10. ASSUME NEW u \in Users, HasActiveMembership(u)
       PROVE  KeyInv' /\ RowInv'
  <2>1. /\ rowLock[u] = None
        /\ UNCHANGED <<grants, rowLock, keyLock, tx>>
        /\ \A v \in Users \ {u} : row'[v] = row[v]
    BY <1>10 DEF HasActiveMembership, TypeOK
  <2>2. KeyInv'
    BY <2>1 DEF KeyInv, GrantedOrders
  <2>3. ASSUME NEW q \in Procs, tx[q].pc # "idle"
        PROVE  RowKept(q)'
    <3>1. UserOf(q) \in Users /\ UserOf(q)' = UserOf(q)
      BY <2>1, <2>3 DEF RequestInv, TypeOK, UserOf
    <3>2. rowLock[UserOf(q)] = q => row'[UserOf(q)] = row[UserOf(q)]
      BY <2>1, <3>1
    <3>3. QED
      BY <2>1, <3>1, <3>2 DEF RowInv, RowKept, RowExists
  <2>4. QED
    BY <2>1, <2>2, <2>3 DEF RowInv, RowKept
<1>11. CASE Tick
  BY <1>11 DEF Tick, KeyInv, RowInv, RowKept, UserOf, RowExists, GrantedOrders
<1>12. CASE UNCHANGED vars
  BY <1>12 DEF vars, KeyInv, RowInv, RowKept, UserOf, RowExists, GrantedOrders
<1>13. QED
  BY <1>1, <1>2, <1>3, <1>4, <1>5, <1>6, <1>7, <1>8, <1>9, <1>10, <1>11, <1>12 DEF Next

\* The inductive invariant: types, requests, and what both locks keep true.
THEOREM Locking == Spec => []IndInv
<1>1. Init => IndInv
  BY MembershipAssumption
     DEF Init, IndInv, TypeOK, RequestInv, KeyInv, RowInv, RowKept,
         NoRow, IdleTx, Row, GrantRow, Tx, PCs, Actions
<1>2. IndInv /\ [Next]_vars => IndInv'
  BY TypeStep, LockStep DEF IndInv
<1>3. QED
  BY <1>1, <1>2, PTL DEF Spec

-----------------------------------------------------------------------------
(* What the locks are for *)

\* The only step that adds a grant row is the commit of a grant.
LEMMA NewGrants ==
    ASSUME [Next]_vars, grants' # grants
    PROVE  \E p \in Procs : GrantCommit(p)
BY DEF Next, vars, data, locks, GrantBegin, RevokeBegin, GrantLock, GrantInsert, GrantConflict,
       GrantUpsert, RevokeLock, RevokeSkip, RevokeWrite, RevokeConflict, Abort,
       DeadlockVictim, HasActiveMembership, Tick

\* The only step that adds a revoke row is the write of a revoke.
LEMMA NewRevokes ==
    ASSUME [Next]_vars, revokes' # revokes
    PROVE  \E p \in Procs : RevokeWrite(p)
BY DEF Next, vars, data, locks, GrantBegin, RevokeBegin, GrantLock, GrantInsert, GrantConflict,
       GrantUpsert, GrantCommit, RevokeLock, RevokeSkip, RevokeConflict, Abort,
       DeadlockVictim, HasActiveMembership, Tick

\* Concurrent runs of GrantMembership for the same order leave one grant row.
THEOREM GrantedOnce == Spec => []OneGrantPerOrder
<1>1. Init => OneGrantPerOrder
  BY DEF Init, OneGrantPerOrder
<1>2. IndInv /\ OneGrantPerOrder /\ [Next]_vars => OneGrantPerOrder'
  <2> SUFFICES ASSUME IndInv, OneGrantPerOrder, [Next]_vars PROVE OneGrantPerOrder'
    OBVIOUS
  <2>1. CASE grants' = grants
    BY <2>1 DEF OneGrantPerOrder
  <2>2. CASE grants' # grants
    <3>1. PICK p \in Procs : GrantCommit(p)
      BY <2>2, NewGrants
    <3>2. tx[p].order \notin GrantedOrders
      BY <3>1 DEF IndInv, KeyInv, GrantCommit
    <3>3. PICK g : grants' = grants \cup {g} /\ g.order = tx[p].order
      BY <3>1, CommitGrants
    <3>4. QED
      BY <3>2, <3>3 DEF OneGrantPerOrder, GrantedOrders
  <2>3. QED
    BY <2>1, <2>2
<1>3. QED
  BY <1>1, <1>2, Locking, PTL DEF Spec

\* A renewal or restoration never starts before the membership it extends ends.
THEOREM Renewals == Spec => RenewalsExtend
<1> DEFINE P == \A g \in grants' \ grants :
                   g.action # "activate" => g.starts >= row[Owner[g.order]].ends
<1>1. IndInv /\ [Next]_vars => P
  <2> SUFFICES ASSUME IndInv, [Next]_vars, NEW g \in grants' \ grants, g.action # "activate"
               PROVE  g.starts >= row[Owner[g.order]].ends
    OBVIOUS
  <2>1. PICK p \in Procs : GrantCommit(p)
    BY NewGrants
  <2>2. g.order = tx[p].order /\ g.action = tx[p].action /\ g.starts = tx[p].starts
    BY <2>1, CommitGrants
  <2>3. QED
    BY <2>1, <2>2 DEF IndInv, RowInv, RowKept, GrantCommit, UserOf
<1>2. IndInv /\ [Next]_vars => [P]_vars
  BY <1>1
<1>3. QED
  BY <1>2, Locking, PTL DEF Spec, RenewalsExtend

\* A refund that is revoked finds its own order as the holder of the membership.
THEOREM Revocations == Spec => RevokeSparesLaterOrders
<1> DEFINE P == \A k \in revokes' \ revokes : row[Owner[KeyOrder[k]]].last = KeyOrder[k]
<1>1. IndInv /\ [Next]_vars => P
  <2> SUFFICES ASSUME IndInv, [Next]_vars, NEW k \in revokes' \ revokes
               PROVE  row[Owner[KeyOrder[k]]].last = KeyOrder[k]
    OBVIOUS
  <2>1. PICK p \in Procs : RevokeWrite(p)
    BY NewRevokes
  <2>2. k = tx[p].key /\ tx[p].pc = "rwrite"
    BY <2>1 DEF RevokeWrite
  <2>3. QED
    BY <2>2 DEF IndInv, RequestInv, RowInv, RowKept, UserOf
<1>2. IndInv /\ [Next]_vars => [P]_vars
  BY <1>1
<1>3. QED
  BY <1>2, Locking, PTL DEF Spec, RevokeSparesLaterOrders

\* Before its end a membership is lost only by a refund of its own order, or to a
\* first activation that overlapped the one that is being overwritten
\* (GrantMembership, RevokeMembershipForOrder and HasActiveMembership interleaved).
THEOREM AccessKept == Spec => AccessLostOnlyByRefund
<1> USE MembershipAssumption
<1> DEFINE Lost(u) == HasAccess(u) /\ now' = now /\ ~HasAccess(u)'
           Excuse(u) == \/ \E k \in revokes' \ revokes : KeyOrder[k] = row[u].last
                        \/ \E g \in grants' \ grants : Owner[g.order] = u /\ g.action = "activate"
<1>1. ASSUME IndInv, [Next]_vars, NEW u \in Users, Lost(u) PROVE Excuse(u)
  <2>1. /\ row \in [Users -> Row] /\ row[u] \in Row /\ now \in Nat
        /\ row[u].status = "active" /\ row[u].ends > now
        /\ row'[u] # row[u]
    BY <1>1 DEF HasAccess, IndInv, TypeOK
  <2>2. ASSUME NEW p \in Procs, GrantCommit(p) PROVE Excuse(u)
    <3> DEFINE o == tx[p].order
               v == [status |-> "active", ends |-> tx[p].starts + Days[o], last |-> o]
    <3>1. /\ tx[p].pc = "gcommit" /\ o \in Orders /\ tx[p].starts \in Nat /\ Days[o] \in Nat
          /\ o \notin GrantedOrders /\ Owner[o] \in Users
      BY <1>1, <2>2 DEF IndInv, TypeOK, RequestInv, KeyInv, GrantCommit, Tx
    <3>2. row' = [row EXCEPT ![Owner[o]] = v] /\ v.status = "active" /\ v.ends = tx[p].starts + Days[o]
      BY <2>2 DEF GrantCommit
    <3> HIDE DEF v
    <3>3. u = Owner[o] /\ row'[u] = v
      BY <2>1, <3>1, <3>2
    <3>4. tx[p].action # "activate" => tx[p].starts >= row[u].ends
      BY <1>1, <3>1, <3>3 DEF IndInv, RowInv, RowKept, UserOf
    <3>5. row[u].ends \in Nat
      BY <2>1 DEF Row
    <3>6. ~(v.ends > now)
      BY <1>1, <3>2, <3>3 DEF HasAccess
    <3>7. tx[p].action = "activate"
      BY <2>1, <3>1, <3>2, <3>4, <3>5, <3>6
    <3>8. PICK g : grants' = grants \cup {g} /\ g.order = o /\ g.action = tx[p].action
      BY <2>2, CommitGrants
    <3>9. g \notin grants
      BY <3>1, <3>8 DEF GrantedOrders
    <3>10. QED
      BY <3>3, <3>7, <3>8, <3>9
  <2>3. ASSUME NEW p \in Procs, RevokeWrite(p) PROVE Excuse(u)
    <3>1. /\ tx[p].pc = "rwrite" /\ tx[p].key \notin revokes
          /\ revokes' = revokes \cup {tx[p].key}
          /\ \A w \in Users : w # UserOf(p) => row'[w] = row[w]
      BY <2>1, <2>3 DEF RevokeWrite
    <3>2. u = UserOf(p)
      BY <2>1, <3>1
    <3>3. row[u].last = tx[p].order /\ KeyOrder[tx[p].key] = tx[p].order
      BY <1>1, <3>1, <3>2 DEF IndInv, RequestInv, RowInv, RowKept
    <3>4. QED
      BY <3>1, <3>3
  <2>4. ASSUME NEW w \in Users, HasActiveMembership(w) PROVE FALSE
    <3>1. row[w].ends <= now /\ \A x \in Users : x # w => row'[x] = row[x]
      BY <2>1, <2>4 DEF HasActiveMembership
    <3>2. row[u].ends \in Nat
      BY <2>1 DEF Row
    <3>3. QED
      BY <2>1, <3>1, <3>2
  <2>5. ASSUME Next PROVE \/ \E p \in Procs : GrantCommit(p) \/ RevokeWrite(p)
                          \/ \E w \in Users : HasActiveMembership(w)
                          \/ UNCHANGED row
    BY <2>5
       DEF Next, data, locks, GrantBegin, RevokeBegin, GrantLock, GrantInsert,
           GrantConflict, GrantUpsert, RevokeLock, RevokeSkip, RevokeConflict, Abort,
           DeadlockVictim, Tick
  <2>6. UNCHANGED vars => UNCHANGED row
    BY DEF vars, data
  <2>7. QED
    BY <1>1, <2>1, <2>2, <2>3, <2>4, <2>5, <2>6
<1>2. IndInv /\ [Next]_vars => [\A u \in Users : Lost(u) => Excuse(u)]_vars
  BY <1>1
<1>3. QED
  BY <1>2, Locking, PTL DEF Spec, AccessLostOnlyByRefund

\* The membership row ends when the grant of its last order ends, unless it was
\* refunded; type correctness comes with it (GrantMembership writes grant and
\* row in one transaction, RevokeMembershipForOrder moves the end of its own).
THEOREM RowAgreement == Spec => []RowsAgree
<1> USE MembershipAssumption
<1>1. Init => RowMatchesGrant
  BY DEF Init, RowMatchesGrant, NoRow
<1>2. ASSUME TypeOK, RowMatchesGrant, [Next]_vars
      PROVE  RowMatchesGrant'
  <2>0. row = [u \in Users |-> row[u]] /\ \A u \in Users : row[u] \in Row
    BY <1>2 DEF TypeOK
  <2>1. ASSUME NEW p \in Procs, GrantCommit(p) PROVE RowMatchesGrant'
    <3> DEFINE o == tx[p].order
               e == tx[p].starts + Days[o]
               g == [order |-> o, action |-> tx[p].action, starts |-> tx[p].starts, ends |-> e]
               v == [status |-> "active", ends |-> e, last |-> o]
    <3>1. grants' = grants \cup {g} /\ g.order = o /\ g.ends = e
      BY <2>1 DEF GrantCommit
    <3>2. row' = [row EXCEPT ![Owner[o]] = v] /\ v.ends = e /\ v.last = o
      BY <2>1 DEF GrantCommit
    <3> HIDE DEF g, e, o, v
    <3>3. ASSUME NEW u \in Users, row'[u].status \in {"active", "expired"}
          PROVE  \E h \in grants' : h.order = row'[u].last /\ h.ends = row'[u].ends
      <4>1. CASE u = Owner[o]
        <5>1. row'[u] = v
          BY <2>0, <3>2, <4>1
        <5>2. QED
          BY <3>1, <3>2, <5>1
      <4>2. CASE u # Owner[o]
        <5>1. row'[u] = row[u]
          BY <2>0, <3>2, <4>2
        <5>2. QED
          BY <1>2, <3>1, <3>3, <5>1 DEF RowMatchesGrant
      <4>3. QED
        BY <4>1, <4>2
    <3>4. QED
      BY <3>3 DEF RowMatchesGrant
  <2>2. ASSUME grants' = grants,
               \A u \in Users : \/ row'[u] = row[u]
                                \/ row'[u].status = "refunded"
                                \/ /\ row[u].status = "active"
                                   /\ row'[u].last = row[u].last /\ row'[u].ends = row[u].ends
        PROVE  RowMatchesGrant'
    BY <1>2, <2>2 DEF RowMatchesGrant
  <2>3. ASSUME NEW p \in Procs, RevokeWrite(p) PROVE RowMatchesGrant'
    <3>1. \A u \in Users : row'[u] = row[u] \/ row'[u].status = "refunded"
      BY <2>0, <2>3 DEF RevokeWrite, Row
    <3>2. grants' = grants
      BY <2>3 DEF RevokeWrite
    <3>3. QED
      BY <2>2, <3>1, <3>2
  <2>4. ASSUME NEW w \in Users, HasActiveMembership(w) PROVE RowMatchesGrant'
    <3>1. \A u \in Users : \/ row'[u] = row[u]
                           \/ /\ row[u].status = "active"
                              /\ row'[u].last = row[u].last /\ row'[u].ends = row[u].ends
      BY <2>0, <2>4 DEF HasActiveMembership, Row
    <3>2. grants' = grants
      BY <2>4 DEF HasActiveMembership
    <3>3. QED
      BY <2>2, <3>1, <3>2
  <2>5. CASE UNCHANGED <<row, grants>>
    BY <2>2, <2>5
  <2>6. ASSUME Next PROVE \/ \E p \in Procs : GrantCommit(p) \/ RevokeWrite(p)
                          \/ \E w \in Users : HasActiveMembership(w)
                          \/ UNCHANGED <<row, grants>>
    BY <2>6
       DEF Next, data, locks, GrantBegin, RevokeBegin, GrantLock, GrantInsert,
           GrantConflict, GrantUpsert, RevokeLock, RevokeSkip, RevokeConflict, Abort,
           DeadlockVictim, Tick
  <2>7. UNCHANGED vars => UNCHANGED <<row, grants>>
    BY DEF vars, data
  <2>8. QED
    BY <1>2, <2>1, <2>3, <2>4, <2>5, <2>6, <2>7
<1>3. TypeOK /\ RowMatchesGrant => RowsAgree
  BY DEF RowsAgree
<1>4. QED
  BY <1>1, <1>2, <1>3, Typing, PTL DEF Spec

-----------------------------------------------------------------------------
(* Refinement *)

\* The membership store implements the entitlement ledger.
THEOREM Refinement == Spec => ImplementsLedger
<1> USE MembershipAssumption
<1>1. Init => Ledger!LedgerInit
  BY DEF Init, Ledger!LedgerInit, GrantedOrders, NoRow
<1>2. IndInv /\ IndInv' /\ [Next]_vars => [Ledger!LedgerNext]_(Ledger!ledgerVars)
  <2> SUFFICES ASSUME IndInv, IndInv', [Next]_vars
               PROVE  [Ledger!LedgerNext]_(Ledger!ledgerVars)
    OBVIOUS
  <2> DEFINE hold == [u \in Users |-> row[u].last]
             rev  == {KeyOrder[k] : k \in revokes}
  <2>1. ASSUME NEW p \in Procs, GrantCommit(p)
        PROVE  Ledger!LedgerNext
    <3>1. PICK o \in Orders : o = tx[p].order /\ o \notin GrantedOrders
      BY <2>1 DEF IndInv, KeyInv, RequestInv, GrantCommit
    <3>2. GrantedOrders' = GrantedOrders \cup {o}
      BY <2>1, <3>1, CommitGrants
    <3>3. hold' = [hold EXCEPT ![Owner[o]] = o]
      BY <2>1, <3>1 DEF GrantCommit, IndInv, TypeOK, Row
    <3>4. rev' = rev
      BY <2>1 DEF GrantCommit
    <3>5. Ledger!Grant(o)
      BY <3>1, <3>2, <3>3, <3>4 DEF Ledger!Grant
    <3>6. QED
      BY <3>5 DEF Ledger!LedgerNext
  <2>2. ASSUME NEW p \in Procs, RevokeWrite(p)
        PROVE  Ledger!LedgerNext
    <3>1. tx[p].pc = "rwrite" /\ revokes' = revokes \cup {tx[p].key}
          /\ row' = [row EXCEPT ![UserOf(p)].status = "refunded", ![UserOf(p)].ends = tx[p].at]
          /\ UNCHANGED grants
      BY <2>2 DEF RevokeWrite
    <3>2. tx[p].order \in Orders /\ tx[p].key \in Keys /\ KeyOrder[tx[p].key] = tx[p].order
      BY <3>1 DEF IndInv, RequestInv
    <3>3. RowKept(p)
      BY DEF IndInv, RowInv
    <3>4. row[UserOf(p)].last = tx[p].order
      BY <3>1, <3>3 DEF RowKept
    <3> DEFINE o == tx[p].order
               v == UserOf(p)
               r == [row[v] EXCEPT !.status = "refunded", !.ends = tx[p].at]
    <3>5. o \in Orders /\ v = Owner[o] /\ v \in Users
      BY <3>2 DEF UserOf
    <3>6. row \in [Users -> Row]
      BY DEF IndInv, TypeOK
    <3>7. r.last = row[v].last
      BY <3>5, <3>6 DEF Row
    <3>8. row' = [row EXCEPT ![v] = r]
      BY <3>1
    <3> HIDE DEF r, o, v
    <3>9. \A u \in Users : row'[u].last = row[u].last
      BY <3>5, <3>6, <3>7, <3>8
    <3>10. GrantedOrders' = GrantedOrders
      BY <3>1 DEF GrantedOrders
    <3>11. hold' = hold
      BY <3>9
    <3>12. rev' = rev \cup {o}
      BY <3>1, <3>2 DEF o
    <3>13. hold[Owner[o]] = o
      BY <3>4, <3>5 DEF o, v
    <3>14. PICK w \in Orders : w = o
      BY <3>5
    <3>15. Ledger!Revoke(w)
      BY <3>10, <3>11, <3>12, <3>13, <3>14 DEF Ledger!Revoke
    <3>16. QED
      BY <3>15 DEF Ledger!LedgerNext
  <2>3. CASE UNCHANGED <<grants, revokes, hold>>
    BY <2>3 DEF Ledger!ledgerVars, GrantedOrders
  <2>4. ASSUME NEW u \in Users, HasActiveMembership(u)
        PROVE  UNCHANGED <<grants, revokes, hold>>
    BY <2>4 DEF HasActiveMembership, IndInv, TypeOK, Row
  <2>5. UNCHANGED <<row, grants, revokes>> => UNCHANGED <<grants, revokes, hold>>
    OBVIOUS
  <2>6. QED
    BY <2>1, <2>2, <2>3, <2>4, <2>5
       DEF Next, vars, data, locks, GrantBegin, RevokeBegin, GrantLock, GrantInsert,
           GrantConflict, GrantUpsert, RevokeLock, RevokeSkip, RevokeConflict, Abort,
           DeadlockVictim, Tick
<1>3. QED
  BY <1>1, <1>2, Locking, PTL DEF Spec, ImplementsLedger, Ledger!LedgerSpec
=============================================================================
