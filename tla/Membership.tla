----------------------------- MODULE Membership -----------------------------
(***************************************************************************)
(* The membership store (internal/membership/store.go): the transactions   *)
(* GrantMembership and RevokeMembershipForOrder, at the granularity of     *)
(* their SQL statements, and the lazy expiry of HasActiveMembership.       *)
(*                                                                         *)
(* PostgreSQL runs them at READ COMMITTED.  What that means here:          *)
(*  - a transaction's writes become visible when it commits;               *)
(*  - SELECT ... FOR UPDATE waits for the row's lock and then reads the    *)
(*    newest committed row; when there is no row it locks nothing;         *)
(*  - an INSERT under a unique key waits for the transaction that holds an *)
(*    uncommitted row with that key (keyLock), then fails if it committed; *)
(*  - of two transactions that wait for each other one is aborted.         *)
(***************************************************************************)
EXTENDS Naturals

CONSTANTS
    Users,        \* users.id
    Orders,       \* paid payment_orders.id the payment service asks to grant
    Owner,        \* Owner[o]: the user who bought order o
    Days,         \* Days[o]: GrantRequest.DurationDays of order o
    Keys,         \* idempotency keys "refund-revoke-<refund_no>"
    KeyOrder,     \* KeyOrder[k]: the order that refund k is about
    Procs,        \* request goroutines inside a membership transaction
    NoOrder,      \* last_order_id IS NULL
    None,         \* a lock nobody holds
    MaxNow        \* bound on the clock

ASSUME MembershipAssumption ==
    /\ Owner \in [Orders -> Users]
    /\ Days \in [Orders -> Nat \ {0}]
    /\ KeyOrder \in [Keys -> Orders]
    /\ NoOrder \notin Orders
    /\ None \notin Procs
    /\ MaxNow \in Nat

VARIABLES
    now,       \* the clock, in days
    row,       \* row[u]: user_memberships of u (status "none": no row)
    grants,    \* committed membership_grants rows of payments
    revokes,   \* keys of the committed 'revoke' rows
    role,      \* users.role, as far as membership changes it
    rowLock,   \* rowLock[u]: the transaction holding u's membership row
    keyLock,   \* keyLock[o]: the transaction with an uncommitted grant row of o
    tx         \* tx[p]: the transaction goroutine p is in

data  == <<row, grants, revokes, role>>
locks == <<rowLock, keyLock>>
vars  == <<now, row, grants, revokes, role, rowLock, keyLock, tx>>

-----------------------------------------------------------------------------
(* State *)

Actions == {"activate", "renew", "restore"}

\* status and ends_at of user_memberships; normalizeMembershipStatus and the
\* membership_level column ('premium' in every row) add nothing to these.
Row == [status : {"none", "active", "expired", "refunded"},
        ends   : Nat,
        last   : Orders \cup {NoOrder}]

GrantRow == [order : Orders, action : Actions, starts : Nat, ends : Nat]

PCs == {"idle", "glock", "ginsert", "gupsert", "gcommit", "rlock", "rwrite"}

Tx == [pc     : PCs,
       order  : Orders \cup {NoOrder},
       key    : Keys \cup {None},
       at     : Nat,               \* req.Now, read before the transaction begins
       action : Actions,
       starts : Nat]

NoRow  == [status |-> "none", ends |-> 0, last |-> NoOrder]

IdleTx == [pc |-> "idle", order |-> NoOrder, key |-> None, at |-> 0,
           action |-> "activate", starts |-> 0]

TypeOK ==
    /\ now \in Nat
    /\ row \in [Users -> Row]
    /\ grants \in SUBSET GrantRow
    /\ revokes \in SUBSET Keys
    /\ role \in [Users -> {"user", "premium"}]
    /\ rowLock \in [Users -> Procs \cup {None}]
    /\ keyLock \in [Orders -> Procs \cup {None}]
    /\ tx \in [Procs -> Tx]

Init ==
    /\ now = 0
    /\ row = [u \in Users |-> NoRow]
    /\ grants = {}
    /\ revokes = {}
    /\ role \in [Users -> {"user", "premium"}]
    /\ rowLock = [u \in Users |-> None]
    /\ keyLock = [o \in Orders |-> None]
    /\ tx = [p \in Procs |-> IdleTx]

UserOf(p) == Owner[tx[p].order]

GrantedOrders == {g.order : g \in grants}

RowExists(u) == row[u].status # "none"

\* p may go on: nobody else has the row locked.
RowFree(p) == rowLock[UserOf(p)] \in {None, p}

\* Mutant of Release: a grant's key stays claimed after the transaction is over.
ReleaseKeepsKey(p) ==
    /\ rowLock' = [u \in Users |-> IF rowLock[u] = p THEN None ELSE rowLock[u]]
    /\ tx' = [tx EXCEPT ![p] = IdleTx]
    /\ UNCHANGED keyLock

\* COMMIT or ROLLBACK: p is back outside a transaction, its locks are gone.
Release(p) ==
    /\ rowLock' = [u \in Users |-> IF rowLock[u] = p THEN None ELSE rowLock[u]]
    /\ keyLock' = [o \in Orders |-> IF keyLock[o] = p THEN None ELSE keyLock[o]]
    /\ tx' = [tx EXCEPT ![p] = IdleTx]

-----------------------------------------------------------------------------
(* GrantMembership *)

\* BEGIN and the lookup by idempotency key.  When the grant row is already
\* committed the transaction returns it and changes nothing.
GrantBegin(p, o) ==
    /\ tx[p].pc = "idle"
    /\ o \notin GrantedOrders
    /\ tx' = [tx EXCEPT ![p] = [IdleTx EXCEPT !.pc = "glock", !.order = o, !.at = now]]
    /\ UNCHANGED <<now, data, locks>>

\* The start and the action of a grant made at time t when the user's row is r.
StartsAt(r, t) == IF r.status # "none" /\ r.ends > t THEN r.ends ELSE t

ActionAt(r, t) == IF r.status = "none" THEN "activate"
                  ELSE IF r.ends > t THEN "renew" ELSE "restore"

\* Mutant of GrantLock: a plain SELECT, without FOR UPDATE.
GrantLockNoForUpdate(p) ==
    /\ tx[p].pc = "glock"
    /\ tx' = [tx EXCEPT ![p].pc = "ginsert",
                        ![p].starts = StartsAt(row[UserOf(p)], tx[p].at),
                        ![p].action = ActionAt(row[UserOf(p)], tx[p].at)]
    /\ UNCHANGED <<now, data, locks>>

\* membershipByUserForUpdateTx, and the start and action computed from what it
\* returned.  Without a row nothing is locked.
GrantLock(p) ==
    LET u == UserOf(p)
        r == row[u]
    IN  /\ tx[p].pc = "glock"
        /\ RowExists(u) => RowFree(p)
        /\ rowLock' = IF RowExists(u) THEN [rowLock EXCEPT ![u] = p] ELSE rowLock
        /\ tx' = [tx EXCEPT ![p] = [@ EXCEPT !.pc = "ginsert",
                                            !.starts = StartsAt(r, tx[p].at),
                                            !.action = ActionAt(r, tx[p].at)]]
        /\ UNCHANGED <<now, data, keyLock>>

\* Mutant of GrantInsert: idempotency_key without its UNIQUE constraint.
GrantInsertNotUnique(p) ==
    /\ tx[p].pc = "ginsert"
    /\ tx' = [tx EXCEPT ![p] = [@ EXCEPT !.pc = "gupsert"]]
    /\ UNCHANGED <<now, data, locks>>

\* INSERT INTO membership_grants: the unique idempotency key is claimed.
GrantInsert(p) ==
    LET o == tx[p].order
    IN  /\ tx[p].pc = "ginsert"
        /\ keyLock[o] = None
        /\ o \notin GrantedOrders
        /\ keyLock' = [keyLock EXCEPT ![o] = p]
        /\ tx' = [tx EXCEPT ![p] = [@ EXCEPT !.pc = "gupsert"]]
        /\ UNCHANGED <<now, data, rowLock>>

\* 23505 on the idempotency key: ErrGrantAlreadyExists, the deferred rollback.
GrantConflict(p) ==
    /\ tx[p].pc = "ginsert"
    /\ keyLock[tx[p].order] = None
    /\ tx[p].order \in GrantedOrders
    /\ Release(p)
    /\ UNCHANGED <<now, data>>

\* INSERT INTO user_memberships ... ON CONFLICT (user_id) DO UPDATE: waits for
\* whoever has inserted or locked the row.
GrantUpsert(p) ==
    /\ tx[p].pc = "gupsert"
    /\ RowFree(p)
    /\ rowLock' = [rowLock EXCEPT ![UserOf(p)] = p]
    /\ tx' = [tx EXCEPT ![p] = [@ EXCEPT !.pc = "gcommit"]]
    /\ UNCHANGED <<now, data, keyLock>>

\* Mutant of GrantCommit: the upsert keeps last_order_id of an existing row.
GrantCommitKeepsLast(p) ==
    LET o    == tx[p].order
        ends == tx[p].starts + Days[o]
    IN  /\ tx[p].pc = "gcommit"
        /\ grants' = grants \cup {[order |-> o, action |-> tx[p].action,
                                   starts |-> tx[p].starts, ends |-> ends]}
        /\ row' = [row EXCEPT ![Owner[o]] =
                      [status |-> "active", ends |-> ends,
                       last |-> IF RowExists(Owner[o]) THEN row[Owner[o]].last ELSE o]]
        /\ Release(p)
        /\ UNCHANGED <<now, revokes, role>>

\* COMMIT: the grant row and the upserted membership row become visible.
GrantCommit(p) ==
    LET o    == tx[p].order
        ends == tx[p].starts + Days[o]
    IN  /\ tx[p].pc = "gcommit"
        /\ grants' = grants \cup {[order |-> o, action |-> tx[p].action,
                                   starts |-> tx[p].starts, ends |-> ends]}
        /\ row' = [row EXCEPT ![Owner[o]] = [status |-> "active", ends |-> ends, last |-> o]]
        /\ Release(p)
        /\ UNCHANGED <<now, revokes, role>>

-----------------------------------------------------------------------------
(* RevokeMembershipForOrder *)

\* BEGIN and the lookup of the revoke row; a committed one is returned as is.
RevokeBegin(p, k) ==
    /\ tx[p].pc = "idle"
    /\ k \notin revokes
    /\ tx' = [tx EXCEPT ![p] = [IdleTx EXCEPT !.pc = "rlock", !.order = KeyOrder[k],
                                              !.key = k, !.at = now]]
    /\ UNCHANGED <<now, data, locks>>

\* FOR UPDATE found the order's own membership: go on under the row's lock.
RevokeLock(p) ==
    LET u == UserOf(p)
    IN  /\ tx[p].pc = "rlock"
        /\ RowExists(u)
        /\ RowFree(p)
        /\ row[u].last = tx[p].order
        /\ rowLock' = [rowLock EXCEPT ![u] = p]
        /\ tx' = [tx EXCEPT ![p] = [@ EXCEPT !.pc = "rwrite"]]
        /\ UNCHANGED <<now, data, keyLock>>

\* No membership, or one a later order has bought since: commit, nothing done.
RevokeSkip(p) ==
    LET u == UserOf(p)
    IN  /\ tx[p].pc = "rlock"
        /\ \/ ~RowExists(u)
           \/ RowFree(p) /\ row[u].last # tx[p].order
        /\ Release(p)
        /\ UNCHANGED <<now, data>>

\* Mutant of RevokeWrite: last_order_id is cleared, too.
RevokeWriteClearsLast(p) ==
    LET u == UserOf(p)
    IN  /\ tx[p].pc = "rwrite"
        /\ tx[p].key \notin revokes
        /\ revokes' = revokes \cup {tx[p].key}
        /\ row' = [row EXCEPT ![u] = [status |-> "refunded", ends |-> tx[p].at, last |-> NoOrder]]
        /\ role' = [role EXCEPT ![u] = "user"]
        /\ Release(p)
        /\ UNCHANGED <<now, grants>>

\* The revoke row, the membership row, the role, COMMIT.  The membership ends at
\* req.Now, which is older than the commit by the time spent waiting.
RevokeWrite(p) ==
    LET u == UserOf(p)
    IN  /\ tx[p].pc = "rwrite"
        /\ tx[p].key \notin revokes
        /\ revokes' = revokes \cup {tx[p].key}
        /\ row' = [row EXCEPT ![u].status = "refunded", ![u].ends = tx[p].at]
        /\ role' = [role EXCEPT ![u] = "user"]
        /\ Release(p)
        /\ UNCHANGED <<now, grants>>

\* 23505 on the revoke key: another request with the same refund won.
RevokeConflict(p) ==
    /\ tx[p].pc = "rwrite"
    /\ tx[p].key \in revokes
    /\ Release(p)
    /\ UNCHANGED <<now, data>>

-----------------------------------------------------------------------------
(* Everything else *)

\* A failing statement, a cancelled request context or a crash: rollback.
Abort(p) ==
    /\ tx[p].pc # "idle"
    /\ Release(p)
    /\ UNCHANGED <<now, data>>

WaitsForRow(p, q) ==
    /\ tx[p].pc \in {"glock", "gupsert", "rlock"}
    /\ rowLock[UserOf(p)] = q

WaitsForKey(p, q) ==
    /\ tx[p].pc = "ginsert"
    /\ keyLock[tx[p].order] = q

\* PostgreSQL's deadlock detector: a transaction that waits for the key of one
\* that waits for its row is aborted.
DeadlockVictim(p) ==
    /\ \E q \in Procs \ {p} :
        \/ WaitsForRow(p, q) /\ WaitsForKey(q, p)
        \/ WaitsForKey(p, q) /\ WaitsForRow(q, p)
    /\ Release(p)
    /\ UNCHANGED <<now, data>>

\* Mutant of HasActiveMembership: the UPDATE forgets ends_at <= $2.
HasActiveMembershipAnyEnd(u) ==
    /\ row[u].status = "active"
    /\ rowLock[u] = None
    /\ row' = [row EXCEPT ![u].status = "expired"]
    /\ UNCHANGED <<now, grants, revokes, role, locks, tx>>

\* HasActiveMembership of an over-due membership: the second statement.
HasActiveMembership(u) ==
    /\ row[u].status = "active"
    /\ row[u].ends <= now
    /\ rowLock[u] = None
    /\ row' = [row EXCEPT ![u].status = "expired"]
    /\ UNCHANGED <<now, grants, revokes, role, locks, tx>>

Tick ==
    /\ now < MaxNow
    /\ now' = now + 1
    /\ UNCHANGED <<data, locks, tx>>

\* The statements that may wait for a lock, and the ones that cannot.
Waiting(p) == GrantLock(p) \/ GrantInsert(p) \/ GrantConflict(p) \/ GrantUpsert(p)
                \/ RevokeLock(p) \/ RevokeSkip(p)

Finishing(p) == GrantCommit(p) \/ RevokeWrite(p) \/ RevokeConflict(p)

Next ==
    \/ \E p \in Procs, o \in Orders : GrantBegin(p, o)
    \/ \E p \in Procs, k \in Keys : RevokeBegin(p, k)
    \/ \E p \in Procs : GrantLock(p)
    \/ \E p \in Procs : GrantInsert(p)
    \/ \E p \in Procs : GrantConflict(p)
    \/ \E p \in Procs : GrantUpsert(p)
    \/ \E p \in Procs : GrantCommit(p)
    \/ \E p \in Procs : RevokeLock(p)
    \/ \E p \in Procs : RevokeSkip(p)
    \/ \E p \in Procs : RevokeWrite(p)
    \/ \E p \in Procs : RevokeConflict(p)
    \/ \E p \in Procs : Abort(p)
    \/ \E p \in Procs : DeadlockVictim(p)
    \/ \E u \in Users : HasActiveMembership(u)
    \/ Tick

Spec == Init /\ [][Next]_vars

\* PostgreSQL grants a lock to its waiters in the order they came, so a statement
\* that keeps being able to run is run; a request that can go on goes on.
Fairness ==
    \A p \in Procs : /\ SF_vars(Waiting(p))
                     /\ WF_vars(Finishing(p))
                     /\ WF_vars(DeadlockVictim(p))

FairSpec == Spec /\ Fairness

-----------------------------------------------------------------------------
(* Properties *)

\* An order buys its days once: whatever callbacks, detections and retries run
\* GrantMembership for it concurrently, one grant row carries its key.
OneGrantPerOrder ==
    \A g, h \in grants : g.order = h.order => g = h

\* No paid day is sold twice by a renewal: a grant computed from an existing
\* membership row starts no earlier than that membership ends at the commit,
\* although the row was read several statements before.
RenewalsExtend ==
    [][\A g \in grants' \ grants :
          g.action # "activate" => g.starts >= row[Owner[g.order]].ends]_vars

\* The membership row agrees with the ledger of grants: unless it was refunded it
\* ends when the grant of last_order_id ends.
RowMatchesGrant ==
    \A u \in Users : row[u].status \in {"active", "expired"} =>
        \E g \in grants : g.order = row[u].last /\ g.ends = row[u].ends

\* A refund never takes away the membership of a later order ("避免误伤后续订单的会员",
\* store.go:493): at the commit of a revoke the membership is still the order's own.
RevokeSparesLaterOrders ==
    [][\A k \in revokes' \ revokes :
          row[Owner[KeyOrder[k]]].last = KeyOrder[k]]_vars

HasAccess(u) == row[u].status = "active" /\ row[u].ends > now

\* A paying user loses access before the end of the membership only because its
\* order is refunded.  The exception is written out: a first activation that read
\* "no row" overwrites the row another first activation has committed meanwhile.
AccessLostOnlyByRefund ==
    [][\A u \in Users : HasAccess(u) /\ now' = now /\ ~HasAccess(u)' =>
          \/ \E k \in revokes' \ revokes : KeyOrder[k] = row[u].last
          \/ \E g \in grants' \ grants : Owner[g.order] = u /\ g.action = "activate"]_vars

\* Every transaction comes to an end: row lock and key lock, which grants may take
\* in either order, leave nobody waiting for ever.
TransactionsFinish ==
    \A p \in Procs : tx[p].pc # "idle" ~> tx[p].pc = "idle"

\* The store keeps the promise the payment service builds on.
Ledger == INSTANCE EntitlementLedger
            WITH granted <- GrantedOrders,
                 revoked <- {KeyOrder[k] : k \in revokes},
                 holder  <- [u \in Users |-> row[u].last]

\* Statement by statement, GrantMembership and RevokeMembershipForOrder implement
\* the one-step grant and revoke of EntitlementLedger.
ImplementsLedger == Ledger!LedgerSpec

\* Row and ledger keep their shape and agree with each other.
RowsAgree == TypeOK /\ RowMatchesGrant

=============================================================================
