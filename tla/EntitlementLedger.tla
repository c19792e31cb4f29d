-------------------------- MODULE EntitlementLedger --------------------------
(***************************************************************************)
(* What the membership store promises to the payment service: every paid   *)
(* order buys entitlement at most once, the user's membership belongs to   *)
(* the order granted last, and only that order's refund takes it away.     *)
(*                                                                         *)
(* Membership refines this specification; Payment and Refund are written   *)
(* on top of its two actions.                                              *)
(***************************************************************************)

CONSTANTS
    Users,      \* users.id
    Orders,     \* payment_orders.id
    Owner,      \* Owner[o]: payment_orders.user_id of order o
    NoOrder     \* user_memberships.last_order_id IS NULL, or no row

VARIABLES
    granted,    \* orders with a membership_grants row keyed payment-order:<id>
    revoked,    \* orders with a membership_grants row of action 'revoke'
    holder      \* holder[u]: user_memberships.last_order_id

ledgerVars == <<granted, revoked, holder>>

LedgerTypeOK ==
    /\ granted \in SUBSET Orders
    /\ revoked \in SUBSET Orders
    /\ holder \in [Users -> Orders \cup {NoOrder}]

LedgerInit ==
    /\ granted = {}
    /\ revoked = {}
    /\ holder = [u \in Users |-> NoOrder]

\* GrantMembership when no grant row carries the order's idempotency key yet.
Grant(o) ==
    /\ o \notin granted
    /\ granted' = granted \cup {o}
    /\ holder' = [holder EXCEPT ![Owner[o]] = o]
    /\ UNCHANGED revoked

\* RevokeMembershipForOrder when the membership is still the order's own.
Revoke(o) ==
    /\ holder[Owner[o]] = o
    /\ revoked' = revoked \cup {o}
    /\ UNCHANGED <<granted, holder>>

LedgerNext == \E o \in Orders : Grant(o) \/ Revoke(o)

LedgerSpec == LedgerInit /\ [][LedgerNext]_ledgerVars
=============================================================================
