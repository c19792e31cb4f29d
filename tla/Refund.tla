------------------------------- MODULE Refund -------------------------------
(***************************************************************************)
(* Refunds of membership orders (internal/payment/service.go and store.go, *)
(* RefundOrder to RejectRefund): a buyer asks for one, an administrator    *)
(* approves or rejects it, an approved one is executed at Alipay, and the  *)
(* refund of the full amount takes the membership back.  QueryRefund is    *)
(* left out: no route and no other function calls it.                      *)
(*                                                                         *)
(* Composed with Payment, whose requests run concurrently on the same      *)
(* orders and the same entitlement ledger.  As there, every store call or  *)
(* call to Alipay is an action.  What Alipay did is kept apart from what   *)
(* the service recorded: a reply may be lost after the money has moved.    *)
(***************************************************************************)
EXTENDS Payment, FiniteSets, FiniteSetsExt

CONSTANTS
    Refunds,          \* payment_refunds.refund_no, also the out_request_no
    RProcs,           \* goroutines serving refund requests
    RefundRequests,   \* the kinds of refund request that arrive
    Amount            \* Amount[o]: payment_orders.amount

ASSUME RefundAssumption ==
    /\ RefundRequests \subseteq {"RefundOrder", "ApproveRefund", "RejectRefund"}
    /\ IsFiniteSet(Refunds)
    /\ Amount \in [Orders -> Nat \ {0}]
    /\ None \notin RProcs

VARIABLES
    refunds,     \* payment_refunds
    fund,        \* fund[r]: what Alipay did about out_request_no r
    orderLock,   \* orderLock[o]: the refund request that locked o's row
    rjob         \* rjob[q]: the refund request goroutine q serves

refundVars == <<refunds, fund, orderLock, rjob>>
allVars    == <<payVars, refundVars>>

-----------------------------------------------------------------------------
(* State *)

RefundRow == [st  : {"none", "pending_review", "approved", "rejected", "processing",
                     "success", "failed"},
              o   : Orders \cup {NoOrder},
              amt : Nat]

NoRefund == [st |-> "none", o |-> NoOrder, amt |-> 0]

RefundJob == [pc  : {"idle", "lock", "insert", "approve", "process", "call", "success",
                     "failed", "revoke", "refunded"},
              r   : Refunds \cup {None},
              o   : Orders \cup {NoOrder},
              amt : Nat]

IdleRefund == [pc |-> "idle", r |-> None, o |-> NoOrder, amt |-> 0]

RefundTypeOK ==
    /\ TypeOK
    /\ refunds \in [Refunds -> RefundRow]
    /\ fund \in [Refunds -> {"none", "done", "refused"}]
    /\ orderLock \in [Orders -> RProcs \cup {None}]
    /\ rjob \in [RProcs -> RefundJob]

RefundInit ==
    /\ Init
    /\ refunds = [r \in Refunds |-> NoRefund]
    /\ fund = [r \in Refunds |-> "none"]
    /\ orderLock = [o \in Orders |-> None]
    /\ rjob = [q \in RProcs |-> IdleRefund]

-----------------------------------------------------------------------------
(* Helpers *)

RAt(q, l)       == rjob[q].pc = l
RArrives(q, k)  == RAt(q, "idle") /\ k \in RefundRequests
RStart(q, j)    == rjob' = [rjob EXCEPT ![q] = j]
RGoto(q, l)     == rjob' = [rjob EXCEPT ![q] = [@ EXCEPT !.pc = l]]
RFinish(q)      == rjob' = [rjob EXCEPT ![q] = IdleRefund]

\* COMMIT or ROLLBACK of CreateRefundRequest.
Unlock(q) == orderLock' = [o \in Orders |-> IF orderLock[o] = q THEN None ELSE orderLock[o]]

SetRefund(r, s) == refunds' = [refunds EXCEPT ![r] = [@ EXCEPT !.st = s]]

AmountOf(R) == MapThenSumSet(LAMBDA r : refunds[r].amt, R)

RefundsOf(o) == {r \in Refunds : refunds[r].o = o}

\* Mutant of Locked: a refund that was paid out no longer counts.
LockedForgetsSuccess(o) ==
    {r \in RefundsOf(o) : refunds[r].st \in {"pending_review", "approved", "processing"}}

\* Refunds that hold a share of the order's amount, for the check of a new one.
Locked(o) == {r \in RefundsOf(o) :
                refunds[r].st \in {"pending_review", "approved", "processing", "success"}}

\* External: Alipay refunds a successful trade, in total no more than was paid.
AlipayAccepts(r) ==
    LET o == refunds[r].o
    IN  /\ trade[o] = "success"
        /\ AmountOf({x \in RefundsOf(o) : fund[x] = "done"}) + refunds[r].amt <= Amount[o]

-----------------------------------------------------------------------------
(* RefundOrder: the buyer's request *)

\* The checks on the order; the refund number is new.
StartRefund(q, r, o, amt) ==
    /\ RArrives(q, "RefundOrder")
    /\ refunds[r].st = "none"
    /\ \A x \in RProcs : rjob[x].r # r
    /\ orders[o].ch = "alipay"
    /\ orders[o].st \in {"paid", "fulfilled"}
    /\ amt <= Amount[o]
    /\ RStart(q, [pc |-> "lock", r |-> r, o |-> o, amt |-> amt])
    /\ UNCHANGED <<payVars, refunds, fund, orderLock>>

\* CreateRefundRequest: SELECT ... FOR UPDATE of the order, then the amount check.
\* The lock keeps other refund requests out; payment requests that would wait for it
\* do not change what is checked.
RefundLock(q) ==
    LET o == rjob[q].o
    IN  /\ RAt(q, "lock")
        /\ orderLock[o] = None
        /\ \/ /\ AmountOf(Locked(o)) + rjob[q].amt <= Amount[o]
              /\ orderLock' = [orderLock EXCEPT ![o] = q]
              /\ RGoto(q, "insert")
           \/ /\ AmountOf(Locked(o)) + rjob[q].amt > Amount[o]
              /\ RFinish(q)
              /\ UNCHANGED orderLock
        /\ UNCHANGED <<payVars, refunds, fund>>

\* ... then the INSERT, which the partial unique index refuses if another refund of
\* the order is waiting for review, and COMMIT.
RefundInsert(q) ==
    LET j == rjob[q]
    IN  /\ RAt(q, "insert")
        /\ \/ /\ \A x \in RefundsOf(j.o) : refunds[x].st # "pending_review"
              /\ refunds' = [refunds EXCEPT ![j.r] = [st |-> "pending_review", o |-> j.o, amt |-> j.amt]]
           \/ /\ \E x \in RefundsOf(j.o) : refunds[x].st = "pending_review"
              /\ UNCHANGED refunds
        /\ Unlock(q)
        /\ RFinish(q)
        /\ UNCHANGED <<payVars, fund>>

-----------------------------------------------------------------------------
(* ApproveRefund and RejectRefund: the administrator's decision *)

\* ApproveRefund up to its first write.
StartApprove(q, r) ==
    /\ RArrives(q, "ApproveRefund")
    /\ refunds[r].st = "pending_review"
    /\ RStart(q, [pc |-> "approve", r |-> r, o |-> refunds[r].o, amt |-> refunds[r].amt])
    /\ UNCHANGED <<payVars, refunds, fund, orderLock>>

\* MarkRefundApproved, a transaction of its own: the status is read again under lock.
MarkRefundApproved(q) ==
    LET r == rjob[q].r
    IN  /\ RAt(q, "approve")
        /\ \/ /\ refunds[r].st = "pending_review"
              /\ SetRefund(r, "approved")
              /\ RGoto(q, "process")
           \/ /\ refunds[r].st # "pending_review"
              /\ RFinish(q)
              /\ UNCHANGED refunds
        /\ UNCHANGED <<payVars, fund, orderLock>>

\* MarkRefundProcessing.  It is refused if the refund is no longer approved, which
\* nobody but this request can have changed.
MarkRefundProcessing(q) ==
    LET r == rjob[q].r
    IN  /\ RAt(q, "process")
        /\ refunds[r].st = "approved"
        /\ SetRefund(r, "processing")
        /\ RGoto(q, "call")
        /\ UNCHANGED <<payVars, fund, orderLock>>

\* The call to Alipay: refunded and confirmed, refunded but the reply is lost,
\* refused, or never reached.
AlipayRefund(q) ==
    LET r == rjob[q].r
    IN  /\ RAt(q, "call")
        /\ \/ /\ AlipayAccepts(r)
              /\ fund' = [fund EXCEPT ![r] = "done"]
              /\ RGoto(q, "success") \/ RGoto(q, "failed")
           \/ /\ ~AlipayAccepts(r)
              /\ fund' = [fund EXCEPT ![r] = "refused"]
              /\ RGoto(q, "failed")
           \/ UNCHANGED fund /\ RGoto(q, "failed")
        /\ UNCHANGED <<payVars, refunds, orderLock>>

\* UpdateRefundFailed, whatever the status is by now.
UpdateRefundFailed(q) ==
    /\ RAt(q, "failed")
    /\ SetRefund(rjob[q].r, "failed")
    /\ RFinish(q)
    /\ UNCHANGED <<payVars, fund, orderLock>>

\* Mutant of UpdateRefundSuccess: every refund is finalized as a full one.
UpdateRefundSuccessAnyAmount(q) ==
    /\ RAt(q, "success")
    /\ SetRefund(rjob[q].r, "success")
    /\ RGoto(q, "revoke")
    /\ UNCHANGED <<payVars, fund, orderLock>>

\* UpdateRefundSuccess, whatever the status is by now.  ApproveRefund goes on to
\* finalizeFullRefund if this was the full amount.
UpdateRefundSuccess(q) ==
    LET j == rjob[q]
    IN  /\ RAt(q, "success")
        /\ SetRefund(j.r, "success")
        /\ \/ j.amt = Amount[j.o] /\ RGoto(q, "revoke")
           \/ j.amt # Amount[j.o] /\ RFinish(q)
        /\ UNCHANGED <<payVars, fund, orderLock>>

\* finalizeFullRefund's RevokeFromOrder: only the membership's last order loses it.
RevokeFromOrder(q) ==
    LET o == rjob[q].o
    IN  /\ RAt(q, "revoke")
        /\ \/ L!Revoke(o)
           \/ holder[Owner[o]] # o /\ UNCHANGED ledger
        /\ RGoto(q, "refunded")
        /\ UNCHANGED <<orders, expired, attempts, callbacks, planOn, trade, payURLs, job, faults>>
        /\ UNCHANGED <<refunds, fund, orderLock>>

CanRefund(r) == r.st \in {"paid", "fulfilled"}

\* finalizeFullRefund's MarkOrderRefunded; its error is only logged.
MarkOrderRefunded(q) ==
    LET o == rjob[q].o
    IN  /\ RAt(q, "refunded")
        /\ SetOrder(o, IF CanRefund(orders[o])
                       THEN [orders[o] EXCEPT !.st = "refunded", !.ent = "revoked"]
                       ELSE orders[o])
        /\ RFinish(q)
        /\ UNCHANGED <<expired, attempts, callbacks, planOn, trade, payURLs, job, faults, ledger>>
        /\ UNCHANGED <<refunds, fund, orderLock>>

\* Mutant of RejectRefund: a refund that was approved can be rejected after all.
RejectRefundApproved(r) ==
    /\ "RejectRefund" \in RefundRequests
    /\ refunds[r].st \in {"pending_review", "approved", "processing"}
    /\ SetRefund(r, "rejected")
    /\ UNCHANGED <<payVars, fund, orderLock, rjob>>

\* RejectRefund: its read and the transaction that reads the status again.
RejectRefund(r) ==
    /\ "RejectRefund" \in RefundRequests
    /\ refunds[r].st = "pending_review"
    /\ SetRefund(r, "rejected")
    /\ UNCHANGED <<payVars, fund, orderLock, rjob>>

-----------------------------------------------------------------------------
(* Failures *)

\* A store call fails, the process dies or the request is cancelled: the request is
\* over and its transaction rolled back.  Only a failing revocation is passed over.
RefundFault(q) ==
    /\ faults > 0
    /\ ~RAt(q, "idle")
    /\ faults' = faults - 1
    /\ RFinish(q) \/ (RAt(q, "revoke") /\ RGoto(q, "refunded"))
    /\ Unlock(q)
    /\ UNCHANGED <<orders, expired, attempts, callbacks, planOn, trade, payURLs, job, ledger>>
    /\ UNCHANGED <<refunds, fund>>

-----------------------------------------------------------------------------
(* Specification *)

RefundStep(q) ==
    \/ RefundLock(q) \/ RefundInsert(q) \/ MarkRefundApproved(q) \/ MarkRefundProcessing(q)
    \/ AlipayRefund(q) \/ UpdateRefundFailed(q) \/ UpdateRefundSuccess(q)
    \/ RevokeFromOrder(q) \/ MarkOrderRefunded(q)

RefundNext ==
    \/ Next /\ UNCHANGED refundVars
    \/ \E q \in RProcs, r \in Refunds :
          \/ \E o \in Orders : \E amt \in 1 .. Amount[o] : StartRefund(q, r, o, amt)
          \/ StartApprove(q, r)
    \/ \E r \in Refunds : RejectRefund(r)
    \/ \E q \in RProcs : RefundStep(q) \/ RefundFault(q)

RefundSpec == RefundInit /\ [][RefundNext]_allVars

-----------------------------------------------------------------------------
(* Properties *)

\* The refunds of an order, waiting, approved, on their way and paid out together,
\* never claim more than the order's amount, whatever requests and reviews overlap:
\* the sum CreateRefundRequest checks, of all that was requested and not rejected or
\* recorded as failed since.  (A refund whose reply from Alipay was lost is recorded as
\* failed although the money has moved; only Alipay's own bound covers it.)
ClaimsWithinAmount ==
    \A o \in Orders :
        AmountOf({r \in RefundsOf(o) : refunds[r].st \notin {"none", "rejected", "failed"}})
            <= Amount[o]

\* No money leaves without an approval: a refund that waits for its review or was
\* rejected has not been executed at Alipay, and an approval is never taken back.
MoneyNeedsApproval ==
    \A r \in Refunds : refunds[r].st \in {"none", "pending_review", "approved", "rejected"} =>
        fund[r] = "none"

\* The books follow the money: a refund recorded as successful was executed, and an
\* order is refunded only by one executed refund of its full amount.
RefundsMatchMoney ==
    /\ \A r \in Refunds : refunds[r].st = "success" => fund[r] = "done"
    /\ \A o \in Orders : orders[o].st = "refunded" =>
          \E r \in RefundsOf(o) : fund[r] = "done" /\ refunds[r].amt = Amount[o]

\* A request that read its order as refunded does not grant a membership for it.
NoGrantAfterRefund ==
    [][\A p \in Procs : At(p, "grant") /\ job[p].snap.st = "refunded" =>
            granted' = granted]_allVars

\* The refunds of an order stay within what was paid, and the rows and the jobs keep
\* their shape (CreateRefundRequest's check under the order's lock).
RefundsAreBounded == RefundTypeOK /\ ClaimsWithinAmount

=============================================================================
