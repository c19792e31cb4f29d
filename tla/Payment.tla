------------------------------- MODULE Payment -------------------------------
(***************************************************************************)
(* The payment service (internal/payment/service.go) over its store        *)
(* (internal/payment/store.go): creating, paying, closing and fulfilling   *)
(* membership orders.                                                      *)
(*                                                                         *)
(* A request is a job of a goroutine.  Every store call of a handler is an *)
(* action; between two of them any other request may run, the process may  *)
(* crash and a call may fail, while the handler goes on with the order row *)
(* it read before (snap).  No handler holds a lock or a transaction across *)
(* store calls.                                                            *)
(*                                                                         *)
(* The membership store is represented by EntitlementLedger, which         *)
(* Membership implements.  Alipay is external: it is modelled by what the  *)
(* service can observe of it.  Amounts do not matter here (Refund has      *)
(* them); time is reduced to "expires_at has passed".                      *)
(***************************************************************************)
EXTENDS Naturals, Sequences

CONSTANTS
    Users, Orders,
    Owner,         \* Owner[o]: payment_orders.user_id
    NoOrder,
    Procs,         \* goroutines serving payment requests
    NotifyIds,     \* notify_id values Alipay uses; callbacks are unique by channel and id
    NotifyOrder,   \* NotifyOrder[n]: the order notification n is about
    MockIds,       \* callback_id values of mock callbacks
    None,          \* no trade, no callback
    Requests,      \* the kinds of request that arrive
    MaxAttempts,   \* bound: pay requests stop at this many attempts of an order
    MaxFaults      \* bound: failing store calls and crashes in a behaviour

ASSUME PaymentAssumption ==
    /\ Owner \in [Orders -> Users]
    /\ NoOrder \notin Orders
    /\ NotifyOrder \in [NotifyIds -> Orders]
    /\ NotifyIds \cap MockIds = {}
    /\ Requests \subseteq {"PayMock", "PayAlipay", "AlipayCallback", "MockCallback",
                          "Detect", "Redetect", "Regrant"}
    /\ MaxAttempts \in Nat
    /\ MaxFaults \in Nat

VARIABLES
    orders,      \* payment_orders
    expired,     \* expired[o]: expires_at has passed
    attempts,    \* attempts[o]: payment_attempts of o by attempt_no
    callbacks,   \* payment_callbacks by callback id
    planOn,      \* the plan is active: GetPurchasablePlan finds it
    trade,       \* trade[o]: what Alipay knows of out_trade_no o
    payURLs,     \* orders whose Alipay payment page the buyer can open
    job,         \* job[p]: the request goroutine p serves
    faults,      \* faults still to come
    granted, revoked, holder   \* the entitlement ledger

L == INSTANCE EntitlementLedger

ledger  == <<granted, revoked, holder>>
payVars == <<orders, expired, attempts, callbacks, planOn, trade, payURLs, job, faults, ledger>>

-----------------------------------------------------------------------------
(* State *)

Channels == {"mock", "alipay"}

\* order_status, payment_status, entitlement_status and payment_channel.  The
\* statuses 'failed' (order) and 'paying' are declared but never written.
Order == [st  : {"absent", "awaiting_payment", "paid", "fulfilled", "closed", "refunded"},
          pay : {"unpaid", "paid", "failed"},
          ent : {"pending", "granted", "failed", "revoked"},
          ch  : Channels]

\* channel_trade_no: Alipay has one trade per out_trade_no, PayMock numbers its
\* trades by attempt, a mock callback names one itself (no = 0).
Trade == [ch : Channels, of : Orders, no : Nat]

ASSUME TradeAssumption == None \notin Trade

AlipayTrade(o)  == [ch |-> "alipay", of |-> o, no |-> 0]
MockTrade(o, n) == [ch |-> "mock", of |-> o, no |-> n]

\* The trades a mock callback may name: one of its own, or one of PayMock's.
MockTrades == {MockTrade(o, n) : o \in Orders, n \in 0 .. MaxAttempts}

\* An attempt is its channel_trade_no, None while it is 'pending': the store writes
\* the trade number and the status 'success' together and nothing else to either.
Attempt == Trade \cup {None}

Kinds == {"none", "PayMock", "PayAlipay", "AlipayCallback", "MockCallback",
          "Detect", "Redetect", "Regrant"}

PCs == {"idle", "attempt", "url", "success", "paid", "fulfil", "grant", "mark", "entfail",
        "close", "save", "read", "lookup", "cbok", "cberr", "query", "dclose", "reread"}

AbsentOrder == [st |-> "absent", pay |-> "unpaid", ent |-> "pending", ch |-> "mock"]

Job == [pc    : PCs,
        kind  : Kinds,
        o     : Orders \cup {NoOrder},
        snap  : Order,                       \* the order row as last read
        trade : Attempt,                     \* the trade to credit
        no    : Nat,                         \* attempt_no created by this request
        cb    : NotifyIds \cup MockIds \cup {None},
        good  : BOOLEAN]                     \* amount matches, or req.Success

IdleJob == [pc |-> "idle", kind |-> "none", o |-> NoOrder, snap |-> AbsentOrder,
            trade |-> None, no |-> 0, cb |-> None, good |-> TRUE]

TypeOK ==
    /\ orders \in [Orders -> Order]
    /\ expired \in [Orders -> BOOLEAN]
    /\ attempts \in [Orders -> Seq(Attempt)]
    /\ callbacks \in [NotifyIds \cup MockIds -> {"none", "saved", "processed", "error"}]
    /\ planOn \in BOOLEAN
    /\ trade \in [Orders -> {"none", "wait", "success", "closed"}]
    /\ payURLs \in SUBSET Orders
    /\ job \in [Procs -> Job]
    /\ faults \in Nat
    /\ L!LedgerTypeOK

Init ==
    /\ orders = [o \in Orders |-> AbsentOrder]
    /\ expired = [o \in Orders |-> FALSE]
    /\ attempts = [o \in Orders |-> << >>]
    /\ callbacks = [c \in NotifyIds \cup MockIds |-> "none"]
    /\ planOn = TRUE
    /\ trade = [o \in Orders |-> "none"]
    /\ payURLs = {}
    /\ job = [p \in Procs |-> IdleJob]
    /\ faults = MaxFaults
    /\ L!LedgerInit

-----------------------------------------------------------------------------
(* How a handler moves on *)

Idle(p) == job[p].pc = "idle"
At(p, l) == job[p].pc = l

\* A request of this kind arrives at the idle goroutine p.
Arrives(p, kind) == Idle(p) /\ kind \in Requests

Start(p, j) == job' = [job EXCEPT ![p] = j]
Goto(p, l)  == job' = [job EXCEPT ![p] = [@ EXCEPT !.pc = l]]
Finish(p)   == job' = [job EXCEPT ![p] = IdleJob]

IsCallback(p) == job[p].kind \in {"AlipayCallback", "MockCallback"}

\* An error return; a callback handler first records the error on its callback.
Fail(p) == IF IsCallback(p) THEN Goto(p, "cberr") ELSE Finish(p)

\* fulfillMembership returned nil.  Detect reads the order again and looks whether
\* it still has to be fulfilled.
Done(p) == IF IsCallback(p) THEN Goto(p, "cbok")
           ELSE IF job[p].kind = "Detect" THEN Goto(p, "reread")
           ELSE Finish(p)

\* Mutant of NeedsFulfilment: an order already fulfilled is never looked at again.
NeedsFulfilmentPaidOnly(r) == r.st = "paid"

\* Paid but not fulfilled, or a failed grant: Detect and RedetectAdmin fulfil it.
NeedsFulfilment(r) == r.st = "paid" \/ r.ent = "failed"

\* The end of Detect, on the order row r in hand.
Settle(p, r) == IF NeedsFulfilment(r)
                THEN Start(p, [job[p] EXCEPT !.pc = "fulfil", !.kind = "Redetect", !.snap = r])
                ELSE Finish(p)

-----------------------------------------------------------------------------
(* Conditional updates of payment_orders *)

SetOrder(o, r) == orders' = [orders EXCEPT ![o] = r]

ensurePayable(r, o) ==
    IF r.st \in {"closed", "paid", "fulfilled"} THEN "not_payable"
    ELSE IF expired[o] /\ r.pay # "paid" THEN "expired"
    ELSE "ok"

CanClose(r) == r.st = "awaiting_payment" /\ r.pay = "unpaid"

CloseOrder(o) ==
    SetOrder(o, IF CanClose(orders[o])
                THEN [orders[o] EXCEPT !.st = "closed", !.pay = "failed"]
                ELSE orders[o])

\* Mutant of Paid: no CASE for an order that is fulfilled already.
PaidAlways(r) == [r EXCEPT !.st = "paid", !.pay = "paid"]

CanPay(r) == /\ r.st \in {"awaiting_payment", "paid", "fulfilled"}
             /\ r.pay \in {"unpaid", "paid"}

Paid(r) == [r EXCEPT !.st = IF r.st = "fulfilled" THEN r.st ELSE "paid", !.pay = "paid"]

\* Mutant of CanFulfil: the order status is not looked at.
CanFulfilAnyStatus(r) == r.pay = "paid"

CanFulfil(r) == /\ r.pay = "paid"
                /\ r.st \in {"paid", "fulfilled"}
                /\ r.ent \in {"pending", "failed", "granted"}

Fulfilled(r) == [r EXCEPT !.st = "fulfilled", !.pay = "paid", !.ent = "granted"]

\* Every trade number in payment_attempts, for its unique index and lookups.
TradesOf(o) == {attempts[o][i] : i \in DOMAIN attempts[o]} \ {None}
UsedTrades  == UNION {TradesOf(o) : o \in Orders}

-----------------------------------------------------------------------------
(* Requests *)

\* CreateOrder for an active plan: the insert.  The order's id stands for its
\* idempotency key; a repeated key returns the existing order unchanged.
CreateOrder(o, ch) ==
    /\ planOn
    /\ orders[o].st = "absent"
    /\ SetOrder(o, [st |-> "awaiting_payment", pay |-> "unpaid", ent |-> "pending", ch |-> ch])
    /\ UNCHANGED <<expired, attempts, callbacks, planOn, trade, payURLs, job, faults, ledger>>

NewJob(kind, pc, o) == [IdleJob EXCEPT !.pc = pc, !.kind = kind, !.o = o, !.snap = orders[o]]

\* PayMock and PayAlipay up to their first write: an expired order is closed, a
\* payable one gets an attempt, anything else is refused.
StartPay(p, o, kind) ==
    LET v == ensurePayable(orders[o], o)
    IN  /\ Arrives(p, kind)
        /\ orders[o].st # "absent"
        /\ Len(attempts[o]) < MaxAttempts
        /\ v # "not_payable"
        /\ kind = "PayAlipay" /\ v = "ok" => orders[o].ch = "alipay"
        /\ Start(p, NewJob(kind, IF v = "ok" THEN "attempt" ELSE "close", o))
        /\ UNCHANGED <<orders, expired, attempts, callbacks, planOn, trade, payURLs, faults, ledger>>

\* ProcessAlipayCallback: a verified notification of a successful trade.  Alipay
\* may send it late, again, or never; other trade states are ignored.
StartAlipayCallback(p, n, good) ==
    LET o == NotifyOrder[n]
    IN  /\ Arrives(p, "AlipayCallback")
        /\ trade[o] = "success"
        /\ Start(p, [IdleJob EXCEPT !.pc = "save", !.kind = "AlipayCallback", !.o = o,
                                    !.trade = AlipayTrade(o), !.cb = n, !.good = good])
        /\ UNCHANGED <<orders, expired, attempts, callbacks, planOn, trade, payURLs, faults, ledger>>

\* ProcessMockCallback: the caller names callback, order, trade and outcome.
StartMockCallback(p, c, o, t, good) ==
    /\ Arrives(p, "MockCallback")
    /\ Start(p, [IdleJob EXCEPT !.pc = "save", !.kind = "MockCallback", !.o = o,
                                !.trade = t, !.cb = c, !.good = good])
    /\ UNCHANGED <<orders, expired, attempts, callbacks, planOn, trade, payURLs, faults, ledger>>

\* Detect: an order not known to be paid is looked up at Alipay, a paid one with
\* an open or failed grant is fulfilled, any other is only reported.
StartDetect(p, o) ==
    LET r == orders[o]
    IN  /\ Arrives(p, "Detect")
        /\ r.st # "absent"
        /\ \/ /\ r.st = "awaiting_payment" \/ r.pay = "unpaid"
              /\ Start(p, NewJob("Detect", "query", o))
           \/ /\ ~(r.st = "awaiting_payment" \/ r.pay = "unpaid")
              /\ NeedsFulfilment(r)
              /\ Start(p, NewJob("Redetect", "fulfil", o))
        /\ UNCHANGED <<orders, expired, attempts, callbacks, planOn, trade, payURLs, faults, ledger>>

\* RedetectAdmin.
StartRedetect(p, o) ==
    /\ Arrives(p, "Redetect")
    /\ NeedsFulfilment(orders[o])
    /\ Start(p, NewJob("Redetect", "fulfil", o))
    /\ UNCHANGED <<orders, expired, attempts, callbacks, planOn, trade, payURLs, faults, ledger>>

\* Mutant of StartRegrant: payment_status is not looked at.
StartRegrantUnpaid(p, o) ==
    /\ Arrives(p, "Regrant")
    /\ orders[o].st # "absent"
    /\ Start(p, NewJob("Regrant", "fulfil", o))
    /\ UNCHANGED <<orders, expired, attempts, callbacks, planOn, trade, payURLs, faults, ledger>>

\* RegrantMembership: any order whose payment_status is 'paid'.
StartRegrant(p, o) ==
    /\ Arrives(p, "Regrant")
    /\ orders[o].pay = "paid"
    /\ Start(p, NewJob("Regrant", "fulfil", o))
    /\ UNCHANGED <<orders, expired, attempts, callbacks, planOn, trade, payURLs, faults, ledger>>

\* CloseAdminOrder.
CloseAdminOrder(o) ==
    /\ CanClose(orders[o])
    /\ CloseOrder(o)
    /\ UNCHANGED <<expired, attempts, callbacks, planOn, trade, payURLs, job, faults, ledger>>

-----------------------------------------------------------------------------
(* Steps of a request, one per store call *)

\* CloseOrder after ErrOrderExpired; its own error is ignored.
CloseExpired(p) ==
    /\ At(p, "close")
    /\ CloseOrder(job[p].o)
    /\ Fail(p)
    /\ UNCHANGED <<expired, attempts, callbacks, planOn, trade, payURLs, faults, ledger>>

\* CreateAttempt: a pending attempt with the next number.
CreateAttempt(p) ==
    LET o == job[p].o
        n == Len(attempts[o]) + 1
    IN  /\ At(p, "attempt")
        /\ attempts' = [attempts EXCEPT ![o] = Append(@, None)]
        /\ Start(p, [job[p] EXCEPT
                        !.pc = IF job[p].kind = "PayAlipay" THEN "url" ELSE "success",
                        !.no = n,
                        !.trade = IF job[p].kind = "PayMock" THEN MockTrade(o, n) ELSE @])
        /\ UNCHANGED <<orders, expired, callbacks, planOn, trade, payURLs, faults, ledger>>

\* BuildPagePayURL: the buyer gets the page.  The request payload saved with the
\* attempt is for the record only.
BuildPagePayURL(p) ==
    /\ At(p, "url")
    /\ payURLs' = payURLs \cup {job[p].o}
    /\ Finish(p)
    /\ UNCHANGED <<orders, expired, attempts, callbacks, planOn, trade, faults, ledger>>

\* Mutant of MarkAttemptSuccess: no unique index on the trade number.
MarkAttemptSuccessNoIndex(p) ==
    /\ At(p, "success")
    /\ attempts' = [attempts EXCEPT ![job[p].o] = [@ EXCEPT ![job[p].no] = job[p].trade]]
    /\ Goto(p, "paid")
    /\ UNCHANGED <<orders, expired, callbacks, planOn, trade, payURLs, faults, ledger>>

\* MarkAttemptSuccess: fails when the unique index has the trade already.
MarkAttemptSuccess(p) ==
    LET o == job[p].o
        t == job[p].trade
    IN  /\ At(p, "success")
        /\ \/ /\ t \notin UsedTrades
              /\ attempts' = [attempts EXCEPT ![o] = [@ EXCEPT ![job[p].no] = t]]
              /\ Goto(p, "paid")
           \/ /\ t \in UsedTrades
              /\ Fail(p)
              /\ UNCHANGED attempts
        /\ UNCHANGED <<orders, expired, callbacks, planOn, trade, payURLs, faults, ledger>>

\* MarkOrderPaid: the row it returns is what the handler goes on with.
MarkOrderPaid(p) ==
    LET o == job[p].o
        r == orders[o]
    IN  /\ At(p, "paid")
        /\ \/ /\ CanPay(r)
              /\ SetOrder(o, Paid(r))
              /\ Start(p, [job[p] EXCEPT !.pc = "fulfil", !.snap = Paid(r)])
           \/ /\ ~CanPay(r)
              /\ Fail(p)
              /\ UNCHANGED orders
        /\ UNCHANGED <<expired, attempts, callbacks, planOn, trade, payURLs, faults, ledger>>

\* fulfillMembership up to the grant: nothing to do by the row in hand, or the
\* plan is looked up as it is now and has to be purchasable.
Fulfil(p) ==
    /\ At(p, "fulfil")
    /\ IF job[p].snap.ent = "granted" /\ job[p].snap.st = "fulfilled" THEN Done(p)
       ELSE Goto(p, IF planOn THEN "grant" ELSE "entfail")
    /\ UNCHANGED <<orders, expired, attempts, callbacks, planOn, trade, payURLs, faults, ledger>>

\* GrantFromPaidOrder with the order's own idempotency key.
GrantFromPaidOrder(p) ==
    LET o == job[p].o
    IN  /\ At(p, "grant")
        /\ \/ L!Grant(o)
           \/ o \in granted /\ UNCHANGED ledger
        /\ Goto(p, "mark")
        /\ UNCHANGED <<orders, expired, attempts, callbacks, planOn, trade, payURLs, faults>>

\* MarkOrderFulfilled.
MarkOrderFulfilled(p) ==
    LET o == job[p].o
    IN  /\ At(p, "mark")
        /\ \/ /\ CanFulfil(orders[o])
              /\ SetOrder(o, Fulfilled(orders[o]))
              /\ Done(p)
           \/ /\ ~CanFulfil(orders[o])
              /\ Goto(p, "entfail")
              /\ UNCHANGED orders
        /\ UNCHANGED <<expired, attempts, callbacks, planOn, trade, payURLs, faults, ledger>>

\* MarkOrderEntitlementFailed: whatever the order's state is by now.
MarkOrderEntitlementFailed(p) ==
    /\ At(p, "entfail")
    /\ SetOrder(job[p].o, [orders[job[p].o] EXCEPT !.ent = "failed"])
    /\ Fail(p)
    /\ UNCHANGED <<expired, attempts, callbacks, planOn, trade, payURLs, faults, ledger>>

\* SaveCallback, SaveAlipayCallback: a callback id seen before ends the request,
\* whether or not the first delivery was ever processed.
SaveCallback(p) ==
    LET c == job[p].cb
    IN  /\ At(p, "save")
        /\ \/ /\ callbacks[c] = "none"
              /\ callbacks' = [callbacks EXCEPT ![c] = "saved"]
              /\ Goto(p, "read")
           \/ /\ callbacks[c] # "none"
              /\ Finish(p)
              /\ UNCHANGED callbacks
        /\ UNCHANGED <<orders, expired, attempts, planOn, trade, payURLs, faults, ledger>>

\* The callback handlers' GetOrderByNo and the checks on its result.
ReadForCallback(p) ==
    LET o == job[p].o
        r == orders[o]
        v == ensurePayable(r, o)
    IN  /\ At(p, "read")
        /\ Start(p, [job[p] EXCEPT
              !.snap = r,
              !.pc = IF r.st = "absent" \/ ~job[p].good THEN "cberr"
                     ELSE IF r.st \in {"paid", "fulfilled"} \/ v = "ok" THEN "lookup"
                     ELSE IF v = "expired" THEN "close"
                     ELSE "cberr"])
        /\ UNCHANGED <<orders, expired, attempts, callbacks, planOn, trade, payURLs, faults, ledger>>

\* GetAttemptByChannelTrade.  A trade credited before: to another order is an error
\* for a callback; Detect goes on to MarkOrderPaid (its branch for an unsuccessful
\* attempt cannot be taken, see Attempt); the Alipay callback decides on the row it
\* read before, the mock callback reads the order again.
LookupTrade(p) ==
    LET o == job[p].o
        t == job[p].trade
        r == IF job[p].kind = "MockCallback" THEN orders[o] ELSE job[p].snap
    IN  /\ At(p, "lookup")
        /\ \/ t \notin UsedTrades /\ Goto(p, "attempt")
           \/ t \in UsedTrades /\ job[p].kind = "Detect" /\ Goto(p, "paid")
           \/ /\ t \in UsedTrades /\ IsCallback(p)
              /\ Start(p, [job[p] EXCEPT
                    !.snap = r,
                    !.pc = IF t \notin TradesOf(o) THEN "cberr"
                           ELSE IF NeedsFulfilment(r) THEN "fulfil"
                           ELSE "cbok"])
        /\ UNCHANGED <<orders, expired, attempts, callbacks, planOn, trade, payURLs, faults, ledger>>

\* MarkCallbackProcessed, with or without an error; the request is over.
MarkCallbackProcessed(p) ==
    /\ job[p].pc \in {"cbok", "cberr"}
    /\ callbacks' = [callbacks EXCEPT ![job[p].cb] =
                        IF At(p, "cbok") THEN "processed" ELSE "error"]
    /\ Finish(p)
    /\ UNCHANGED <<orders, expired, attempts, planOn, trade, payURLs, faults, ledger>>

\* Mutant of TradeQuery: any trade Alipay knows and has not closed counts as paid.
TradeQueryWaitIsPaid(p) ==
    LET o == job[p].o
    IN  /\ At(p, "query")
        /\ \/ trade[o] = "none" /\ Settle(p, job[p].snap)
           \/ trade[o] = "closed" /\ Goto(p, "dclose")
           \/ /\ trade[o] \in {"wait", "success"}
              /\ Start(p, [job[p] EXCEPT !.pc = "lookup", !.trade = AlipayTrade(o)])
        /\ UNCHANGED <<orders, expired, attempts, callbacks, planOn, trade, payURLs, faults, ledger>>

\* Detect's TradeQuery.
TradeQuery(p) ==
    LET o == job[p].o
    IN  /\ At(p, "query")
        /\ \/ trade[o] \in {"none", "wait"} /\ Settle(p, job[p].snap)
           \/ trade[o] = "closed" /\ Goto(p, "dclose")
           \/ /\ trade[o] = "success"
              /\ Start(p, [job[p] EXCEPT !.pc = "lookup", !.trade = AlipayTrade(o)])
        /\ UNCHANGED <<orders, expired, attempts, callbacks, planOn, trade, payURLs, faults, ledger>>

\* Detect found the trade closed: CloseOrder, its error ignored.
DetectClose(p) ==
    /\ At(p, "dclose")
    /\ CloseOrder(job[p].o)
    /\ Goto(p, "reread")
    /\ UNCHANGED <<expired, attempts, callbacks, planOn, trade, payURLs, faults, ledger>>

\* Detect reads the order again and, if it still has to be, fulfils it.
DetectReread(p) ==
    /\ At(p, "reread")
    /\ Settle(p, orders[job[p].o])
    /\ UNCHANGED <<orders, expired, attempts, callbacks, planOn, trade, payURLs, faults, ledger>>

-----------------------------------------------------------------------------
(* Failures *)

\* A store call or the query fails without effect; the handler does what it does on
\* an error.  Overlapping CreateAttempt statements that compute the same attempt_no
\* and overlapping grants of one order fail this way, too.
StoreError(p) ==
    /\ faults > 0
    /\ ~Idle(p)
    /\ faults' = faults - 1
    /\ CASE job[p].pc \in {"fulfil", "grant", "mark"} -> Goto(p, "entfail")
         [] At(p, "query") -> Settle(p, job[p].snap)
         [] At(p, "dclose") -> Goto(p, "reread")
         [] job[p].pc \in {"save", "cbok", "cberr"} -> Finish(p)
         [] OTHER -> Fail(p)
    /\ UNCHANGED <<orders, expired, attempts, callbacks, planOn, trade, payURLs, ledger>>

\* The process dies or the request's context is cancelled: no further call succeeds.
Crash(p) ==
    /\ faults > 0
    /\ ~Idle(p)
    /\ faults' = faults - 1
    /\ Finish(p)
    /\ UNCHANGED <<orders, expired, attempts, callbacks, planOn, trade, payURLs, ledger>>

-----------------------------------------------------------------------------
(* The world around *)

\* Fifteen minutes have passed since the order was created.
Expire(o) ==
    /\ orders[o].st # "absent"
    /\ ~expired[o]
    /\ expired' = [expired EXCEPT ![o] = TRUE]
    /\ UNCHANGED <<orders, attempts, callbacks, planOn, trade, payURLs, job, faults, ledger>>

\* An administrator deactivates, soft-deletes or reactivates the plan.
SwitchPlan ==
    /\ planOn' = ~planOn
    /\ UNCHANGED <<orders, expired, attempts, callbacks, trade, payURLs, job, faults, ledger>>

\* The buyer opens the payment page, pays, or lets the trade time out at Alipay.
Buyer(o) ==
    /\ \/ o \in payURLs /\ trade[o] = "none" /\ trade' = [trade EXCEPT ![o] = "wait"]
       \/ trade[o] = "wait" /\ \E s \in {"success", "closed"} : trade' = [trade EXCEPT ![o] = s]
    /\ UNCHANGED <<orders, expired, attempts, callbacks, planOn, payURLs, job, faults, ledger>>

Step(p) ==
    \/ CloseExpired(p) \/ CreateAttempt(p) \/ BuildPagePayURL(p) \/ MarkAttemptSuccess(p)
    \/ MarkOrderPaid(p) \/ Fulfil(p) \/ GrantFromPaidOrder(p) \/ MarkOrderFulfilled(p)
    \/ MarkOrderEntitlementFailed(p) \/ SaveCallback(p) \/ ReadForCallback(p)
    \/ LookupTrade(p) \/ MarkCallbackProcessed(p) \/ TradeQuery(p) \/ DetectClose(p)
    \/ DetectReread(p)

Next ==
    \/ \E o \in Orders, ch \in Channels : CreateOrder(o, ch)
    \/ \E p \in Procs, o \in Orders, kind \in {"PayMock", "PayAlipay"} : StartPay(p, o, kind)
    \/ \E p \in Procs, n \in NotifyIds, good \in BOOLEAN : StartAlipayCallback(p, n, good)
    \/ \E p \in Procs, c \in MockIds, o \in Orders, t \in MockTrades, good \in BOOLEAN :
          StartMockCallback(p, c, o, t, good)
    \/ \E p \in Procs, o \in Orders : StartDetect(p, o) \/ StartRedetect(p, o) \/ StartRegrant(p, o)
    \/ \E o \in Orders : CloseAdminOrder(o) \/ Expire(o) \/ Buyer(o)
    \/ SwitchPlan
    \/ \E p \in Procs : Step(p) \/ StoreError(p) \/ Crash(p)

Spec == Init /\ [][Next]_payVars

\* A handler that can go on goes on.  Nothing in the service retries by itself: an
\* order left behind by a failure is taken up again when its buyer asks for it, so
\* the buyer (the pay page polls Detect) is assumed to keep asking.
Fairness ==
    /\ \A p \in Procs : WF_payVars(Step(p))
    /\ \A o \in Orders : SF_payVars(\E p \in Procs : StartDetect(p, o))

FairSpec == Spec /\ Fairness

-----------------------------------------------------------------------------
(* Properties *)

\* Whatever stale row a handler acts on, an order moves only forward: awaiting to
\* paid or closed, paid to fulfilled or refunded, fulfilled to refunded.  A closed
\* or refunded order stays so, and a payment once recorded is never withdrawn.
OrderLifecycle ==
    [][\A o \in Orders :
        LET s == orders[o].st
            t == orders'[o].st
        IN  /\ t # s => \/ s = "absent" /\ t = "awaiting_payment"
                        \/ s = "awaiting_payment" /\ t \in {"paid", "closed"}
                        \/ s = "paid" /\ t \in {"fulfilled", "refunded"}
                        \/ s = "fulfilled" /\ t = "refunded"
            /\ orders[o].pay = "paid" => orders'[o].pay = "paid"]_payVars

\* Nobody gets a membership for an order that is not paid, and an order that says
\* it is fulfilled has its grant.
GrantsMatchPayments ==
    \A o \in Orders : /\ o \in granted => orders[o].pay = "paid"
                      /\ orders[o].st = "fulfilled" => o \in granted

\* A paid order has a credited trade; an Alipay trade is credited to its own order
\* and only if the buyer really paid it.
PaymentsAreBacked ==
    \A o \in Orders :
        /\ orders[o].pay = "paid" => TradesOf(o) # {}
        /\ \A t \in TradesOf(o) : t.ch = "alipay" => t = AlipayTrade(o) /\ trade[o] = "success"

\* One trade pays at most once: no two attempts, of the same or of different
\* orders, carry the same trade number.
TradeCreditedOnce ==
    \A o, x \in Orders : \A i \in DOMAIN attempts[o], j \in DOMAIN attempts[x] :
        attempts[o][i] # None /\ attempts[o][i] = attempts[x][j] => o = x /\ i = j

\* A notification recorded as processed without error has its trade credited.
ProcessedIsCredited ==
    \A n \in NotifyIds : callbacks[n] = "processed" =>
        AlipayTrade(NotifyOrder[n]) \in TradesOf(NotifyOrder[n])

\* If the plan is eventually for sale again, an order whose Alipay trade succeeded
\* ends up fulfilled with its entitlement granted, in spite of crashes, failed calls,
\* lost notifications and concurrent handlers; unless it was closed before it was
\* credited (expiry, administrator), which only the buyer's refund can mend.
PaidTradeSettles ==
    <>[]planOn => \A o \in Orders : trade[o] = "success" ~>
        \/ orders[o].st = "fulfilled" /\ orders[o].ent = "granted"
        \/ orders[o].st = "closed"

\* The books agree: with their types, with Alipay, and with the callbacks that
\* were answered "success".
BooksAgree == TypeOK /\ PaymentsAreBacked /\ ProcessedIsCredited

=============================================================================
