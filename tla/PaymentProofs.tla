---------------------------- MODULE PaymentProofs ----------------------------
(***************************************************************************)
(* Proofs about Payment, for any number of orders, notifications, attempts *)
(* and concurrent requests, and about Refund, which composes refund        *)
(* requests with them, for any number of refunds beside.                   *)
(*                                                                         *)
(* The argument for Payment: a recorded payment is never withdrawn, so     *)
(* what a handler concluded from an old row ("this order is paid") is      *)
(* still true when it acts on it, although the row has changed in other    *)
(* ways meanwhile.                                                         *)
(*                                                                         *)
(* The argument for Refund: once approved, a refund belongs to the request *)
(* that approved it, which alone moves its status, and only on.  So money  *)
(* moves at most once for a refund, and a refund that no longer counts     *)
(* against its order never counts again.  The invariant of Payment         *)
(* survives refunds: they withdraw the entitlement of an order and never   *)
(* its payment.                                                            *)
(***************************************************************************)
EXTENDS Refund, SequenceTheorems, FiniteSetTheorems, WellFoundedInduction, TLAPS

-----------------------------------------------------------------------------
(* Payment. *)

\* A request in progress is about an order.
JobInv == \A p \in Procs : job[p].pc # "idle" => job[p].o \in Orders

\* What the columns of a row say about its payment, whoever reads them.
SaysPaid(r) == r.st \in {"paid", "fulfilled", "refunded"} \/ r.ent # "pending" \/ r.pay = "paid"

\* An order whose row speaks of a payment has one, an entitlement is granted only
\* for a payment, and a fulfilled order has its entitlement.
OrderInv ==
    \A o \in Orders :
        /\ SaysPaid(orders[o]) => orders[o].pay = "paid"
        /\ orders[o].pay = "paid" => orders[o].st \in {"paid", "fulfilled", "refunded"}
        /\ o \in granted => orders[o].pay = "paid"
        /\ orders[o].st = "fulfilled" => o \in granted

\* What a handler knows, from the row it read or from where it is, still holds.
KnowsInv ==
    \A p \in Procs : job[p].pc # "idle" =>
        /\ SaysPaid(job[p].snap) => orders[job[p].o].pay = "paid"
        /\ job[p].pc \in {"fulfil", "grant", "mark", "entfail"} => orders[job[p].o].pay = "paid"
        /\ job[p].pc = "mark" => job[p].o \in granted

IndInv == TypeOK /\ JobInv /\ OrderInv /\ KnowsInv

-----------------------------------------------------------------------------
(* Type correctness *)

\* The two shapes a job can take: a new one, or the old one moved on.
LEMMA IdleJobType == IdleJob \in Job /\ AbsentOrder \in Order
BY DEF IdleJob, Job, AbsentOrder, Order, PCs, Kinds, Attempt, Channels

LEMMA StartType ==
    ASSUME TypeOK, JobInv, NEW p \in Procs, NEW j \in Job, Start(p, j),
           j.pc # "idle" => j.o \in Orders
    PROVE  job' \in [Procs -> Job] /\ JobInv'
BY DEF TypeOK, JobInv, Start

LEMMA GotoType ==
    ASSUME TypeOK, JobInv, NEW p \in Procs, job[p].pc # "idle",
           NEW l \in PCs, Goto(p, l)
    PROVE  job' \in [Procs -> Job] /\ JobInv'
<1> DEFINE j == [job[p] EXCEPT !.pc = l]
<1>1. job[p] \in Job /\ job[p].o \in Orders /\ job \in [Procs -> Job]
  BY DEF TypeOK, JobInv
<1>2. j \in Job /\ j.o \in Orders
  BY <1>1 DEF Job
<1>3. Start(p, j)
  BY DEF Start, Goto
<1> HIDE DEF j
<1>4. QED
  BY <1>2, <1>3, StartType

LEMMA FinishType ==
    ASSUME TypeOK, JobInv, NEW p \in Procs, Finish(p)
    PROVE  job' \in [Procs -> Job] /\ JobInv'
<1>1. Start(p, IdleJob) /\ IdleJob.pc = "idle"
  BY DEF Finish, Start, IdleJob
<1>2. QED
  BY <1>1, IdleJobType, StartType

LEMMA FailType ==
    ASSUME TypeOK, JobInv, NEW p \in Procs, job[p].pc # "idle", Fail(p) \/ Done(p)
    PROVE  job' \in [Procs -> Job] /\ JobInv'
<1>1. Finish(p) \/ Goto(p, "cberr") \/ Goto(p, "cbok") \/ Goto(p, "reread")
  BY DEF Fail, Done
<1>2. {"cberr", "cbok", "reread"} \subseteq PCs
  BY DEF PCs
<1>3. QED
  BY <1>1, <1>2, FinishType, GotoType

LEMMA SettleType ==
    ASSUME TypeOK, JobInv, NEW p \in Procs, job[p].pc # "idle", NEW r \in Order, Settle(p, r)
    PROVE  job' \in [Procs -> Job] /\ JobInv'
<1> DEFINE j == [job[p] EXCEPT !.pc = "fulfil", !.kind = "Redetect", !.snap = r]
<1>a. job[p] \in Job /\ job[p].o \in Orders
  BY DEF TypeOK, JobInv
<1>b. "fulfil" \in PCs /\ "Redetect" \in Kinds
  BY DEF PCs, Kinds
<1>1. j \in Job /\ j.o \in Orders
  BY <1>a, <1>b DEF Job
<1>2. Start(p, j) \/ Finish(p)
  BY DEF Settle
<1> HIDE DEF j
<1>3. QED
  BY <1>1, <1>2, StartType, FinishType

\* Writing into an attempt keeps the sequence of attempts one.
LEMMA AttemptsType ==
    ASSUME TypeOK, NEW o \in Orders, NEW t \in Attempt, NEW n \in Nat
    PROVE  /\ [attempts EXCEPT ![o] = Append(@, None)] \in [Orders -> Seq(Attempt)]
           /\ [attempts EXCEPT ![o] = [@ EXCEPT ![n] = t]] \in [Orders -> Seq(Attempt)]
<1>1. attempts[o] \in Seq(Attempt) /\ None \in Attempt
  BY DEF TypeOK, Attempt
<1>2. Append(attempts[o], None) \in Seq(Attempt)
  BY <1>1
<1>3. PICK m \in Nat : attempts[o] \in [1 .. m -> Attempt]
  BY <1>1, SeqDef
<1>4. [attempts[o] EXCEPT ![n] = t] \in [1 .. m -> Attempt]
  BY <1>3
<1>5. [attempts[o] EXCEPT ![n] = t] \in Seq(Attempt)
  BY <1>4, SeqDef
<1>6. QED
  BY <1>2, <1>5 DEF TypeOK

\* Rows written by the conditional updates are rows.
LEMMA RowType ==
    ASSUME NEW r \in Order
    PROVE  /\ [r EXCEPT !.st = "closed", !.pay = "failed"] \in Order
           /\ Paid(r) \in Order
           /\ Fulfilled(r) \in Order
           /\ [r EXCEPT !.ent = "failed"] \in Order
BY DEF Order, Paid, Fulfilled

\* What the columns of these rows are.
LEMMA RowFields ==
    ASSUME NEW r \in Order
    PROVE  /\ Paid(r).pay = "paid" /\ Paid(r).ent = r.ent
           /\ Paid(r).st \in {"paid", "fulfilled"}
           /\ Paid(r).st = "fulfilled" => r.st = "fulfilled"
           /\ Fulfilled(r).pay = "paid" /\ Fulfilled(r).st = "fulfilled"
           /\ LET c == [r EXCEPT !.st = "closed", !.pay = "failed"]
              IN  c.st = "closed" /\ c.pay = "failed" /\ c.ent = r.ent
           /\ LET f == [r EXCEPT !.ent = "failed"]
              IN  f.st = r.st /\ f.pay = r.pay
BY DEF Order, Paid, Fulfilled

LEMMA CloseType ==
    ASSUME TypeOK, NEW o \in Orders, CloseOrder(o)
    PROVE  orders' \in [Orders -> Order]
<1>1. orders[o] \in Order
  BY DEF TypeOK
<1> DEFINE r == IF CanClose(orders[o])
                THEN [orders[o] EXCEPT !.st = "closed", !.pay = "failed"] ELSE orders[o]
<1>2. r \in Order
  BY <1>1, RowType
<1>3. orders' = [orders EXCEPT ![o] = r]
  BY DEF CloseOrder, SetOrder
<1> HIDE DEF r
<1>4. QED
  BY <1>2, <1>3 DEF TypeOK

LEMMA NewJobType ==
    ASSUME TypeOK, NEW o \in Orders, NEW kind \in Kinds, NEW pc \in PCs
    PROVE  NewJob(kind, pc, o) \in Job /\ NewJob(kind, pc, o).o = o
<1>1. orders[o] \in Order
  BY DEF TypeOK
<1>2. QED
  BY <1>1, IdleJobType DEF NewJob, IdleJob, Job

\* Starting a request changes the job only.
LEMMA RequestType ==
    ASSUME TypeOK, JobInv, NEW p \in Procs, NEW o \in Orders, NEW kind \in Kinds, NEW pc \in PCs,
           Start(p, NewJob(kind, pc, o))
    PROVE  job' \in [Procs -> Job] /\ JobInv'
BY NewJobType, StartType

\* The requests of Next: what they leave alone, and the type of the new job.
LEMMA StartStep ==
    ASSUME TypeOK, JobInv, NEW p \in Procs,
           \/ \E o \in Orders, kind \in {"PayMock", "PayAlipay"} : StartPay(p, o, kind)
           \/ \E n \in NotifyIds, good \in BOOLEAN : StartAlipayCallback(p, n, good)
           \/ \E c \in MockIds, o \in Orders, t \in MockTrades, good \in BOOLEAN :
                 StartMockCallback(p, c, o, t, good)
           \/ \E o \in Orders : StartDetect(p, o) \/ StartRedetect(p, o) \/ StartRegrant(p, o)
    PROVE  TypeOK' /\ JobInv'
<1>1. UNCHANGED <<orders, expired, attempts, callbacks, planOn, trade, payURLs, faults, ledger>>
  BY DEF StartPay, StartAlipayCallback, StartMockCallback, StartDetect, StartRedetect, StartRegrant
<1>2. job' \in [Procs -> Job] /\ JobInv'
  <2>1. ASSUME NEW o \in Orders, NEW kind \in {"PayMock", "PayAlipay"}, StartPay(p, o, kind)
        PROVE  job' \in [Procs -> Job] /\ JobInv'
    <3>1. kind \in Kinds /\ "attempt" \in PCs /\ "close" \in PCs
      BY DEF Kinds, PCs
    <3>2. Start(p, NewJob(kind, "attempt", o)) \/ Start(p, NewJob(kind, "close", o))
      BY <2>1 DEF StartPay
    <3>3. QED
      BY <3>1, <3>2, RequestType
  <2>2. ASSUME NEW n \in NotifyIds, NEW good \in BOOLEAN, StartAlipayCallback(p, n, good)
        PROVE  job' \in [Procs -> Job] /\ JobInv'
    <3> DEFINE o == NotifyOrder[n]
               j == [IdleJob EXCEPT !.pc = "save", !.kind = "AlipayCallback", !.o = o,
                                    !.trade = AlipayTrade(o), !.cb = n, !.good = good]
    <3>1. o \in Orders
      BY PaymentAssumption
    <3>2. AlipayTrade(o) \in Attempt
      BY <3>1 DEF AlipayTrade, Attempt, Trade, Channels
    <3>3. Start(p, j)
      BY <2>2 DEF StartAlipayCallback
    <3>4. "save" \in PCs /\ "AlipayCallback" \in Kinds
      BY DEF PCs, Kinds
    <3>5. j \in Job /\ j.o \in Orders
      BY <3>1, <3>2, <3>4, IdleJobType DEF Job
    <3> HIDE DEF j
    <3>6. QED
      BY <3>3, <3>5, StartType
  <2>3. ASSUME NEW c \in MockIds, NEW o \in Orders, NEW t \in MockTrades, NEW good \in BOOLEAN,
               StartMockCallback(p, c, o, t, good)
        PROVE  job' \in [Procs -> Job] /\ JobInv'
    <3> DEFINE j == [IdleJob EXCEPT !.pc = "save", !.kind = "MockCallback", !.o = o,
                                    !.trade = t, !.cb = c, !.good = good]
    <3>1. t \in Attempt
      BY PaymentAssumption DEF MockTrades, MockTrade, Attempt, Trade, Channels
    <3>2. Start(p, j)
      BY <2>3 DEF StartMockCallback
    <3>3. "save" \in PCs /\ "MockCallback" \in Kinds
      BY DEF PCs, Kinds
    <3>4. j \in Job /\ j.o \in Orders
      BY <3>1, <3>3, IdleJobType DEF Job
    <3> HIDE DEF j
    <3>5. QED
      BY <3>2, <3>4, StartType
  <2>4. ASSUME NEW o \in Orders, StartDetect(p, o) \/ StartRedetect(p, o) \/ StartRegrant(p, o)
        PROVE  job' \in [Procs -> Job] /\ JobInv'
    <3>1. /\ {"Detect", "Redetect", "Regrant"} \subseteq Kinds
          /\ {"query", "fulfil"} \subseteq PCs
      BY DEF Kinds, PCs
    <3>2. \/ Start(p, NewJob("Detect", "query", o))
          \/ Start(p, NewJob("Redetect", "fulfil", o))
          \/ Start(p, NewJob("Regrant", "fulfil", o))
      BY <2>4 DEF StartDetect, StartRedetect, StartRegrant
    <3>3. QED
      BY <3>1, <3>2, RequestType
  <2>5. QED
    BY <2>1, <2>2, <2>3, <2>4
<1>3. QED
  BY <1>1, <1>2 DEF TypeOK, ledger, L!LedgerTypeOK

\* One step of a handler.
LEMMA HandlerStep ==
    ASSUME TypeOK, JobInv, NEW p \in Procs, Step(p)
    PROVE  TypeOK' /\ JobInv'
<1> DEFINE Typed == job' \in [Procs -> Job] /\ JobInv'
<1> USE DEF ledger
<1>a. /\ job[p].pc # "idle"
      /\ job[p] \in Job
      /\ job[p].o \in Orders
      /\ orders[job[p].o] \in Order
  BY DEF Step, CloseExpired, CreateAttempt, BuildPagePayURL, MarkAttemptSuccess, MarkOrderPaid,
         Fulfil, GrantFromPaidOrder, MarkOrderFulfilled, MarkOrderEntitlementFailed, SaveCallback,
         ReadForCallback, LookupTrade, MarkCallbackProcessed, TradeQuery, DetectClose,
         DetectReread, At, TypeOK, JobInv
<1>1. CASE CloseExpired(p)
  <2>1. Typed /\ orders' \in [Orders -> Order]
    BY <1>1, <1>a, CloseType, FailType DEF CloseExpired
  <2>2. QED
    BY <1>1, <2>1 DEF CloseExpired, TypeOK, L!LedgerTypeOK
<1>2. CASE CreateAttempt(p)
  <2> DEFINE o == job[p].o
             n == Len(attempts[o]) + 1
             t == IF job[p].kind = "PayMock" THEN MockTrade(o, n) ELSE job[p].trade
             l == IF job[p].kind = "PayAlipay" THEN "url" ELSE "success"
             j == [job[p] EXCEPT !.pc = l, !.no = n, !.trade = t]
  <2>1. n \in Nat
    BY <1>a DEF TypeOK
  <2>2. MockTrade(o, n) \in Attempt /\ job[p].trade \in Attempt
    BY <1>a, <2>1 DEF MockTrade, Attempt, Trade, Channels, Job
  <2>3. t \in Attempt /\ l \in PCs
    BY <2>2 DEF PCs
  <2>4. Start(p, j)
    BY <1>2 DEF CreateAttempt
  <2>5. attempts' = [attempts EXCEPT ![o] = Append(@, None)]
    BY <1>2 DEF CreateAttempt
  <2> HIDE DEF n, t, l
  <2>6. j \in Job /\ j.o \in Orders
    BY <1>a, <2>1, <2>3 DEF Job
  <2> HIDE DEF j
  <2>7. Typed
    BY <2>4, <2>6, StartType
  <2>8. attempts' \in [Orders -> Seq(Attempt)]
    BY <1>a, <2>2, <2>5, AttemptsType
  <2>9. QED
    BY <1>2, <2>7, <2>8 DEF CreateAttempt, TypeOK, L!LedgerTypeOK
<1>3. CASE BuildPagePayURL(p)
  <2>1. Typed
    BY <1>3, FinishType DEF BuildPagePayURL
  <2>2. QED
    BY <1>3, <1>a, <2>1 DEF BuildPagePayURL, TypeOK, L!LedgerTypeOK
<1>4. CASE MarkAttemptSuccess(p)
  <2>1. "paid" \in PCs
    BY DEF PCs
  <2>2. Typed
    BY <1>4, <1>a, <2>1, GotoType, FailType DEF MarkAttemptSuccess
  <2>3. job[p].trade \in Attempt /\ job[p].no \in Nat
    BY <1>a DEF Job
  <2>4. \/ attempts' = attempts
        \/ attempts' = [attempts EXCEPT ![job[p].o] = [@ EXCEPT ![job[p].no] = job[p].trade]]
    BY <1>4 DEF MarkAttemptSuccess
  <2>5. attempts' \in [Orders -> Seq(Attempt)]
    BY <1>a, <2>3, <2>4, AttemptsType DEF TypeOK
  <2>6. QED
    BY <1>4, <2>2, <2>5 DEF MarkAttemptSuccess, TypeOK, L!LedgerTypeOK
<1>5. CASE MarkOrderPaid(p)
  <2> DEFINE r == Paid(orders[job[p].o])
             j == [job[p] EXCEPT !.pc = "fulfil", !.snap = r]
  <2>1. r \in Order
    BY <1>a, RowType
  <2>2. \/ Start(p, j) /\ orders' = [orders EXCEPT ![job[p].o] = r]
        \/ Fail(p) /\ orders' = orders
    BY <1>5 DEF MarkOrderPaid, SetOrder
  <2> HIDE DEF r
  <2>3. j \in Job /\ j.o \in Orders
    BY <1>a, <2>1 DEF Job, PCs
  <2> HIDE DEF j
  <2>4. Typed
    BY <1>a, <2>2, <2>3, StartType, FailType
  <2>5. orders' \in [Orders -> Order]
    BY <1>a, <2>1, <2>2 DEF TypeOK
  <2>6. UNCHANGED <<expired, attempts, callbacks, planOn, trade, payURLs, faults, ledger>>
    BY <1>5 DEF MarkOrderPaid
  <2>7. QED
    BY <2>4, <2>5, <2>6 DEF TypeOK, L!LedgerTypeOK
<1>6. CASE Fulfil(p)
  <2>1. {"grant", "entfail"} \subseteq PCs
    BY DEF PCs
  <2>2. Done(p) \/ Goto(p, "grant") \/ Goto(p, "entfail")
    BY <1>6 DEF Fulfil
  <2>3. Typed
    BY <1>a, <2>1, <2>2, GotoType, FailType
  <2>4. UNCHANGED <<orders, expired, attempts, callbacks, planOn, trade, payURLs, faults, ledger>>
    BY <1>6 DEF Fulfil
  <2>5. QED
    BY <2>3, <2>4 DEF TypeOK, L!LedgerTypeOK
<1>7. CASE GrantFromPaidOrder(p)
  <2>1. "mark" \in PCs
    BY DEF PCs
  <2>2. Typed
    BY <1>7, <1>a, <2>1, GotoType DEF GrantFromPaidOrder
  <2>3. PICK o \in Orders : o = job[p].o
    BY <1>a
  <2>a. L!Grant(job[p].o) \/ UNCHANGED ledger
    BY <1>7 DEF GrantFromPaidOrder
  <2>4. L!Grant(o) \/ UNCHANGED ledger
    BY ONLY <2>3, <2>a
  <2>5. L!LedgerTypeOK'
    <3>1. L!LedgerTypeOK /\ Owner[o] \in Users /\ o \in Orders
      BY <2>3, PaymentAssumption DEF TypeOK
    <3>2. CASE UNCHANGED ledger
      BY ONLY <3>1, <3>2 DEF L!LedgerTypeOK, ledger
    <3>3. CASE L!Grant(o)
      BY ONLY <3>1, <3>3 DEF L!LedgerTypeOK, L!Grant
    <3>4. QED
      BY ONLY <2>4, <3>2, <3>3
  <2>6. UNCHANGED <<orders, expired, attempts, callbacks, planOn, trade, payURLs, faults>>
    BY ONLY <1>7 DEF GrantFromPaidOrder
  <2>7. QED
    BY <2>2, <2>5, <2>6 DEF TypeOK
<1>8. CASE MarkOrderFulfilled(p)
  <2>1. "entfail" \in PCs
    BY DEF PCs
  <2>a. Done(p) \/ Goto(p, "entfail") \/ Fail(p)
    BY <1>8 DEF MarkOrderFulfilled
  <2>2. Typed
    BY <1>a, <2>1, <2>a, GotoType, FailType
  <2>3. Fulfilled(orders[job[p].o]) \in Order
    BY <1>a, RowType
  <2>b. UNCHANGED orders \/ orders' = [orders EXCEPT ![job[p].o] = Fulfilled(orders[job[p].o])]
    BY <1>8 DEF MarkOrderFulfilled, SetOrder
  <2>4. orders' \in [Orders -> Order]
    BY <2>3, <2>b DEF TypeOK
  <2>5. UNCHANGED <<expired, attempts, callbacks, planOn, trade, payURLs, faults, ledger>>
    BY <1>8 DEF MarkOrderFulfilled
  <2>6. QED
    BY <2>2, <2>4, <2>5 DEF TypeOK, L!LedgerTypeOK
<1>9. CASE MarkOrderEntitlementFailed(p)
  <2>1. Typed
    BY <1>9, <1>a, FailType DEF MarkOrderEntitlementFailed
  <2>2. [orders[job[p].o] EXCEPT !.ent = "failed"] \in Order
    BY <1>a, RowType
  <2>b. UNCHANGED orders \/ orders' = [orders EXCEPT ![job[p].o] =
                                             [orders[job[p].o] EXCEPT !.ent = "failed"]]
    BY <1>9 DEF MarkOrderEntitlementFailed, SetOrder
  <2>3. orders' \in [Orders -> Order]
    BY <2>2, <2>b DEF TypeOK
  <2>4. QED
    BY <1>9, <2>1, <2>3 DEF MarkOrderEntitlementFailed, TypeOK, L!LedgerTypeOK
<1>10. CASE SaveCallback(p)
  <2>1. "read" \in PCs
    BY DEF PCs
  <2>2. Typed
    BY <1>10, <1>a, <2>1, GotoType, FinishType DEF SaveCallback
  <2>3. callbacks' \in [NotifyIds \cup MockIds -> {"none", "saved", "processed", "error"}]
    BY <1>10 DEF SaveCallback, TypeOK
  <2>4. QED
    BY <1>10, <2>2, <2>3 DEF SaveCallback, TypeOK, L!LedgerTypeOK
<1>11. CASE ReadForCallback(p)
  <2>1. PICK l \in {"cberr", "lookup", "close"} :
           Start(p, [job[p] EXCEPT !.snap = orders[job[p].o], !.pc = l])
    BY <1>11 DEF ReadForCallback
  <2> DEFINE j == [job[p] EXCEPT !.snap = orders[job[p].o], !.pc = l]
  <2>2. j \in Job /\ j.o \in Orders
    BY <1>a, <2>1 DEF Job, PCs
  <2>3. Start(p, j)
    BY <2>1
  <2> HIDE DEF j
  <2>4. Typed
    BY <2>2, <2>3, StartType
  <2>5. QED
    BY <1>11, <2>4 DEF ReadForCallback, TypeOK, L!LedgerTypeOK
<1>12. CASE LookupTrade(p)
  <2> DEFINE r == IF job[p].kind = "MockCallback" THEN orders[job[p].o] ELSE job[p].snap
  <2>1. r \in Order
    BY <1>a DEF Job
  <2>2. \/ Goto(p, "attempt")
        \/ Goto(p, "paid")
        \/ \E l \in {"cberr", "fulfil", "cbok"} : Start(p, [job[p] EXCEPT !.snap = r, !.pc = l])
    BY <1>12 DEF LookupTrade
  <2> HIDE DEF r
  <2>3. ASSUME NEW l \in {"cberr", "fulfil", "cbok"}, Start(p, [job[p] EXCEPT !.snap = r, !.pc = l])
        PROVE  Typed
    <3> DEFINE j == [job[p] EXCEPT !.snap = r, !.pc = l]
    <3>1. j \in Job /\ j.o \in Orders
      BY <1>a, <2>1 DEF Job, PCs
    <3>2. Start(p, j)
      BY <2>3
    <3> HIDE DEF j
    <3>3. QED
      BY <3>1, <3>2, StartType
  <2>4. {"attempt", "paid"} \subseteq PCs
    BY DEF PCs
  <2>5. Typed
    BY <1>a, <2>2, <2>3, <2>4, GotoType
  <2>6. QED
    BY <1>12, <2>5 DEF LookupTrade, TypeOK, L!LedgerTypeOK
<1>13. CASE MarkCallbackProcessed(p)
  <2>1. Typed
    BY <1>13, FinishType DEF MarkCallbackProcessed
  <2>2. callbacks' \in [NotifyIds \cup MockIds -> {"none", "saved", "processed", "error"}]
    BY <1>13 DEF MarkCallbackProcessed, TypeOK
  <2>3. QED
    BY <1>13, <2>1, <2>2 DEF MarkCallbackProcessed, TypeOK, L!LedgerTypeOK
<1>14. CASE TradeQuery(p)
  <2> DEFINE j == [job[p] EXCEPT !.pc = "lookup", !.trade = AlipayTrade(job[p].o)]
  <2>1. "dclose" \in PCs /\ "lookup" \in PCs /\ job[p].snap \in Order
    BY <1>a DEF PCs, Job
  <2>2. AlipayTrade(job[p].o) \in Attempt
    BY <1>a DEF AlipayTrade, Attempt, Trade, Channels
  <2>3. j \in Job /\ j.o \in Orders
    BY <1>a, <2>1, <2>2 DEF Job
  <2>4. Settle(p, job[p].snap) \/ Goto(p, "dclose") \/ Start(p, j)
    BY <1>14 DEF TradeQuery
  <2> HIDE DEF j
  <2>5. Typed
    BY <1>a, <2>1, <2>3, <2>4, SettleType, GotoType, StartType
  <2>6. QED
    BY <1>14, <2>5 DEF TradeQuery, TypeOK, L!LedgerTypeOK
<1>15. CASE DetectClose(p)
  <2>1. "reread" \in PCs
    BY DEF PCs
  <2>2. Typed /\ orders' \in [Orders -> Order]
    BY <1>15, <1>a, <2>1, CloseType, GotoType DEF DetectClose
  <2>3. QED
    BY <1>15, <2>2 DEF DetectClose, TypeOK, L!LedgerTypeOK
<1>16. CASE DetectReread(p)
  <2>1. Typed
    BY <1>16, <1>a, SettleType DEF DetectReread
  <2>2. QED
    BY <1>16, <2>1 DEF DetectReread, TypeOK, L!LedgerTypeOK
<1>17. QED
  BY <1>1, <1>2, <1>3, <1>4, <1>5, <1>6, <1>7, <1>8, <1>9, <1>10, <1>11, <1>12, <1>13, <1>14,
     <1>15, <1>16 DEF Step

\* A failing call or a crash.
LEMMA FaultStep ==
    ASSUME TypeOK, JobInv, NEW p \in Procs, StoreError(p) \/ Crash(p)
    PROVE  TypeOK' /\ JobInv'
<1>1. /\ job[p].pc # "idle"
      /\ faults > 0 /\ faults' = faults - 1
      /\ UNCHANGED <<orders, expired, attempts, callbacks, planOn, trade, payURLs, ledger>>
  BY DEF StoreError, Crash, Idle
<1>2. \/ Goto(p, "entfail") \/ Goto(p, "reread") \/ Finish(p) \/ Fail(p)
      \/ Settle(p, job[p].snap)
  BY DEF StoreError, Crash
<1>3. "entfail" \in PCs /\ "reread" \in PCs /\ job[p].snap \in Order
  BY DEF PCs, TypeOK, Job
<1>4. job' \in [Procs -> Job] /\ JobInv'
  BY <1>1, <1>2, <1>3, GotoType, FinishType, FailType, SettleType
<1>5. faults' \in Nat
  BY <1>1 DEF TypeOK
<1>6. QED
  BY <1>1, <1>4, <1>5 DEF TypeOK, ledger, L!LedgerTypeOK

\* Every step of the service and of the world around it keeps the types.
LEMMA TypeStep ==
    ASSUME TypeOK, JobInv, [Next]_payVars
    PROVE  TypeOK' /\ JobInv'
<1>1. ASSUME NEW o \in Orders, NEW ch \in Channels, CreateOrder(o, ch)
      PROVE  TypeOK' /\ JobInv'
  BY <1>1 DEF CreateOrder, SetOrder, TypeOK, JobInv, Order, ledger, L!LedgerTypeOK
<1>2. ASSUME NEW o \in Orders, CloseAdminOrder(o)
      PROVE  TypeOK' /\ JobInv'
  <2>1. orders' \in [Orders -> Order]
    BY <1>2, CloseType DEF CloseAdminOrder
  <2>2. QED
    BY <1>2, <2>1 DEF CloseAdminOrder, TypeOK, JobInv, ledger, L!LedgerTypeOK
<1>3. ASSUME NEW o \in Orders, Expire(o)
      PROVE  TypeOK' /\ JobInv'
  BY <1>3 DEF Expire, TypeOK, JobInv, ledger, L!LedgerTypeOK
<1>4. ASSUME NEW o \in Orders, Buyer(o)
      PROVE  TypeOK' /\ JobInv'
  BY <1>4 DEF Buyer, TypeOK, JobInv, ledger, L!LedgerTypeOK
<1>5. CASE SwitchPlan
  BY <1>5 DEF SwitchPlan, TypeOK, JobInv, ledger, L!LedgerTypeOK
<1>6. CASE UNCHANGED payVars
  BY <1>6 DEF payVars, TypeOK, JobInv, ledger, L!LedgerTypeOK
<1>7. QED
  BY <1>1, <1>2, <1>3, <1>4, <1>5, <1>6, StartStep, HandlerStep, FaultStep DEF Next

LEMMA PaymentTypeInit ==
    ASSUME Init
    PROVE  TypeOK /\ JobInv
<1>1. attempts \in [Orders -> Seq(Attempt)]
  BY DEF Init
<1>2. JobInv /\ job \in [Procs -> Job]
  BY IdleJobType DEF Init, JobInv, IdleJob
<1>3. QED
  BY <1>1, <1>2, IdleJobType, PaymentAssumption DEF Init, TypeOK, L!LedgerInit, L!LedgerTypeOK

\* Every reachable state of the payment service is well typed, and a request in
\* progress is about an order that exists.
THEOREM PaymentTyping == Spec => [](TypeOK /\ JobInv)
<1>1. Init => TypeOK /\ JobInv
  BY PaymentTypeInit
<1>2. TypeOK /\ JobInv /\ [Next]_payVars => TypeOK' /\ JobInv'
  BY TypeStep
<1>3. QED
  BY <1>1, <1>2, PTL DEF Spec

-----------------------------------------------------------------------------
(* Payments and entitlements *)

\* The only ways an order's row changes.
Written(o) ==
    \/ orders'[o] = orders[o]
    \/ /\ orders[o].st = "absent"
       /\ orders'[o].st = "awaiting_payment" /\ orders'[o].pay = "unpaid"
       /\ orders'[o].ent = "pending"
    \/ /\ CanClose(orders[o])
       /\ orders'[o] = [orders[o] EXCEPT !.st = "closed", !.pay = "failed"]
    \/ /\ CanPay(orders[o]) /\ orders'[o] = Paid(orders[o])
       /\ \E p \in Procs : job[p].pc = "paid" /\ job[p].o = o
    \/ /\ CanFulfil(orders[o]) /\ orders'[o] = Fulfilled(orders[o])
       /\ \E p \in Procs : job[p].pc = "mark" /\ job[p].o = o
    \/ /\ orders'[o] = [orders[o] EXCEPT !.ent = "failed"]
       /\ \E p \in Procs : job[p].pc = "entfail" /\ job[p].o = o

LEMMA CloseWritten ==
    ASSUME TypeOK, NEW x \in Orders, CloseOrder(x)
    PROVE  \A o \in Orders : Written(o)
BY DEF TypeOK, CloseOrder, SetOrder, Written

LEMMA StepWrites ==
    ASSUME TypeOK, JobInv, [Next]_payVars
    PROVE  \A o \in Orders : Written(o)
<1>1. ASSUME orders' = orders PROVE \A o \in Orders : Written(o)
  BY <1>1 DEF Written
<1>2. ASSUME NEW x \in Orders, NEW ch \in Channels, CreateOrder(x, ch)
      PROVE  \A o \in Orders : Written(o)
  BY <1>2 DEF CreateOrder, SetOrder, TypeOK, Written
<1>3. ASSUME NEW x \in Orders, CloseAdminOrder(x)
      PROVE  \A o \in Orders : Written(o)
  BY <1>3, CloseWritten DEF CloseAdminOrder
<1>4. ASSUME NEW p \in Procs, CloseExpired(p) \/ DetectClose(p)
      PROVE  \A o \in Orders : Written(o)
  <2>1. job[p].o \in Orders /\ CloseOrder(job[p].o)
    BY <1>4 DEF CloseExpired, DetectClose, At, JobInv
  <2>2. QED
    BY <2>1, CloseWritten
<1>5. ASSUME NEW p \in Procs, MarkOrderPaid(p)
      PROVE  \A o \in Orders : Written(o)
  <2>1. job[p].pc = "paid"
    BY <1>5 DEF MarkOrderPaid, At
  <2>2. \/ orders' = orders
        \/ /\ CanPay(orders[job[p].o])
           /\ orders' = [orders EXCEPT ![job[p].o] = Paid(orders[job[p].o])]
    BY <1>5 DEF MarkOrderPaid, SetOrder
  <2>3. QED
    BY <2>1, <2>2 DEF TypeOK, Written
<1>6. ASSUME NEW p \in Procs, MarkOrderFulfilled(p)
      PROVE  \A o \in Orders : Written(o)
  <2>1. job[p].pc = "mark"
    BY <1>6 DEF MarkOrderFulfilled, At
  <2>2. \/ orders' = orders
        \/ /\ CanFulfil(orders[job[p].o])
           /\ orders' = [orders EXCEPT ![job[p].o] = Fulfilled(orders[job[p].o])]
    BY <1>6 DEF MarkOrderFulfilled, SetOrder
  <2>3. QED
    BY <2>1, <2>2 DEF TypeOK, Written
<1>7. ASSUME NEW p \in Procs, MarkOrderEntitlementFailed(p)
      PROVE  \A o \in Orders : Written(o)
  <2>1. /\ job[p].pc = "entfail"
        /\ orders' = [orders EXCEPT ![job[p].o] = [orders[job[p].o] EXCEPT !.ent = "failed"]]
    BY <1>7 DEF MarkOrderEntitlementFailed, At, SetOrder
  <2>2. QED
    BY <2>1 DEF TypeOK, Written
<1>8. ASSUME NEW p \in Procs, StoreError(p) \/ Crash(p)
      PROVE  orders' = orders
  BY <1>8 DEF StoreError, Crash
<1>9. ASSUME NEW p \in Procs, NEW o \in Orders,
             StartDetect(p, o) \/ StartRedetect(p, o) \/ StartRegrant(p, o)
      PROVE  orders' = orders
  BY <1>9 DEF StartDetect, StartRedetect, StartRegrant
<1>10. ASSUME NEW p \in Procs,
              \/ CreateAttempt(p) \/ BuildPagePayURL(p) \/ MarkAttemptSuccess(p) \/ Fulfil(p)
              \/ GrantFromPaidOrder(p) \/ SaveCallback(p) \/ ReadForCallback(p) \/ LookupTrade(p)
              \/ MarkCallbackProcessed(p) \/ TradeQuery(p) \/ DetectReread(p)
       PROVE  orders' = orders
  BY <1>10 DEF CreateAttempt, BuildPagePayURL, MarkAttemptSuccess, Fulfil, GrantFromPaidOrder,
               SaveCallback, ReadForCallback, LookupTrade, MarkCallbackProcessed, TradeQuery,
               DetectReread
<1>11. ASSUME \/ UNCHANGED payVars
              \/ SwitchPlan
              \/ \E o \in Orders : Expire(o) \/ Buyer(o)
              \/ \E p \in Procs, o \in Orders, kind \in {"PayMock", "PayAlipay"} : StartPay(p, o, kind)
              \/ \E p \in Procs, n \in NotifyIds, good \in BOOLEAN : StartAlipayCallback(p, n, good)
              \/ \E p \in Procs, c \in MockIds, o \in Orders, t \in MockTrades, good \in BOOLEAN :
                    StartMockCallback(p, c, o, t, good)
       PROVE  orders' = orders
  BY <1>11 DEF payVars, SwitchPlan, Expire, Buyer, StartPay, StartAlipayCallback, StartMockCallback
<1>12. ASSUME NEW p \in Procs, Step(p)
       PROVE  \A o \in Orders : Written(o)
  BY <1>12, <1>1, <1>4, <1>5, <1>6, <1>7, <1>10 DEF Step
<1>13. QED
  BY <1>1, <1>2, <1>3, <1>8, <1>9, <1>11, <1>12 DEF Next

\* The life of an order, for every interleaving: it never goes back, and its payment
\* is never withdrawn.
LEMMA Forward ==
    ASSUME TypeOK, OrderInv, NEW o \in Orders, Written(o)
    PROVE  /\ orders'[o].st # orders[o].st =>
                 \/ orders[o].st = "absent" /\ orders'[o].st = "awaiting_payment"
                 \/ orders[o].st = "awaiting_payment" /\ orders'[o].st \in {"paid", "closed"}
                 \/ orders[o].st = "paid" /\ orders'[o].st \in {"fulfilled", "refunded"}
                 \/ orders[o].st = "fulfilled" /\ orders'[o].st = "refunded"
           /\ orders[o].pay = "paid" => orders'[o].pay = "paid"
<1>1. orders[o] \in Order
  BY DEF TypeOK
<1>2. QED
  BY <1>1 DEF Written, OrderInv, SaysPaid, CanClose, CanPay, CanFulfil, Paid, Fulfilled, Order

\* A grant is the work of a request that is about to grant.
LEMMA StepGrants ==
    ASSUME TypeOK, JobInv, [Next]_payVars
    PROVE  \/ granted' = granted
           \/ \E p \in Procs : job[p].pc = "grant" /\ granted' = granted \cup {job[p].o}
<1>1. ASSUME NEW p \in Procs, GrantFromPaidOrder(p)
      PROVE  \/ granted' = granted
             \/ job[p].pc = "grant" /\ granted' = granted \cup {job[p].o}
  <2>1. job[p].pc = "grant" /\ job[p].o \in Orders
    BY <1>1 DEF GrantFromPaidOrder, At, JobInv
  <2>2. PICK o \in Orders : o = job[p].o
    BY <2>1
  <2>3. L!Grant(o) \/ UNCHANGED ledger
    BY <1>1, <2>2 DEF GrantFromPaidOrder
  <2>4. QED
    BY <2>1, <2>2, <2>3 DEF L!Grant, ledger
<1>2. ASSUME NEW p \in Procs, Step(p), ~GrantFromPaidOrder(p)
      PROVE  granted' = granted
  BY <1>2 DEF Step, CloseExpired, CreateAttempt, BuildPagePayURL, MarkAttemptSuccess, MarkOrderPaid,
              Fulfil, MarkOrderFulfilled, MarkOrderEntitlementFailed, SaveCallback, ReadForCallback,
              LookupTrade, MarkCallbackProcessed, TradeQuery, DetectClose, DetectReread, ledger
<1>3. ASSUME NEW p \in Procs, StoreError(p) \/ Crash(p)
      PROVE  granted' = granted
  BY <1>3 DEF StoreError, Crash, ledger
<1>4. ASSUME \/ UNCHANGED payVars
             \/ SwitchPlan
             \/ \E o \in Orders, ch \in Channels : CreateOrder(o, ch)
             \/ \E o \in Orders : CloseAdminOrder(o) \/ Expire(o) \/ Buyer(o)
             \/ \E p \in Procs, o \in Orders, kind \in {"PayMock", "PayAlipay"} : StartPay(p, o, kind)
             \/ \E p \in Procs, n \in NotifyIds, good \in BOOLEAN : StartAlipayCallback(p, n, good)
             \/ \E p \in Procs, c \in MockIds, o \in Orders, t \in MockTrades, good \in BOOLEAN :
                   StartMockCallback(p, c, o, t, good)
             \/ \E p \in Procs, o \in Orders :
                   StartDetect(p, o) \/ StartRedetect(p, o) \/ StartRegrant(p, o)
      PROVE  granted' = granted
  BY <1>4 DEF payVars, SwitchPlan, CreateOrder, CloseAdminOrder, Expire, Buyer, StartPay,
              StartAlipayCallback, StartMockCallback, StartDetect, StartRedetect, StartRegrant, ledger
<1>5. QED
  BY <1>1, <1>2, <1>3, <1>4 DEF Next

\* The rows stay sound: a request that marks an order fulfilled has granted it, one
\* that grants it or records a failed grant knows that it is paid.
LEMMA OrderStep ==
    ASSUME IndInv, [Next]_payVars
    PROVE  OrderInv'
<1> USE DEF IndInv
<1> SUFFICES ASSUME NEW o \in Orders
             PROVE  /\ SaysPaid(orders'[o]) => orders'[o].pay = "paid"
                    /\ orders'[o].pay = "paid" => orders'[o].st \in {"paid", "fulfilled", "refunded"}
                    /\ o \in granted' => orders'[o].pay = "paid"
                    /\ orders'[o].st = "fulfilled" => o \in granted'
  BY DEF OrderInv
<1>1. Written(o) /\ orders[o] \in Order
  BY StepWrites DEF TypeOK
<1>2. orders[o].pay = "paid" => orders'[o].pay = "paid"
  BY <1>1, Forward
<1>3. granted \subseteq granted' /\ (o \in granted' => o \in granted \/ orders[o].pay = "paid")
  BY StepGrants DEF KnowsInv
<1>4. \A p \in Procs :
         /\ job[p].pc = "mark" /\ job[p].o = o => o \in granted
         /\ job[p].pc = "entfail" /\ job[p].o = o => orders[o].pay = "paid"
  BY DEF KnowsInv
<1>5. /\ SaysPaid(orders[o]) => orders[o].pay = "paid"
      /\ orders[o].pay = "paid" => orders[o].st \in {"paid", "fulfilled", "refunded"}
      /\ o \in granted => orders[o].pay = "paid"
      /\ orders[o].st = "fulfilled" => o \in granted
  BY DEF OrderInv
<1>6. o \in granted' => orders'[o].pay = "paid"
  BY <1>2, <1>3, <1>5
<1>7. CASE orders'[o] = orders[o]
  BY <1>3, <1>5, <1>6, <1>7
<1>8. CASE /\ orders'[o].st = "awaiting_payment" /\ orders'[o].pay = "unpaid"
           /\ orders'[o].ent = "pending"
  BY <1>6, <1>8 DEF SaysPaid
<1>9. CASE /\ CanClose(orders[o])
           /\ orders'[o] = [orders[o] EXCEPT !.st = "closed", !.pay = "failed"]
  BY <1>1, <1>5, <1>6, <1>9, RowFields DEF SaysPaid, CanClose
<1>10. CASE orders'[o] = Paid(orders[o])
  BY <1>1, <1>3, <1>5, <1>6, <1>10, RowFields
<1>11. CASE /\ orders'[o] = Fulfilled(orders[o])
            /\ \E p \in Procs : job[p].pc = "mark" /\ job[p].o = o
  <2>1. o \in granted
    BY <1>4, <1>11
  <2>2. orders'[o].pay = "paid" /\ orders'[o].st = "fulfilled"
    BY <1>1, <1>11, RowFields
  <2>3. QED
    BY <1>3, <2>1, <2>2
<1>12. CASE /\ orders'[o] = [orders[o] EXCEPT !.ent = "failed"]
            /\ \E p \in Procs : job[p].pc = "entfail" /\ job[p].o = o
  <2>1. orders[o].pay = "paid"
    BY <1>4, <1>12
  <2>2. orders'[o].pay = orders[o].pay /\ orders'[o].st = orders[o].st
    BY <1>1, <1>12, RowFields
  <2>3. QED
    BY <1>3, <1>5, <2>1, <2>2
<1>13. QED
  BY <1>1, <1>7, <1>8, <1>9, <1>10, <1>11, <1>12 DEF Written

\* What a job must know in the next state.
KnowsNext(j) ==
    j.pc # "idle" =>
        /\ SaysPaid(j.snap) => orders'[j.o].pay = "paid"
        /\ j.pc \in {"fulfil", "grant", "mark", "entfail"} => orders'[j.o].pay = "paid"
        /\ j.pc = "mark" => j.o \in granted'

\* What a handler knew it still knows.
LEMMA StillKnows ==
    ASSUME IndInv, [Next]_payVars, NEW p \in Procs
    PROVE  /\ KnowsNext(job[p])
           /\ \A o \in Orders : orders[o].pay = "paid" => orders'[o].pay = "paid"
<1> USE DEF IndInv
<1>1. \A o \in Orders : orders[o].pay = "paid" => orders'[o].pay = "paid"
  BY StepWrites, Forward
<1>2. granted \subseteq granted'
  BY StepGrants
<1>3. QED
  BY <1>1, <1>2 DEF KnowsInv, KnowsNext, JobInv

\* Moving on to a place that asks for no more than the handler knows.
LEMMA MoveKnows ==
    ASSUME IndInv, [Next]_payVars, NEW p \in Procs, job[p].pc # "idle", NEW l \in PCs,
           \/ l \notin {"fulfil", "grant", "mark", "entfail"}
           \/ l # "mark" /\ job[p].pc \in {"fulfil", "grant", "mark", "entfail"}
    PROVE  KnowsNext([job[p] EXCEPT !.pc = l])
<1>1. KnowsNext(job[p]) /\ job[p] \in Job
  BY StillKnows DEF IndInv, TypeOK
<1>2. QED
  BY <1>1 DEF KnowsNext, Job

\* Starting from a row just read.
LEMMA ReadKnows ==
    ASSUME IndInv, [Next]_payVars, NEW j \in Job, j.o \in Orders, j.snap = orders[j.o],
           \/ j.pc \notin {"fulfil", "grant", "mark", "entfail"}
           \/ j.pc = "fulfil" /\ SaysPaid(orders[j.o])
    PROVE  KnowsNext(j)
<1>1. SaysPaid(orders[j.o]) => orders'[j.o].pay = "paid"
  BY StepWrites, Forward DEF IndInv, OrderInv
<1>2. QED
  BY <1>1 DEF KnowsNext

\* If the one job that changes knows enough, all do.
LEMMA JobKnows ==
    ASSUME IndInv, [Next]_payVars, NEW p \in Procs, NEW j, Start(p, j), KnowsNext(j)
    PROVE  KnowsInv'
<1>1. \A q \in Procs : job'[q] = j \/ job'[q] = job[q]
  BY DEF IndInv, TypeOK, Start
<1>2. \A q \in Procs : KnowsNext(job'[q])
  BY <1>1, StillKnows
<1>3. QED
  BY <1>2 DEF KnowsNext, KnowsInv, SaysPaid

LEMMA GotoKnows ==
    ASSUME IndInv, [Next]_payVars, NEW p \in Procs, job[p].pc # "idle", NEW l \in PCs, Goto(p, l),
           \/ l \notin {"fulfil", "grant", "mark", "entfail"}
           \/ l # "mark" /\ job[p].pc \in {"fulfil", "grant", "mark", "entfail"}
    PROVE  KnowsInv'
<1> DEFINE j == [job[p] EXCEPT !.pc = l]
<1>1. Start(p, j)
  BY DEF Start, Goto
<1>2. KnowsNext(j)
  BY MoveKnows
<1> HIDE DEF j
<1>3. QED
  BY <1>1, <1>2, JobKnows

LEMMA FinishKnows ==
    ASSUME IndInv, [Next]_payVars, NEW p \in Procs, Finish(p)
    PROVE  KnowsInv'
<1>1. Start(p, IdleJob) /\ KnowsNext(IdleJob)
  BY DEF Finish, Start, KnowsNext, IdleJob
<1>2. QED
  BY <1>1, JobKnows

LEMMA FailKnows ==
    ASSUME IndInv, [Next]_payVars, NEW p \in Procs, job[p].pc # "idle", Fail(p) \/ Done(p)
    PROVE  KnowsInv'
<1>1. Finish(p) \/ Goto(p, "cberr") \/ Goto(p, "cbok") \/ Goto(p, "reread")
  BY DEF Fail, Done
<1>2. {"cberr", "cbok", "reread"} \subseteq PCs
  BY DEF PCs
<1>3. QED
  BY <1>1, <1>2, FinishKnows, GotoKnows

\* Settle is sound for a row from which the order's payment may be concluded.
LEMMA SettleKnows ==
    ASSUME IndInv, [Next]_payVars, NEW p \in Procs, job[p].pc # "idle", NEW r \in Order,
           Settle(p, r), SaysPaid(r) => orders[job[p].o].pay = "paid"
    PROVE  KnowsInv'
<1> DEFINE j == [job[p] EXCEPT !.pc = "fulfil", !.kind = "Redetect", !.snap = r]
<1>1. CASE Finish(p)
  BY <1>1, FinishKnows
<1>2. CASE Start(p, j) /\ NeedsFulfilment(r)
  <2>1. SaysPaid(r)
    BY <1>2 DEF NeedsFulfilment, SaysPaid
  <2>2. job[p] \in Job /\ job[p].o \in Orders
    BY DEF IndInv, TypeOK, JobInv
  <2>3. orders'[job[p].o].pay = "paid"
    BY <2>1, <2>2, StillKnows
  <2>4. j.pc = "fulfil" /\ j.o = job[p].o /\ j.snap = r
    BY <2>2 DEF Job
  <2>5. Start(p, j)
    BY <1>2
  <2> HIDE DEF j
  <2>6. KnowsNext(j)
    BY <2>3, <2>4 DEF KnowsNext
  <2>7. QED
    BY <2>5, <2>6, JobKnows
<1>3. QED
  BY <1>1, <1>2 DEF Settle

\* A step that leaves the jobs alone.
LEMMA IdleKnows ==
    ASSUME IndInv, [Next]_payVars, job' = job
    PROVE  KnowsInv'
<1>1. \A q \in Procs : KnowsNext(job'[q])
  BY StillKnows
<1>2. QED
  BY <1>1 DEF KnowsNext, KnowsInv, SaysPaid

\* One step of a handler.
LEMMA HandlerKnows ==
    ASSUME IndInv, [Next]_payVars, NEW p \in Procs, Step(p)
    PROVE  KnowsInv'
<1>a. /\ job[p].pc # "idle" /\ job[p] \in Job /\ job[p].o \in Orders
      /\ orders[job[p].o] \in Order /\ job[p].snap \in Order
      /\ SaysPaid(job[p].snap) => orders[job[p].o].pay = "paid"
      /\ SaysPaid(orders[job[p].o]) => orders[job[p].o].pay = "paid"
  BY DEF Step, CloseExpired, CreateAttempt, BuildPagePayURL, MarkAttemptSuccess, MarkOrderPaid,
         Fulfil, GrantFromPaidOrder, MarkOrderFulfilled, MarkOrderEntitlementFailed, SaveCallback,
         ReadForCallback, LookupTrade, MarkCallbackProcessed, TradeQuery, DetectClose,
         DetectReread, At, IndInv, TypeOK, JobInv, OrderInv, KnowsInv, Job
<1>b. {"paid", "grant", "entfail", "read", "attempt", "dclose", "reread"} \subseteq PCs
  BY DEF PCs
<1>1. CASE CloseExpired(p) \/ MarkOrderEntitlementFailed(p)
  BY <1>1, <1>a, FailKnows DEF CloseExpired, MarkOrderEntitlementFailed
<1>2. CASE CreateAttempt(p)
  <2> DEFINE o == job[p].o
             n == Len(attempts[o]) + 1
             t == IF job[p].kind = "PayMock" THEN MockTrade(o, n) ELSE job[p].trade
             l == IF job[p].kind = "PayAlipay" THEN "url" ELSE "success"
             j == [job[p] EXCEPT !.pc = l, !.no = n, !.trade = t]
  <2>1. Start(p, j)
    BY <1>2 DEF CreateAttempt
  <2>2. l \in {"url", "success"}
    OBVIOUS
  <2> HIDE DEF n, t, l
  <2>3. j.pc = l /\ j.o = job[p].o /\ j.snap = job[p].snap
    BY <1>a DEF Job
  <2> HIDE DEF j
  <2>4. KnowsNext(j)
    BY <1>a, <2>2, <2>3, StillKnows DEF KnowsNext
  <2>5. QED
    BY <2>1, <2>4, JobKnows
<1>3. CASE BuildPagePayURL(p) \/ MarkCallbackProcessed(p)
  BY <1>3, FinishKnows DEF BuildPagePayURL, MarkCallbackProcessed
<1>4. CASE MarkAttemptSuccess(p)
  BY <1>4, <1>a, <1>b, GotoKnows, FailKnows DEF MarkAttemptSuccess
<1>5. CASE MarkOrderPaid(p)
  <2> DEFINE r == Paid(orders[job[p].o])
             j == [job[p] EXCEPT !.pc = "fulfil", !.snap = r]
  <2>1. CASE Fail(p)
    BY <1>a, <2>1, FailKnows
  <2>2. CASE Start(p, j) /\ orders' = [orders EXCEPT ![job[p].o] = r]
    <3>1. orders'[job[p].o] = r
      BY <1>a, <2>2 DEF IndInv, TypeOK
    <3>2. r.pay = "paid"
      BY <1>a, RowFields
    <3>3. j.pc = "fulfil" /\ j.o = job[p].o
      BY <1>a DEF Job
    <3>4. Start(p, j)
      BY <2>2
    <3> HIDE DEF r, j
    <3>5. KnowsNext(j)
      BY <3>1, <3>2, <3>3 DEF KnowsNext
    <3>6. QED
      BY <3>4, <3>5, JobKnows
  <2>3. QED
    BY <1>5, <2>1, <2>2 DEF MarkOrderPaid, SetOrder
<1>6. CASE Fulfil(p)
  <2>1. job[p].pc = "fulfil" /\ (Done(p) \/ Goto(p, "grant") \/ Goto(p, "entfail"))
    BY <1>6 DEF Fulfil, At
  <2>2. QED
    BY <1>a, <1>b, <2>1, FailKnows, GotoKnows
<1>7. CASE GrantFromPaidOrder(p)
  <2> DEFINE j == [job[p] EXCEPT !.pc = "mark"]
  <2>1. job[p].pc = "grant" /\ Start(p, j)
    BY <1>7 DEF GrantFromPaidOrder, At, Goto, Start
  <2>2. PICK o \in Orders : o = job[p].o
    BY <1>a
  <2>3. L!Grant(o) \/ (o \in granted /\ UNCHANGED ledger)
    BY <1>7, <2>2 DEF GrantFromPaidOrder
  <2>4. job[p].o \in granted'
    BY <2>2, <2>3 DEF L!Grant, ledger
  <2>5. j.pc = "mark" /\ j.o = job[p].o /\ j.snap = job[p].snap
    BY <1>a DEF Job
  <2>6. orders'[job[p].o].pay = "paid"
    BY <1>a, <2>1, StillKnows DEF KnowsNext
  <2> HIDE DEF j
  <2>7. KnowsNext(j)
    BY <2>4, <2>5, <2>6 DEF KnowsNext
  <2>8. QED
    BY <2>1, <2>7, JobKnows
<1>8. CASE MarkOrderFulfilled(p)
  <2>1. job[p].pc = "mark" /\ (Done(p) \/ Goto(p, "entfail"))
    BY <1>8 DEF MarkOrderFulfilled, At
  <2>2. QED
    BY <1>a, <1>b, <2>1, FailKnows, GotoKnows
<1>9. CASE SaveCallback(p)
  <2>1. Goto(p, "read") \/ Finish(p)
    BY <1>9 DEF SaveCallback
  <2>2. QED
    BY <1>a, <1>b, <2>1, FinishKnows, GotoKnows
<1>10. CASE ReadForCallback(p)
  <2>1. PICK l \in {"cberr", "lookup", "close"} :
           Start(p, [job[p] EXCEPT !.snap = orders[job[p].o], !.pc = l])
    BY <1>10 DEF ReadForCallback
  <2> DEFINE j == [job[p] EXCEPT !.snap = orders[job[p].o], !.pc = l]
  <2>2. j \in Job /\ j.o \in Orders /\ j.snap = orders[j.o] /\ j.pc = l
    BY <1>a, <2>1 DEF Job, PCs
  <2>3. Start(p, j)
    BY <2>1
  <2> HIDE DEF j
  <2>4. KnowsNext(j)
    BY <2>1, <2>2, ReadKnows
  <2>5. QED
    BY <2>3, <2>4, JobKnows
<1>11. CASE LookupTrade(p)
  <2> DEFINE r == IF job[p].kind = "MockCallback" THEN orders[job[p].o] ELSE job[p].snap
  <2>1. r \in Order /\ (SaysPaid(r) => orders[job[p].o].pay = "paid")
    BY <1>a
  <2>2. \/ Goto(p, "attempt")
        \/ Goto(p, "paid")
        \/ \E l \in {"cberr", "fulfil", "cbok"} :
              /\ Start(p, [job[p] EXCEPT !.snap = r, !.pc = l])
              /\ l = "fulfil" => NeedsFulfilment(r)
    BY <1>11 DEF LookupTrade
  <2> HIDE DEF r
  <2>3. ASSUME NEW l \in {"cberr", "fulfil", "cbok"}, l = "fulfil" => NeedsFulfilment(r),
               Start(p, [job[p] EXCEPT !.snap = r, !.pc = l])
        PROVE  KnowsInv'
    <3> DEFINE j == [job[p] EXCEPT !.snap = r, !.pc = l]
    <3>1. j.pc = l /\ j.o = job[p].o /\ j.snap = r
      BY <1>a DEF Job
    <3>2. SaysPaid(r) => orders'[job[p].o].pay = "paid"
      BY <1>a, <2>1, StillKnows
    <3>3. l = "fulfil" => SaysPaid(r)
      BY <2>3 DEF NeedsFulfilment, SaysPaid
    <3>4. Start(p, j)
      BY <2>3
    <3> HIDE DEF j
    <3>5. KnowsNext(j)
      BY <2>3, <3>1, <3>2, <3>3 DEF KnowsNext
    <3>6. QED
      BY <3>4, <3>5, JobKnows
  <2>4. QED
    BY <1>a, <1>b, <2>2, <2>3, GotoKnows
<1>12. CASE TradeQuery(p)
  <2> DEFINE j == [job[p] EXCEPT !.pc = "lookup", !.trade = AlipayTrade(job[p].o)]
  <2>1. Settle(p, job[p].snap) \/ Goto(p, "dclose") \/ Start(p, j)
    BY <1>12 DEF TradeQuery
  <2>2. j.pc = "lookup" /\ j.o = job[p].o /\ j.snap = job[p].snap
    BY <1>a DEF Job
  <2> HIDE DEF j
  <2>3. KnowsNext(j)
    BY <1>a, <2>2, StillKnows DEF KnowsNext
  <2>4. QED
    BY <1>a, <1>b, <2>1, <2>3, SettleKnows, GotoKnows, JobKnows
<1>13. CASE DetectClose(p)
  BY <1>13, <1>a, <1>b, GotoKnows DEF DetectClose
<1>14. CASE DetectReread(p)
  BY <1>14, <1>a, SettleKnows DEF DetectReread
<1>15. QED
  BY <1>1, <1>2, <1>3, <1>4, <1>5, <1>6, <1>7, <1>8, <1>9, <1>10, <1>11, <1>12, <1>13, <1>14 DEF Step

\* The start of a request: it knows what the row it has just read says.
LEMMA StartKnows ==
    ASSUME IndInv, [Next]_payVars, NEW p \in Procs,
           \/ \E o \in Orders, kind \in {"PayMock", "PayAlipay"} : StartPay(p, o, kind)
           \/ \E n \in NotifyIds, good \in BOOLEAN : StartAlipayCallback(p, n, good)
           \/ \E c \in MockIds, o \in Orders, t \in MockTrades, good \in BOOLEAN :
                 StartMockCallback(p, c, o, t, good)
           \/ \E o \in Orders : StartDetect(p, o) \/ StartRedetect(p, o) \/ StartRegrant(p, o)
    PROVE  KnowsInv'
<1>1. ASSUME NEW o \in Orders, NEW kind \in Kinds, NEW pc \in PCs, Start(p, NewJob(kind, pc, o)),
             \/ pc \in {"attempt", "close", "query"}
             \/ pc = "fulfil" /\ SaysPaid(orders[o])
      PROVE  KnowsInv'
  <2> DEFINE j == NewJob(kind, pc, o)
  <2>1. j \in Job /\ j.o = o
    BY NewJobType DEF IndInv
  <2>2. j.snap = orders[o] /\ j.pc = pc
    BY DEF NewJob, IdleJob
  <2>3. Start(p, j)
    BY <1>1
  <2> HIDE DEF j
  <2>4. KnowsNext(j)
    BY <1>1, <2>1, <2>2, ReadKnows
  <2>5. QED
    BY <2>3, <2>4, JobKnows
<1>2. ASSUME NEW j, Start(p, j), j.pc = "save", j.snap = AbsentOrder
      PROVE  KnowsInv'
  <2>1. ~SaysPaid(AbsentOrder)
    BY DEF SaysPaid, AbsentOrder
  <2>2. KnowsNext(j)
    BY <1>2, <2>1 DEF KnowsNext
  <2>3. QED
    BY <1>2, <2>2, JobKnows
<1>3. ASSUME NEW o \in Orders, NEW kind \in {"PayMock", "PayAlipay"}, StartPay(p, o, kind)
      PROVE  KnowsInv'
  <2>1. kind \in Kinds /\ "attempt" \in PCs /\ "close" \in PCs
    BY DEF Kinds, PCs
  <2>2. Start(p, NewJob(kind, "attempt", o)) \/ Start(p, NewJob(kind, "close", o))
    BY <1>3 DEF StartPay
  <2>3. QED
    BY <1>1, <2>1, <2>2
<1>4. ASSUME NEW n \in NotifyIds, NEW good \in BOOLEAN, StartAlipayCallback(p, n, good)
      PROVE  KnowsInv'
  <2> DEFINE o == NotifyOrder[n]
             j == [IdleJob EXCEPT !.pc = "save", !.kind = "AlipayCallback", !.o = o,
                                  !.trade = AlipayTrade(o), !.cb = n, !.good = good]
  <2>1. Start(p, j)
    BY <1>4 DEF StartAlipayCallback
  <2>2. j.pc = "save" /\ j.snap = AbsentOrder
    BY DEF IdleJob
  <2> HIDE DEF j
  <2>3. QED
    BY <1>2, <2>1, <2>2
<1>5. ASSUME NEW c \in MockIds, NEW o \in Orders, NEW t \in MockTrades, NEW good \in BOOLEAN,
             StartMockCallback(p, c, o, t, good)
      PROVE  KnowsInv'
  <2> DEFINE j == [IdleJob EXCEPT !.pc = "save", !.kind = "MockCallback", !.o = o,
                                  !.trade = t, !.cb = c, !.good = good]
  <2>1. Start(p, j)
    BY <1>5 DEF StartMockCallback
  <2>2. j.pc = "save" /\ j.snap = AbsentOrder
    BY DEF IdleJob
  <2> HIDE DEF j
  <2>3. QED
    BY <1>2, <2>1, <2>2
<1>6. ASSUME NEW o \in Orders, StartDetect(p, o) \/ StartRedetect(p, o) \/ StartRegrant(p, o)
      PROVE  KnowsInv'
  <2>1. {"Detect", "Redetect", "Regrant"} \subseteq Kinds /\ {"query", "fulfil"} \subseteq PCs
    BY DEF Kinds, PCs
  <2>2. \/ Start(p, NewJob("Detect", "query", o))
        \/ SaysPaid(orders[o]) /\ Start(p, NewJob("Redetect", "fulfil", o))
        \/ SaysPaid(orders[o]) /\ Start(p, NewJob("Regrant", "fulfil", o))
    BY <1>6 DEF StartDetect, StartRedetect, StartRegrant, NeedsFulfilment, SaysPaid
  <2>3. QED
    BY <1>1, <2>1, <2>2
<1>7. QED
  BY <1>3, <1>4, <1>5, <1>6

\* A failing call or a crash.
LEMMA FaultKnows ==
    ASSUME IndInv, [Next]_payVars, NEW p \in Procs, StoreError(p) \/ Crash(p)
    PROVE  KnowsInv'
<1>1. /\ job[p].pc # "idle" /\ job[p].snap \in Order
      /\ SaysPaid(job[p].snap) => orders[job[p].o].pay = "paid"
  BY DEF StoreError, Crash, Idle, IndInv, TypeOK, Job, KnowsInv
<1>2. \/ Goto(p, "entfail") /\ job[p].pc \in {"fulfil", "grant", "mark"}
      \/ Goto(p, "reread") \/ Finish(p) \/ Fail(p) \/ Settle(p, job[p].snap)
  BY DEF StoreError, Crash
<1>3. "entfail" \in PCs /\ "reread" \in PCs
  BY DEF PCs
<1>4. QED
  BY <1>1, <1>2, <1>3, GotoKnows, FinishKnows, FailKnows, SettleKnows

LEMMA KnowsStep ==
    ASSUME IndInv, [Next]_payVars
    PROVE  KnowsInv'
<1>1. CASE \/ UNCHANGED payVars
           \/ SwitchPlan
           \/ \E o \in Orders, ch \in Channels : CreateOrder(o, ch)
           \/ \E o \in Orders : CloseAdminOrder(o) \/ Expire(o) \/ Buyer(o)
  <2>1. job' = job
    BY <1>1 DEF payVars, SwitchPlan, CreateOrder, CloseAdminOrder, Expire, Buyer
  <2>2. QED
    BY <2>1, IdleKnows
<1>2. QED
  BY <1>1, StartKnows, HandlerKnows, FaultKnows DEF Next

-----------------------------------------------------------------------------
(* Theorems *)

\* The inductive invariant of the payment service.
THEOREM PaymentInvariant == Spec => []IndInv
<1>1. Init => IndInv
  <2> SUFFICES ASSUME Init PROVE OrderInv /\ KnowsInv
    BY PaymentTypeInit DEF IndInv
  <2>1. OrderInv
    BY DEF Init, OrderInv, SaysPaid, AbsentOrder, L!LedgerInit
  <2>2. KnowsInv
    BY DEF Init, KnowsInv, IdleJob
  <2>3. QED
    BY <2>1, <2>2
<1>2. IndInv /\ [Next]_payVars => IndInv'
  BY TypeStep, OrderStep, KnowsStep DEF IndInv
<1>3. QED
  BY <1>1, <1>2, PTL DEF Spec

\* No membership without payment and no fulfilled order without its membership,
\* whatever handlers overlap, fail, or act on stale rows.
THEOREM GrantsArePaid == Spec => []GrantsMatchPayments
<1>1. IndInv => GrantsMatchPayments
  BY DEF IndInv, OrderInv, GrantsMatchPayments
<1>2. QED
  BY <1>1, PaymentInvariant, PTL

\* An order moves only forward, and its payment is never withdrawn.
THEOREM OrdersMoveForward == Spec => OrderLifecycle
<1> DEFINE Fwd(o) == LET s == orders[o].st
                         t == orders'[o].st
                     IN  /\ t # s => \/ s = "absent" /\ t = "awaiting_payment"
                                     \/ s = "awaiting_payment" /\ t \in {"paid", "closed"}
                                     \/ s = "paid" /\ t \in {"fulfilled", "refunded"}
                                     \/ s = "fulfilled" /\ t = "refunded"
                         /\ orders[o].pay = "paid" => orders'[o].pay = "paid"
<1>1. IndInv /\ [Next]_payVars => [\A o \in Orders : Fwd(o)]_payVars
  BY StepWrites, Forward DEF IndInv
<1>2. QED
  BY <1>1, PaymentInvariant, PTL DEF Spec, OrderLifecycle

-----------------------------------------------------------------------------
(* Trades *)

\* A new attempt has no trade, and a trade goes to the attempt of the request that credits it.
Crediting(p) ==
    /\ MarkAttemptSuccess(p)
    /\ job[p].trade \notin UsedTrades
    /\ Goto(p, "paid")
    /\ attempts' = [attempts EXCEPT ![job[p].o] = [attempts[job[p].o] EXCEPT ![job[p].no] = job[p].trade]]

LEMMA AttemptSteps ==
    ASSUME TypeOK, JobInv, [Next]_payVars
    PROVE  \/ attempts' = attempts /\ ~(\E p \in Procs : CreateAttempt(p))
           \/ \E p \in Procs :
                 /\ CreateAttempt(p)
                 /\ attempts' = [attempts EXCEPT ![job[p].o] = Append(attempts[job[p].o], None)]
           \/ \E p \in Procs : Crediting(p)
<1>1. ASSUME NEW p \in Procs, CreateAttempt(p)
      PROVE  attempts' = [attempts EXCEPT ![job[p].o] = Append(attempts[job[p].o], None)]
  BY <1>1 DEF CreateAttempt, At, JobInv, TypeOK
<1>2. ASSUME NEW p \in Procs, MarkAttemptSuccess(p)
      PROVE  attempts' = attempts \/ Crediting(p)
  BY <1>2 DEF MarkAttemptSuccess, Crediting, At, JobInv, TypeOK
<1>3. ASSUME NEW p \in Procs, Step(p), ~CreateAttempt(p), ~MarkAttemptSuccess(p)
      PROVE  attempts' = attempts
  BY <1>3 DEF Step, CloseExpired, BuildPagePayURL, MarkOrderPaid, Fulfil, GrantFromPaidOrder,
              MarkOrderFulfilled, MarkOrderEntitlementFailed, SaveCallback, ReadForCallback,
              LookupTrade, MarkCallbackProcessed, TradeQuery, DetectClose, DetectReread
<1>4. ASSUME \/ UNCHANGED payVars
             \/ SwitchPlan
             \/ \E o \in Orders, ch \in Channels : CreateOrder(o, ch)
             \/ \E o \in Orders : CloseAdminOrder(o) \/ Expire(o) \/ Buyer(o)
             \/ \E p \in Procs : StoreError(p) \/ Crash(p)
             \/ \E p \in Procs, o \in Orders :
                   StartDetect(p, o) \/ StartRedetect(p, o) \/ StartRegrant(p, o)
             \/ \E p \in Procs, o \in Orders, kind \in {"PayMock", "PayAlipay"} :
                   StartPay(p, o, kind)
             \/ \E p \in Procs, n \in NotifyIds, good \in BOOLEAN :
                   StartAlipayCallback(p, n, good)
             \/ \E p \in Procs, c \in MockIds, o \in Orders, t \in MockTrades, good \in BOOLEAN :
                   StartMockCallback(p, c, o, t, good)
      PROVE  attempts' = attempts
  BY <1>4 DEF payVars, SwitchPlan, CreateOrder, CloseAdminOrder, Expire, Buyer, StoreError, Crash,
              StartDetect, StartRedetect, StartRegrant, StartPay, StartAlipayCallback,
              StartMockCallback
<1>5. QED
  BY <1>1, <1>2, <1>3, <1>4 DEF Next

\* The only ways the attempts of the orders change: none, a new one without a
\* trade, or a trade that no attempt has yet is recorded with one.
Credited ==
    \/ attempts' = attempts
    \/ \E o \in Orders : attempts' = [attempts EXCEPT ![o] = Append(attempts[o], None)]
    \/ \E o \in Orders, n \in Nat, t \in Attempt \ UsedTrades :
          attempts' = [attempts EXCEPT ![o] = [attempts[o] EXCEPT ![n] = t]]

LEMMA StepCredits ==
    ASSUME TypeOK, JobInv, [Next]_payVars
    PROVE  Credited
<1>1. ASSUME NEW p \in Procs, CreateAttempt(p)
      PROVE  job[p].o \in Orders
  BY <1>1 DEF CreateAttempt, At, JobInv
<1>2. ASSUME NEW p \in Procs, Crediting(p)
      PROVE  job[p].o \in Orders /\ job[p].trade \in Attempt /\ job[p].no \in Nat
  BY <1>2 DEF Crediting, MarkAttemptSuccess, At, JobInv, TypeOK, Job
<1>3. QED
  BY <1>1, <1>2, AttemptSteps DEF Credited, Crediting

\* A trade is credited once, because every credit passes the unique index.
LEMMA CreditsOnce ==
    ASSUME TypeOK, TradeCreditedOnce, Credited
    PROVE  TradeCreditedOnce'
<1>1. CASE attempts' = attempts
  BY <1>1 DEF TradeCreditedOnce
<1>2. ASSUME NEW o \in Orders, attempts' = [attempts EXCEPT ![o] = Append(attempts[o], None)]
      PROVE  TradeCreditedOnce'
  <2>1. \A x \in Orders : \A i \in DOMAIN attempts'[x] :
           attempts'[x][i] # None => i \in DOMAIN attempts[x] /\ attempts'[x][i] = attempts[x][i]
    BY <1>2 DEF TypeOK, Attempt
  <2>2. QED
    BY <2>1 DEF TradeCreditedOnce
<1>3. ASSUME NEW o \in Orders, NEW n \in Nat, NEW t \in Attempt \ UsedTrades,
             attempts' = [attempts EXCEPT ![o] = [attempts[o] EXCEPT ![n] = t]]
      PROVE  TradeCreditedOnce'
  <2>1. \A x \in Orders : \A i \in DOMAIN attempts'[x] :
           /\ i \in DOMAIN attempts[x]
           /\ attempts'[x][i] = IF x = o /\ i = n THEN t ELSE attempts[x][i]
    BY <1>3 DEF TypeOK
  <2>2. \A x \in Orders : \A i \in DOMAIN attempts[x] : t # None => attempts[x][i] # t
    BY <1>3 DEF UsedTrades, TradesOf
  <2>3. QED
    BY <2>1, <2>2 DEF TradeCreditedOnce
<1>4. QED
  BY <1>1, <1>2, <1>3 DEF Credited

\* No trade pays twice, for two orders or two attempts, however many callbacks
\* and detections credit it at the same time.
THEOREM CreditedOnce == Spec => []TradeCreditedOnce
<1>1. Init => TradeCreditedOnce
  BY DEF Init, TradeCreditedOnce
<1>2. TypeOK /\ JobInv /\ TradeCreditedOnce /\ [Next]_payVars => TradeCreditedOnce'
  BY StepCredits, CreditsOnce
<1>3. QED
  BY <1>1, <1>2, PaymentTyping, PTL DEF Spec

-----------------------------------------------------------------------------
(* Books *)

\* Trades that do not concern Alipay are nobody's claim on it.
Genuine(o, t, tr) == t.ch = "alipay" => t = AlipayTrade(o) /\ tr[o] = "success"

Credits == [o \in Orders |-> TradesOf(o)]

\* What a request with job j may rely on, given the credits and Alipay's trades: a
\* callback has its own id and trade, a trade about to be credited is genuine, and one
\* that is past its credit is among the credits.
Claim(j, cr, tr) ==
    /\ j.pc \in {"save", "read", "cbok", "cberr"} => j.kind \in {"AlipayCallback", "MockCallback"}
    /\ j.kind = "AlipayCallback" => /\ j.cb \in NotifyIds
                                    /\ NotifyOrder[j.cb] = j.o
                                    /\ j.trade = AlipayTrade(j.o)
    /\ j.kind = "MockCallback" => j.cb \in MockIds
    /\ \/ j.kind \in {"AlipayCallback", "MockCallback"}
       \/ j.pc \in {"lookup", "success", "paid"}
       \/ j.pc = "attempt" /\ j.kind \notin {"PayMock", "PayAlipay"}
       => j.trade \in Trade /\ Genuine(j.o, j.trade, tr)
    /\ j.pc = "lookup" /\ j.kind = "Detect" => j.trade = AlipayTrade(j.o)
    /\ \/ j.pc = "paid"
       \/ j.kind = "AlipayCallback" /\ j.pc \in {"fulfil", "grant", "mark", "cbok"}
       => j.trade \in cr[j.o]

ClaimsInv == \A p \in Procs : job[p].pc # "idle" => Claim(job[p], Credits, trade)

\* The attempt a request is about to credit is pending, and nobody else's.
SlotInv ==
    /\ \A p \in Procs : job[p].pc = "success" =>
          /\ job[p].no \in DOMAIN attempts[job[p].o]
          /\ attempts[job[p].o][job[p].no] = None
    /\ \A p, q \in Procs : /\ p # q
                           /\ job[p].pc = "success" /\ job[q].pc = "success"
                           /\ job[p].o = job[q].o
                           => job[p].no # job[q].no

MoneyInv == PaymentsAreBacked /\ ProcessedIsCredited

\* What a step that changes p's job to j owes the next state.
ClaimNext(j) == j.pc # "idle" => Claim(j, Credits', trade')

TradesInv == ClaimsInv /\ SlotInv /\ MoneyInv

LEMMA CreditsOf ==
    ASSUME NEW o \in Orders
    PROVE  /\ Credits[o] = TradesOf(o)
           /\ Credits'[o] = TradesOf(o)'
  BY DEF Credits

\* A trade that succeeded at Alipay stays so.
LEMMA TradesStand ==
    ASSUME TypeOK, [Next]_payVars, NEW o \in Orders, trade[o] = "success"
    PROVE  trade'[o] = "success"
<1>1. ASSUME NEW x \in Orders, Buyer(x) PROVE trade'[o] = "success"
  BY <1>1 DEF Buyer, TypeOK
<1>2. ASSUME NEW p \in Procs, Step(p) PROVE trade'[o] = "success"
  BY <1>2 DEF Step, CloseExpired, CreateAttempt, BuildPagePayURL, MarkAttemptSuccess, MarkOrderPaid,
        Fulfil, GrantFromPaidOrder, MarkOrderFulfilled, MarkOrderEntitlementFailed, SaveCallback,
        ReadForCallback, LookupTrade, MarkCallbackProcessed, TradeQuery, DetectClose, DetectReread
<1>3. CASE UNCHANGED trade
  BY <1>3
<1>4. ASSUME Next
      PROVE  \/ \E x \in Orders : Buyer(x)
             \/ \E p \in Procs : Step(p)
             \/ UNCHANGED trade
  BY <1>4 DEF Next, SwitchPlan, CreateOrder, CloseAdminOrder, Expire, StoreError, Crash,
        StartDetect, StartRedetect, StartRegrant, StartPay, StartAlipayCallback, StartMockCallback
<1> QED BY <1>1, <1>2, <1>3, <1>4 DEF payVars

\* Credits are never lost, and every new one is the trade of a request that credits it.
LEMMA CreditsGrow ==
    ASSUME TypeOK, JobInv, SlotInv, [Next]_payVars, NEW o \in Orders
    PROVE  /\ Credits[o] \subseteq Credits'[o]
           /\ \A t \in Credits'[o] \ Credits[o] :
                 \E p \in Procs : Crediting(p) /\ job[p].o = o /\ job[p].trade = t
<1> USE CreditsOf
<1>1. CASE attempts' = attempts
  BY <1>1 DEF TradesOf
<1>2. ASSUME NEW p \in Procs, job[p].o \in Orders,
             attempts' = [attempts EXCEPT ![job[p].o] = Append(attempts[job[p].o], None)]
      PROVE  Credits'[o] = Credits[o]
  <2>1. \A i \in DOMAIN attempts[o] : i \in DOMAIN attempts'[o] /\ attempts'[o][i] = attempts[o][i]
    BY <1>2 DEF TypeOK
  <2>2. \A i \in DOMAIN attempts'[o] :
           attempts'[o][i] # None => i \in DOMAIN attempts[o] /\ attempts'[o][i] = attempts[o][i]
    BY <1>2 DEF TypeOK, Attempt
  <2>3. /\ Credits[o] = {attempts[o][i] : i \in DOMAIN attempts[o]} \ {None}
        /\ Credits'[o] = {attempts'[o][i] : i \in DOMAIN attempts'[o]} \ {None}
    BY DEF TradesOf
  <2>4. \A x : x \in Credits[o] <=> x \in Credits'[o]
    BY ONLY <2>1, <2>2, <2>3
  <2>5. QED
    BY ONLY <2>3, <2>4
<1>3. ASSUME NEW p \in Procs, Crediting(p)
      PROVE  /\ Credits[o] \subseteq Credits'[o]
             /\ \A t \in Credits'[o] \ Credits[o] : job[p].o = o /\ job[p].trade = t
  <2>1. /\ job[p].o \in Orders /\ job[p].no \in Nat /\ job[p].trade \in Attempt
        /\ attempts[job[p].o][job[p].no] = None
    BY <1>3 DEF Crediting, MarkAttemptSuccess, At, SlotInv, TypeOK, JobInv, Job
  <2>2. \A i \in DOMAIN attempts[o] :
           /\ i \in DOMAIN attempts'[o]
           /\ attempts'[o][i] = IF o = job[p].o /\ i = job[p].no THEN job[p].trade ELSE attempts[o][i]
    BY <1>3, <2>1 DEF Crediting, TypeOK
  <2>3. \A i \in DOMAIN attempts'[o] : i \in DOMAIN attempts[o]
    BY <1>3, <2>1 DEF Crediting, TypeOK
  <2> QED BY <2>1, <2>2, <2>3 DEF TradesOf
<1>4. QED
  <2>1. CASE \E p \in Procs : /\ CreateAttempt(p)
                              /\ attempts' = [attempts EXCEPT ![job[p].o] = Append(attempts[job[p].o], None)]
    BY <2>1, <1>2 DEF CreateAttempt, At, JobInv
  <2> QED BY <1>1, <2>1, <1>3, AttemptSteps

LEMMA CreditTaken ==
    ASSUME TypeOK, JobInv, SlotInv, NEW p \in Procs, Crediting(p), job[p].trade # None
    PROVE  job[p].trade \in Credits'[job[p].o]
<1>1. job[p].o \in Orders /\ job[p].no \in DOMAIN attempts[job[p].o]
  BY DEF Crediting, MarkAttemptSuccess, At, SlotInv, JobInv
<1>2. /\ job[p].no \in DOMAIN attempts'[job[p].o]
      /\ attempts'[job[p].o][job[p].no] = job[p].trade
  BY <1>1 DEF Crediting, TypeOK
<1> QED BY <1>1, <1>2, CreditsOf DEF TradesOf

-----------------------------------------------------------------------------
(* Claims *)

\* A job's claim outlasts the steps of others.
LEMMA StillClaims ==
    ASSUME TypeOK, JobInv, TradesInv, [Next]_payVars, NEW p \in Procs, job[p].pc # "idle"
    PROVE  Claim(job[p], Credits', trade')
<1>1. Claim(job[p], Credits, trade) /\ job[p].o \in Orders
  BY DEF TradesInv, ClaimsInv, JobInv
<1>2. Credits[job[p].o] \subseteq Credits'[job[p].o]
  BY <1>1, CreditsGrow DEF TradesInv
<1>3. trade[job[p].o] = "success" => trade'[job[p].o] = "success"
  BY <1>1, TradesStand
<1> QED BY <1>1, <1>2, <1>3 DEF Claim, Genuine

\* What a step leaves p with is right, and only CreateAttempt leads to a credit.
GoodJob(p, j) == Start(p, j) /\ ClaimNext(j) /\ (j.pc = "success" => CreateAttempt(p))
Well(p) == \E j : GoodJob(p, j)

LEMMA GotoWell ==
    ASSUME TypeOK, JobInv, TradesInv, [Next]_payVars, NEW p \in Procs, job[p].pc # "idle",
           NEW l, Goto(p, l),
           \/ l \in {"reread", "entfail", "dclose"}
           \/ l = "cberr" /\ IsCallback(p)
           \/ l \in {"grant", "mark"} /\ job[p].pc \in {"fulfil", "grant"}
           \/ l = "cbok" /\ IsCallback(p) /\ job[p].pc \in {"fulfil", "mark"}
           \/ l = "read" /\ job[p].pc = "save"
           \/ l = "attempt" /\ job[p].pc = "lookup"
           \/ l = "paid" /\ job[p].pc \in {"success", "lookup"} /\ job[p].trade \in Credits'[job[p].o]
    PROVE  Well(p)
<1> DEFINE j == [job[p] EXCEPT !.pc = l]
<1>1. Claim(job[p], Credits', trade') /\ job[p] \in Job
  BY StillClaims DEF TypeOK
<1>2. /\ j.pc = l /\ j.kind = job[p].kind /\ j.o = job[p].o
      /\ j.cb = job[p].cb /\ j.trade = job[p].trade
  BY <1>1 DEF Job
<1>3. Start(p, j)
  BY DEF Start, Goto
<1> HIDE DEF j
<1>4. Claim(j, Credits', trade')
  BY <1>1, <1>2 DEF Claim, Genuine, IsCallback
<1>5. j.pc # "success"
  BY <1>2
<1> QED BY <1>3, <1>4, <1>5 DEF Well, GoodJob, ClaimNext

LEMMA FinishWell ==
    ASSUME NEW p \in Procs, Finish(p)
    PROVE  Well(p)
<1>1. GoodJob(p, IdleJob)
  BY DEF Finish, Start, GoodJob, ClaimNext, IdleJob
<1> QED BY <1>1 DEF Well

LEMMA FailWell ==
    ASSUME TypeOK, JobInv, TradesInv, [Next]_payVars, NEW p \in Procs, job[p].pc # "idle",
           Fail(p) \/ (Done(p) /\ job[p].pc \in {"fulfil", "mark"})
    PROVE  Well(p)
<1>1. \/ Finish(p) \/ Goto(p, "reread")
      \/ Goto(p, "cberr") /\ IsCallback(p)
      \/ Goto(p, "cbok") /\ IsCallback(p) /\ job[p].pc \in {"fulfil", "mark"}
  BY DEF Fail, Done
<1> QED BY <1>1, FinishWell, GotoWell

LEMMA SettleWell ==
    ASSUME TypeOK, JobInv, NEW p \in Procs, NEW r, Settle(p, r)
    PROVE  Well(p)
<1> DEFINE j == [job[p] EXCEPT !.pc = "fulfil", !.kind = "Redetect", !.snap = r]
<1>1. CASE Finish(p)
  BY <1>1, FinishWell
<1>2. CASE Start(p, j)
  <2>1. j.pc = "fulfil" /\ j.kind = "Redetect"
    BY DEF TypeOK, Job
  <2>2. Start(p, j)
    BY <1>2
  <2> HIDE DEF j
  <2>3. GoodJob(p, j)
    BY <2>1, <2>2 DEF GoodJob, ClaimNext, Claim
  <2> QED BY <2>3 DEF Well
<1> QED BY <1>1, <1>2 DEF Settle

\* One step of a handler.
LEMMA HandlerWell ==
    ASSUME TypeOK, JobInv, TradesInv, [Next]_payVars, NEW p \in Procs, Step(p)
    PROVE  Well(p)
<1>a. /\ job[p].pc # "idle" /\ job[p] \in Job /\ job[p].o \in Orders
      /\ Claim(job[p], Credits', trade') /\ Claim(job[p], Credits, trade)
  <2>1. job[p].pc # "idle"
    BY DEF Step, At, CloseExpired, CreateAttempt, BuildPagePayURL, MarkAttemptSuccess, MarkOrderPaid,
       Fulfil, GrantFromPaidOrder, MarkOrderFulfilled, MarkOrderEntitlementFailed, SaveCallback,
       ReadForCallback, LookupTrade, MarkCallbackProcessed, TradeQuery, DetectClose, DetectReread
  <2> QED BY <2>1, StillClaims DEF TypeOK, JobInv, TradesInv, ClaimsInv
<1>1. CASE CloseExpired(p) \/ MarkOrderEntitlementFailed(p)
  BY <1>1, <1>a, FailWell DEF CloseExpired, MarkOrderEntitlementFailed
<1>2. CASE CreateAttempt(p)
  <2> DEFINE n == Len(attempts[job[p].o]) + 1
             t == IF job[p].kind = "PayMock" THEN MockTrade(job[p].o, n) ELSE job[p].trade
             l == IF job[p].kind = "PayAlipay" THEN "url" ELSE "success"
             j == [job[p] EXCEPT !.pc = l, !.no = n, !.trade = t]
  <2>1. Start(p, j) /\ job[p].pc = "attempt"
    BY <1>2 DEF CreateAttempt, At
  <2>2. /\ j.pc = l /\ j.kind = job[p].kind /\ j.o = job[p].o /\ j.cb = job[p].cb /\ j.trade = t
    BY <1>a DEF Job
  <2>3. attempts[job[p].o] \in Seq(Attempt)
    BY <1>a DEF TypeOK
  <2>4. n \in Nat
    BY <2>3
  <2> HIDE DEF n
  <2>5. MockTrade(job[p].o, n) \in Trade /\ MockTrade(job[p].o, n).ch = "mock"
    BY <1>a, <2>4 DEF MockTrade, Trade, Channels
  <2> HIDE DEF j
  <2>6. Claim(j, Credits', trade')
    <3>1. CASE job[p].kind = "PayMock"
      BY <3>1, <2>2, <2>5 DEF Claim, Genuine
    <3>2. CASE job[p].kind = "PayAlipay"
      BY <3>2, <2>2 DEF Claim, Genuine
    <3>3. CASE job[p].kind \notin {"PayMock", "PayAlipay"}
      <4>1. j.trade = job[p].trade /\ j.pc = "success"
        BY <3>3, <2>2
      <4> QED BY <3>3, <4>1, <2>1, <2>2, <1>a DEF Claim, Genuine
    <3> QED BY <3>1, <3>2, <3>3
  <2> QED BY <1>2, <2>1, <2>6 DEF Well, GoodJob, ClaimNext
<1>3. CASE BuildPagePayURL(p) \/ MarkCallbackProcessed(p)
  BY <1>3, FinishWell DEF BuildPagePayURL, MarkCallbackProcessed
<1>4. CASE MarkAttemptSuccess(p)
  <2>1. job[p].trade \in Trade /\ job[p].pc = "success"
    BY <1>4, <1>a DEF MarkAttemptSuccess, At, Claim
  <2>2. CASE Fail(p)
    BY <2>2, <1>a, FailWell
  <2>3. CASE Crediting(p)
    <3>1. job[p].trade # None
      BY <2>1, TradeAssumption
    <3>2. job[p].trade \in Credits'[job[p].o] /\ Goto(p, "paid")
      BY <2>3, <3>1, CreditTaken DEF TradesInv, Crediting
    <3> QED BY <3>2, <2>1, <1>a, GotoWell
  <2>4. Fail(p) \/ Crediting(p)
    BY <1>4, <1>a DEF MarkAttemptSuccess, Crediting, TypeOK
  <2> QED BY <2>2, <2>3, <2>4
<1>5. CASE MarkOrderPaid(p)
  <2> DEFINE r == Paid(orders[job[p].o])
             j == [job[p] EXCEPT !.pc = "fulfil", !.snap = r]
  <2>1. CASE Fail(p)
    BY <1>a, <2>1, FailWell
  <2>2. CASE Start(p, j)
    <3>1. /\ j.pc = "fulfil" /\ j.kind = job[p].kind /\ j.o = job[p].o
          /\ j.cb = job[p].cb /\ j.trade = job[p].trade /\ job[p].pc = "paid"
      BY <1>5, <1>a DEF Job, MarkOrderPaid, At
    <3>2. Start(p, j)
      BY <2>2
    <3> HIDE DEF j
    <3>3. Claim(j, Credits', trade')
      BY <3>1, <1>a DEF Claim, Genuine
    <3> QED BY <3>1, <3>2, <3>3 DEF Well, GoodJob, ClaimNext
  <2>3. QED
    BY <1>5, <2>1, <2>2 DEF MarkOrderPaid
<1>6. CASE Fulfil(p)
  <2>1. job[p].pc = "fulfil" /\ (Done(p) \/ Goto(p, "grant") \/ Goto(p, "entfail"))
    BY <1>6 DEF Fulfil, At
  <2> QED BY <1>a, <2>1, FailWell, GotoWell
<1>7. CASE GrantFromPaidOrder(p)
  BY <1>7, <1>a, GotoWell DEF GrantFromPaidOrder, At
<1>8. CASE MarkOrderFulfilled(p)
  <2>1. job[p].pc = "mark" /\ (Done(p) \/ Goto(p, "entfail"))
    BY <1>8 DEF MarkOrderFulfilled, At
  <2> QED BY <1>a, <2>1, FailWell, GotoWell
<1>9. CASE SaveCallback(p)
  <2>1. job[p].pc = "save" /\ (Goto(p, "read") \/ Finish(p))
    BY <1>9 DEF SaveCallback, At
  <2> QED BY <1>a, <2>1, FinishWell, GotoWell
<1>10. CASE ReadForCallback(p)
  <2>1. PICK l \in {"cberr", "lookup", "close"} :
           Start(p, [job[p] EXCEPT !.snap = orders[job[p].o], !.pc = l])
    BY <1>10 DEF ReadForCallback
  <2> DEFINE j == [job[p] EXCEPT !.snap = orders[job[p].o], !.pc = l]
  <2>2. /\ j.pc = l /\ j.kind = job[p].kind /\ j.o = job[p].o
        /\ j.cb = job[p].cb /\ j.trade = job[p].trade
    BY <1>a DEF Job
  <2>3. Start(p, j) /\ job[p].pc = "read"
    BY <1>10, <2>1 DEF ReadForCallback, At
  <2> HIDE DEF j
  <2>4. job[p].kind \in {"AlipayCallback", "MockCallback"}
    BY <2>3, <1>a DEF Claim
  <2>5. Claim(j, Credits', trade')
    BY <2>1, <2>2, <2>3, <2>4, <1>a DEF Claim, Genuine
  <2> QED BY <2>1, <2>2, <2>3, <2>5 DEF Well, GoodJob, ClaimNext
<1>11. CASE LookupTrade(p)
  <2> DEFINE r == IF job[p].kind = "MockCallback" THEN orders[job[p].o] ELSE job[p].snap
  <2>0. job[p].pc = "lookup"
    BY <1>11 DEF LookupTrade, At
  <2>1. \/ Goto(p, "attempt")
        \/ job[p].trade \in UsedTrades /\ job[p].kind = "Detect" /\ Goto(p, "paid")
        \/ \E l \in {"cberr", "fulfil", "cbok"} :
              /\ Start(p, [job[p] EXCEPT !.snap = r, !.pc = l])
              /\ IsCallback(p)
              /\ l # "cberr" => job[p].trade \in TradesOf(job[p].o)
    BY <1>11 DEF LookupTrade
  <2> HIDE DEF r
  <2>2. CASE job[p].trade \in UsedTrades /\ job[p].kind = "Detect" /\ Goto(p, "paid")
    <3>1. job[p].trade = AlipayTrade(job[p].o)
      BY <2>0, <2>2, <1>a DEF Claim
    <3>2. PICK x \in Orders : job[p].trade \in TradesOf(x)
      BY <2>2 DEF UsedTrades
    <3>3. job[p].trade = AlipayTrade(x)
      BY <3>1, <3>2 DEF TradesInv, MoneyInv, PaymentsAreBacked, AlipayTrade
    <3>4. x = job[p].o
      BY <3>1, <3>3 DEF AlipayTrade
    <3>5. job[p].trade \in Credits'[job[p].o]
      BY <1>a, <3>2, <3>4, CreditsOf, CreditsGrow DEF TradesInv
    <3> QED BY <2>0, <2>2, <3>5, <1>a, GotoWell
  <2>3. ASSUME NEW l \in {"cberr", "fulfil", "cbok"}, IsCallback(p),
               l # "cberr" => job[p].trade \in TradesOf(job[p].o),
               Start(p, [job[p] EXCEPT !.snap = r, !.pc = l])
        PROVE  Well(p)
    <3> DEFINE j == [job[p] EXCEPT !.snap = r, !.pc = l]
    <3>1. /\ j.pc = l /\ j.kind = job[p].kind /\ j.o = job[p].o
          /\ j.cb = job[p].cb /\ j.trade = job[p].trade
      BY <1>a DEF Job
    <3>2. Start(p, j)
      BY <2>3
    <3> HIDE DEF j
    <3>3. l # "cberr" => job[p].trade \in Credits'[job[p].o]
      BY <1>a, <2>3, CreditsOf, CreditsGrow DEF TradesInv
    <3>4. Claim(j, Credits', trade')
      BY <2>3, <3>1, <3>3, <1>a DEF Claim, Genuine, IsCallback
    <3> QED BY <2>3, <3>1, <3>2, <3>4 DEF Well, GoodJob, ClaimNext
  <2> QED BY <1>a, <2>0, <2>1, <2>2, <2>3, GotoWell
<1>12. CASE TradeQuery(p)
  <2> DEFINE j == [job[p] EXCEPT !.pc = "lookup", !.trade = AlipayTrade(job[p].o)]
  <2>1. CASE Settle(p, job[p].snap) \/ Goto(p, "dclose")
    BY <1>a, <2>1, SettleWell, GotoWell
  <2>2. CASE trade[job[p].o] = "success" /\ trade' = trade /\ Start(p, j)
    <3>1. /\ j.pc = "lookup" /\ j.kind = job[p].kind /\ j.o = job[p].o
          /\ j.cb = job[p].cb /\ j.trade = AlipayTrade(job[p].o)
      BY <1>a DEF Job
    <3>2. Start(p, j)
      BY <2>2
    <3>3. AlipayTrade(job[p].o) \in Trade
      BY <1>a DEF AlipayTrade, Trade, Channels
    <3> HIDE DEF j
    <3>4. Claim(j, Credits', trade')
      BY <2>2, <3>1, <3>3, <1>a DEF Claim, Genuine
    <3> QED BY <3>1, <3>2, <3>4 DEF Well, GoodJob, ClaimNext
  <2> QED BY <1>12, <2>1, <2>2 DEF TradeQuery
<1>13. CASE DetectClose(p)
  BY <1>13, <1>a, GotoWell DEF DetectClose
<1>14. CASE DetectReread(p)
  BY <1>14, SettleWell DEF DetectReread
<1>15. QED
  BY <1>1, <1>2, <1>3, <1>4, <1>5, <1>6, <1>7, <1>8, <1>9, <1>10, <1>11, <1>12, <1>13, <1>14 DEF Step

\* The start of a request.
LEMMA StartWell ==
    ASSUME TypeOK, JobInv, TradesInv, [Next]_payVars, NEW p \in Procs,
           \/ \E o \in Orders, kind \in {"PayMock", "PayAlipay"} : StartPay(p, o, kind)
           \/ \E n \in NotifyIds, good \in BOOLEAN : StartAlipayCallback(p, n, good)
           \/ \E c \in MockIds, o \in Orders, t \in MockTrades, good \in BOOLEAN :
                 StartMockCallback(p, c, o, t, good)
           \/ \E o \in Orders : StartDetect(p, o) \/ StartRedetect(p, o) \/ StartRegrant(p, o)
    PROVE  Well(p)
<1>1. ASSUME NEW o \in Orders, NEW kind \in {"PayMock", "PayAlipay", "Detect", "Redetect", "Regrant"},
             NEW pc \in {"attempt", "close", "query", "fulfil"},
             pc = "attempt" => kind \in {"PayMock", "PayAlipay"}, Start(p, NewJob(kind, pc, o))
      PROVE  Well(p)
  <2> DEFINE j == NewJob(kind, pc, o)
  <2>1. j.pc = pc /\ j.kind = kind
    BY DEF NewJob, IdleJob
  <2>2. Start(p, j)
    BY <1>1
  <2> HIDE DEF j
  <2>3. Claim(j, Credits', trade')
    BY <1>1, <2>1 DEF Claim
  <2> QED BY <2>1, <2>2, <2>3 DEF Well, GoodJob, ClaimNext
<1>2. ASSUME NEW o \in Orders, NEW kind \in {"PayMock", "PayAlipay"}, StartPay(p, o, kind)
      PROVE  Well(p)
  <2>1. Start(p, NewJob(kind, "attempt", o)) \/ Start(p, NewJob(kind, "close", o))
    BY <1>2 DEF StartPay
  <2> QED BY <1>1, <2>1
<1>3. ASSUME NEW o \in Orders, StartDetect(p, o) \/ StartRedetect(p, o) \/ StartRegrant(p, o)
      PROVE  Well(p)
  <2>1. \/ Start(p, NewJob("Detect", "query", o))
        \/ Start(p, NewJob("Redetect", "fulfil", o))
        \/ Start(p, NewJob("Regrant", "fulfil", o))
    BY <1>3 DEF StartDetect, StartRedetect, StartRegrant
  <2> QED BY <1>1, <2>1
<1>4. ASSUME NEW n \in NotifyIds, NEW good \in BOOLEAN, StartAlipayCallback(p, n, good)
      PROVE  Well(p)
  <2> DEFINE o == NotifyOrder[n]
             j == [IdleJob EXCEPT !.pc = "save", !.kind = "AlipayCallback", !.o = o,
                                  !.trade = AlipayTrade(o), !.cb = n, !.good = good]
  <2>1. Start(p, j) /\ trade' = trade /\ trade[o] = "success"
    BY <1>4 DEF StartAlipayCallback
  <2>2. /\ j.pc = "save" /\ j.kind = "AlipayCallback" /\ j.o = o /\ j.trade = AlipayTrade(o)
        /\ j.cb = n
    BY DEF IdleJob
  <2>3. o \in Orders
    BY PaymentAssumption
  <2> HIDE DEF j, o
  <2>4. AlipayTrade(o) \in Trade
    BY <2>3 DEF AlipayTrade, Trade, Channels
  <2>5. NotifyOrder[n] = o
    BY DEF o
  <2>6. Claim(j, Credits', trade')
    BY <2>1, <2>2, <2>4, <2>5 DEF Claim, Genuine
  <2> QED BY <2>1, <2>2, <2>6 DEF Well, GoodJob, ClaimNext
<1>5. ASSUME NEW c \in MockIds, NEW o \in Orders, NEW t \in MockTrades, NEW good \in BOOLEAN,
             StartMockCallback(p, c, o, t, good)
      PROVE  Well(p)
  <2> DEFINE j == [IdleJob EXCEPT !.pc = "save", !.kind = "MockCallback", !.o = o,
                                  !.trade = t, !.cb = c, !.good = good]
  <2>1. Start(p, j)
    BY <1>5 DEF StartMockCallback
  <2>2. j.pc = "save" /\ j.kind = "MockCallback" /\ j.o = o /\ j.trade = t /\ j.cb = c
    BY DEF IdleJob
  <2> HIDE DEF j
  <2>3. t \in Trade /\ t.ch = "mock"
    BY PaymentAssumption DEF MockTrades, MockTrade, Trade, Channels
  <2>4. Claim(j, Credits', trade')
    BY <2>2, <2>3 DEF Claim, Genuine
  <2> QED BY <2>1, <2>2, <2>4 DEF Well, GoodJob, ClaimNext
<1> QED BY <1>2, <1>3, <1>4, <1>5

\* A failing call or a crash.
LEMMA FaultWell ==
    ASSUME TypeOK, JobInv, TradesInv, [Next]_payVars, NEW p \in Procs, StoreError(p) \/ Crash(p)
    PROVE  Well(p)
<1>1. job[p].pc # "idle"
  BY DEF StoreError, Crash, Idle
<1>2. \/ Goto(p, "entfail") \/ Goto(p, "reread")
      \/ Finish(p) \/ Fail(p) \/ Settle(p, job[p].snap)
  BY DEF StoreError, Crash
<1> QED BY <1>1, <1>2, GotoWell, FinishWell, FailWell, SettleWell

LEMMA JobsWell ==
    ASSUME TypeOK, JobInv, TradesInv, [Next]_payVars
    PROVE  job' = job \/ \E p \in Procs : Well(p)
<1>1. CASE \/ UNCHANGED payVars
           \/ SwitchPlan
           \/ \E o \in Orders, ch \in Channels : CreateOrder(o, ch)
           \/ \E o \in Orders : CloseAdminOrder(o) \/ Expire(o) \/ Buyer(o)
  BY <1>1 DEF payVars, SwitchPlan, CreateOrder, CloseAdminOrder, Expire, Buyer
<1> QED BY <1>1, StartWell, HandlerWell, FaultWell DEF Next

LEMMA ClaimsStep ==
    ASSUME TypeOK, JobInv, TradesInv, [Next]_payVars
    PROVE  ClaimsInv'
<1>1. ASSUME NEW q \in Procs, job'[q] = job[q], job[q].pc # "idle"
      PROVE  Claim(job'[q], Credits', trade')
  BY <1>1, StillClaims
<1>2. ASSUME NEW p \in Procs, NEW j, GoodJob(p, j), NEW q \in Procs, job'[q].pc # "idle"
      PROVE  Claim(job'[q], Credits', trade')
  <2>1. CASE q = p
    <3>1. job'[q] = j
      BY <1>2, <2>1 DEF GoodJob, Start, TypeOK
    <3> QED BY <1>2, <3>1 DEF GoodJob, ClaimNext
  <2>2. CASE q # p
    <3>1. job'[q] = job[q]
      BY <1>2, <2>2 DEF GoodJob, Start, TypeOK
    <3> QED BY <1>1, <1>2, <3>1
  <2> QED BY <2>1, <2>2
<1>3. \A q \in Procs : job'[q].pc # "idle" => Claim(job'[q], Credits', trade')
  BY <1>1, <1>2, JobsWell DEF Well
<1> QED BY <1>3 DEF ClaimsInv

-----------------------------------------------------------------------------
(* Slots and money *)

\* Who is at a credit was there before, or has just made its attempt.
LEMMA Creditors ==
    ASSUME TypeOK, JobInv, TradesInv, [Next]_payVars, NEW q \in Procs, job'[q].pc = "success"
    PROVE  job'[q] = job[q] \/ CreateAttempt(q)
<1>1. ASSUME NEW p \in Procs, NEW j, GoodJob(p, j)
      PROVE  job'[q] = job[q] \/ CreateAttempt(q)
  BY <1>1 DEF GoodJob, Start, TypeOK
<1> QED BY <1>1, JobsWell DEF Well

LEMMA SlotStep ==
    ASSUME TypeOK, JobInv, TradesInv, [Next]_payVars
    PROVE  SlotInv'
<1> USE DEF TradesInv
<1>1. CASE attempts' = attempts /\ ~(\E p \in Procs : CreateAttempt(p))
  <2>1. \A q \in Procs : job'[q].pc = "success" => job'[q] = job[q]
    BY <1>1, Creditors
  <2> QED BY <1>1, <2>1 DEF SlotInv
<1>2. ASSUME NEW p \in Procs, CreateAttempt(p),
             attempts' = [attempts EXCEPT ![job[p].o] = Append(attempts[job[p].o], None)]
      PROVE  SlotInv'
  <2> DEFINE o == job[p].o
             n == Len(attempts[o]) + 1
  <2>1. o \in Orders /\ job[p] \in Job
    BY <1>2 DEF CreateAttempt, At, JobInv, TypeOK
  <2>2. attempts[o] \in Seq(Attempt)
    BY <2>1 DEF TypeOK
  <2>3. attempts'[o] = Append(attempts[o], None) /\ \A x \in Orders \ {o} : attempts'[x] = attempts[x]
    BY <1>2, <2>1 DEF TypeOK
  <2>4. /\ n \in DOMAIN attempts'[o] /\ attempts'[o][n] = None /\ n \notin DOMAIN attempts[o]
        /\ \A i \in DOMAIN attempts[o] : i \in DOMAIN attempts'[o] /\ attempts'[o][i] = attempts[o][i]
    BY <2>2, <2>3
  <2>5. job'[p].o = o /\ job'[p].no = n /\ \A q \in Procs \ {p} : job'[q] = job[q]
    <3> DEFINE j == [job[p] EXCEPT !.pc = IF job[p].kind = "PayAlipay" THEN "url" ELSE "success",
                                   !.no = n,
                                   !.trade = IF job[p].kind = "PayMock" THEN MockTrade(o, n) ELSE @]
    <3>1. Start(p, j)
      BY <1>2 DEF CreateAttempt
    <3>2. j.o = o /\ j.no = n
      BY <2>1 DEF Job
    <3> HIDE DEF j, n, o
    <3> QED BY <3>1, <3>2 DEF Start, TypeOK
  <2>6. \A q \in Procs : job'[q].pc = "success" =>
           q = p \/ (job'[q] = job[q] /\ job[q].o \in Orders)
    BY <2>5 DEF JobInv
  <2>7. \A q \in Procs : job'[q].pc = "success" =>
           /\ job'[q].no \in DOMAIN attempts'[job'[q].o]
           /\ attempts'[job'[q].o][job'[q].no] = None
    <3> HIDE DEF o, n
    <3> QED BY <2>3, <2>4, <2>5, <2>6 DEF SlotInv
  <2>8. \A q, z \in Procs : q # z /\ job'[q].pc = "success" /\ job'[z].pc = "success"
                            /\ job'[q].o = job'[z].o => job'[q].no # job'[z].no
    <3> HIDE DEF o, n
    <3> QED BY <2>4, <2>5, <2>6 DEF SlotInv
  <2> QED BY <2>7, <2>8 DEF SlotInv
<1>3. ASSUME NEW p \in Procs, Crediting(p)
      PROVE  SlotInv'
  <2>1. job[p].pc = "success" /\ job[p] \in Job /\ job[p].o \in Orders /\ Goto(p, "paid")
    BY <1>3 DEF Crediting, MarkAttemptSuccess, At, JobInv, TypeOK
  <2>2. job'[p].pc = "paid" /\ \A q \in Procs \ {p} : job'[q] = job[q]
    BY <2>1 DEF Goto, TypeOK, Job
  <2>3. \A x \in Orders : \A i \in DOMAIN attempts[x] :
           /\ i \in DOMAIN attempts'[x]
           /\ (x # job[p].o \/ i # job[p].no) => attempts'[x][i] = attempts[x][i]
    BY <1>3, <2>1 DEF Crediting, TypeOK
  <2>4. \A q \in Procs : job'[q].pc = "success" =>
           q # p /\ job'[q] = job[q] /\ job[q].o \in Orders
    BY <2>2 DEF JobInv
  <2> QED BY <2>1, <2>3, <2>4 DEF SlotInv
<1> QED BY <1>1, <1>2, <1>3, AttemptSteps

\* An order becomes paid only by a request that is past its credit.
LEMMA PaidSteps ==
    ASSUME TypeOK, JobInv, TradesInv, [Next]_payVars, NEW o \in Orders, orders'[o].pay = "paid"
    PROVE  Credits'[o] # {}
<1>1. CASE orders[o].pay = "paid"
  BY <1>1, CreditsOf, CreditsGrow DEF TradesInv, MoneyInv, PaymentsAreBacked
<1>2. CASE orders[o].pay # "paid"
  <2>1. PICK p \in Procs : job[p].pc = "paid" /\ job[p].o = o
    <3>1. orders[o] \in Order /\ Written(o)
      BY StepWrites DEF TypeOK
    <3>2. ASSUME orders'[o] = [orders[o] EXCEPT !.ent = "failed"] PROVE FALSE
      BY <1>2, <3>1, <3>2 DEF Order
    <3>3. ASSUME orders'[o] = [orders[o] EXCEPT !.st = "closed", !.pay = "failed"] PROVE FALSE
      BY <3>1, <3>3 DEF Order
    <3> QED BY <1>2, <3>1, <3>2, <3>3 DEF Written, CanFulfil
  <2>2. Claim(job[p], Credits', trade')
    BY <2>1, StillClaims
  <2> QED BY <2>1, <2>2 DEF Claim
<1> QED BY <1>1, <1>2

LEMMA BackedStep ==
    ASSUME TypeOK, JobInv, TradesInv, [Next]_payVars
    PROVE  PaymentsAreBacked'
<1>1. ASSUME NEW o \in Orders, NEW t \in Credits'[o], t.ch = "alipay"
      PROVE  t = AlipayTrade(o) /\ trade'[o] = "success"
  <2>1. CASE t \in Credits[o]
    <3>1. t = AlipayTrade(o) /\ trade[o] = "success"
      BY <1>1, <2>1, CreditsOf DEF TradesInv, MoneyInv, PaymentsAreBacked
    <3> QED BY <3>1, TradesStand
  <2>2. CASE t \notin Credits[o]
    <3>1. PICK p \in Procs : Crediting(p) /\ job[p].o = o /\ job[p].trade = t
      BY <2>2, CreditsGrow DEF TradesInv
    <3>2. job[p].pc = "success"
      BY <3>1 DEF Crediting, MarkAttemptSuccess, At
    <3>3. Claim(job[p], Credits', trade')
      BY <3>2, StillClaims
    <3> QED BY <1>1, <3>1, <3>2, <3>3 DEF Claim, Genuine
  <2> QED BY <2>1, <2>2
<1>2. \A o \in Orders : Credits'[o] = TradesOf(o)'
  BY CreditsOf
<1>3. \A o \in Orders : orders'[o].pay = "paid" => Credits'[o] # {}
  BY PaidSteps
<1> QED BY <1>1, <1>2, <1>3 DEF PaymentsAreBacked, AlipayTrade

LEMMA ProcessedStep ==
    ASSUME TypeOK, JobInv, TradesInv, [Next]_payVars
    PROVE  ProcessedIsCredited'
<1> SUFFICES ASSUME NEW n \in NotifyIds, callbacks'[n] = "processed"
             PROVE  AlipayTrade(NotifyOrder[n]) \in Credits'[NotifyOrder[n]]
  BY PaymentAssumption, CreditsOf DEF ProcessedIsCredited, AlipayTrade
<1>1. NotifyOrder[n] \in Orders
  BY PaymentAssumption
<1>2. CASE callbacks[n] = "processed"
  <2>1. AlipayTrade(NotifyOrder[n]) \in Credits[NotifyOrder[n]]
    BY <1>1, <1>2, CreditsOf DEF TradesInv, MoneyInv, ProcessedIsCredited
  <2> QED BY <1>1, <2>1, CreditsGrow DEF TradesInv
<1>3. ASSUME NEW p \in Procs, MarkCallbackProcessed(p), job[p].pc = "cbok", job[p].cb = n
      PROVE  AlipayTrade(NotifyOrder[n]) \in Credits'[NotifyOrder[n]]
  <2>1. Claim(job[p], Credits', trade')
    BY <1>3, StillClaims
  <2>2. job[p].kind = "AlipayCallback"
    BY <1>3, <2>1, PaymentAssumption DEF Claim
  <2> QED BY <1>3, <2>1, <2>2 DEF Claim
<1>4. ASSUME NEW p \in Procs, MarkCallbackProcessed(p) \/ SaveCallback(p), callbacks[n] # "processed"
      PROVE  MarkCallbackProcessed(p) /\ job[p].pc = "cbok" /\ job[p].cb = n
  BY <1>4 DEF MarkCallbackProcessed, SaveCallback, At, TypeOK
<1>5. callbacks' = callbacks \/ \E p \in Procs : MarkCallbackProcessed(p) \/ SaveCallback(p)
  BY DEF Next, payVars, SwitchPlan, CreateOrder, CloseAdminOrder, Expire, Buyer, StoreError, Crash,
     StartDetect, StartRedetect, StartRegrant, StartPay, StartAlipayCallback, StartMockCallback,
     Step, CloseExpired, CreateAttempt, BuildPagePayURL, MarkAttemptSuccess, MarkOrderPaid, Fulfil,
     GrantFromPaidOrder, MarkOrderFulfilled, MarkOrderEntitlementFailed,
     ReadForCallback, LookupTrade, TradeQuery, DetectClose, DetectReread
<1> QED BY <1>2, <1>3, <1>4, <1>5

\* A paid order has a trade, an Alipay trade is credited to its own order and only if the
\* buyer really paid it, and a notification answered "success" has its trade credited.
THEOREM Books == Spec => []BooksAgree
<1>1. Init => TradesInv
  <2> SUFFICES ASSUME Init PROVE TradesInv
    OBVIOUS
  <2>1. ClaimsInv /\ SlotInv
    BY DEF Init, IdleJob, ClaimsInv, SlotInv
  <2>2. PaymentsAreBacked
    BY DEF Init, AbsentOrder, PaymentsAreBacked, TradesOf
  <2>3. ProcessedIsCredited
    BY DEF Init, ProcessedIsCredited
  <2> QED BY <2>1, <2>2, <2>3 DEF TradesInv, MoneyInv
<1>2. TypeOK /\ JobInv /\ TradesInv /\ [Next]_payVars => TradesInv'
  BY ClaimsStep, SlotStep, BackedStep, ProcessedStep DEF TradesInv, MoneyInv
<1>3. TypeOK /\ TradesInv => BooksAgree
  BY DEF TradesInv, MoneyInv, BooksAgree
<1> QED BY <1>1, <1>2, <1>3, PaymentTyping, PTL DEF Spec


-----------------------------------------------------------------------------
(* Refund. *)

\* The statuses of a refund about which Alipay has been, or is being, asked.
Decided == {"processing", "success", "failed"}

\* Where a request is on its own with the refund it has approved.
Acting == {"process", "call", "success", "failed"}

\* What a refund request knows, from the row it read or from where it is.
Fits(q) ==
    LET j == rjob[q]
    IN  /\ j.pc # "idle" => j.r \in Refunds /\ j.o \in Orders
        /\ j.pc \in {"lock", "insert"} => refunds[j.r].st = "none"
        /\ j.pc \notin {"idle", "lock", "insert"} =>
              /\ refunds[j.r].st # "none"
              /\ refunds[j.r].o = j.o /\ refunds[j.r].amt = j.amt
        /\ j.pc = "process" => refunds[j.r].st = "approved"
        /\ j.pc \in {"call", "success", "failed"} => refunds[j.r].st = "processing"
        /\ j.pc = "call" => fund[j.r] = "none"
        /\ j.pc \in {"success", "revoke", "refunded"} => fund[j.r] = "done"
        /\ j.pc \in {"revoke", "refunded"} => j.amt = Amount[j.o]

\* A new refund number belongs to one request, and so does an approved refund.
Apart(q, x) ==
    /\ rjob[q].pc \in {"lock", "insert"} /\ rjob[x].pc # "idle" => rjob[q].r # rjob[x].r
    /\ rjob[q].pc \in Acting /\ rjob[x].pc \in Acting => rjob[q].r # rjob[x].r

\* The rows of the refunds and the orders tell what Alipay did.
BooksInv ==
    /\ \A r \in Refunds :
          /\ refunds[r].st # "none" => refunds[r].o \in Orders
          /\ refunds[r].st \notin Decided => fund[r] = "none"
          /\ refunds[r].st = "success" => fund[r] = "done"
    /\ \A o \in Orders : orders[o].st = "refunded" =>
          \E r \in Refunds : /\ refunds[r].o = o /\ refunds[r].st # "none"
                             /\ fund[r] = "done" /\ refunds[r].amt = Amount[o]

RefundInv ==
    /\ RefundTypeOK
    /\ IndInv
    /\ \A q \in RProcs : Fits(q)
    /\ \A q, x \in RProcs : q # x => Apart(q, x)
    /\ BooksInv

-----------------------------------------------------------------------------
(* How requests and rows change *)

RPCs == {"idle", "lock", "insert", "approve", "process", "call", "success", "failed",
         "revoke", "refunded"}

\* The other requests stay where they are.
Only(q) == \A x \in RProcs \ {q} : rjob'[x] = rjob[x]

LEMMA GotoFields ==
    ASSUME RefundTypeOK, NEW q \in RProcs, NEW l \in RPCs, RGoto(q, l)
    PROVE  /\ rjob' \in [RProcs -> RefundJob] /\ Only(q)
           /\ rjob'[q].pc = l /\ rjob'[q].r = rjob[q].r /\ rjob'[q].o = rjob[q].o
           /\ rjob'[q].amt = rjob[q].amt
<1>1. rjob \in [RProcs -> RefundJob] /\ rjob[q] \in RefundJob
  BY DEF RefundTypeOK
<1> DEFINE j == [rjob[q] EXCEPT !.pc = l]
<1>2. /\ j \in RefundJob /\ j.pc = l /\ j.r = rjob[q].r /\ j.o = rjob[q].o
      /\ j.amt = rjob[q].amt
  BY <1>1 DEF RefundJob, RPCs
<1>3. rjob' = [rjob EXCEPT ![q] = j]
  BY DEF RGoto
<1> HIDE DEF j
<1>4. rjob'[q] = j /\ Only(q) /\ rjob' \in [RProcs -> RefundJob]
  BY <1>1, <1>2, <1>3 DEF Only
<1>5. QED
  BY <1>2, <1>4

LEMMA StartFields ==
    ASSUME RefundTypeOK, NEW q \in RProcs, NEW j \in RefundJob, RStart(q, j)
    PROVE  rjob' \in [RProcs -> RefundJob] /\ Only(q) /\ rjob'[q] = j
BY DEF RefundTypeOK, RStart, Only

LEMMA FinishFields ==
    ASSUME RefundTypeOK, NEW q \in RProcs, RFinish(q)
    PROVE  /\ rjob' \in [RProcs -> RefundJob] /\ Only(q)
           /\ rjob'[q].pc = "idle"
<1>1. IdleRefund \in RefundJob /\ IdleRefund.pc = "idle"
  BY DEF IdleRefund, RefundJob
<1> HIDE DEF IdleRefund
<1>2. QED
  BY <1>1 DEF RefundTypeOK, RFinish, Only

\* The moves of a refund's status.
Moves(r, s) ==
    LET t == refunds[r].st
    IN  \/ t = "pending_review" /\ s \in {"approved", "rejected"}
        \/ t = "approved" /\ s = "processing"
        \/ t = "processing" /\ s = "failed"
        \/ t = "processing" /\ s = "success" /\ fund[r] = "done"

LEMMA SetFields ==
    ASSUME RefundTypeOK, NEW r \in Refunds, NEW s, SetRefund(r, s), Moves(r, s)
    PROVE  /\ refunds' \in [Refunds -> RefundRow]
           /\ \A x \in Refunds : /\ refunds'[x].o = refunds[x].o
                                 /\ refunds'[x].amt = refunds[x].amt
                                 /\ refunds'[x].st = IF x = r THEN s ELSE refunds[x].st
<1>1. refunds \in [Refunds -> RefundRow] /\ refunds[r] \in RefundRow
  BY DEF RefundTypeOK
<1> DEFINE n == [refunds[r] EXCEPT !.st = s]
<1>2. n \in RefundRow /\ n.st = s /\ n.o = refunds[r].o /\ n.amt = refunds[r].amt
  BY <1>1 DEF RefundRow, Moves, Decided
<1>3. refunds' = [refunds EXCEPT ![r] = n]
  BY DEF SetRefund
<1> HIDE DEF n
<1>4. \A x \in Refunds : refunds'[x] = IF x = r THEN n ELSE refunds[x]
  BY <1>1, <1>3
<1>5. refunds' \in [Refunds -> RefundRow]
  BY <1>1, <1>2, <1>3
<1>6. QED
  BY <1>2, <1>4, <1>5

\* A refund that is set to another status keeps what the requests that do not act on
\* it know of it, and so do the books.
LEMMA SetKeeps ==
    ASSUME RefundInv, NEW r \in Refunds, NEW s, SetRefund(r, s), Moves(r, s),
           fund' = fund, orders' = orders
    PROVE  /\ \A x \in RProcs : rjob'[x] = rjob[x] /\ (rjob[x].pc \in Acting => rjob[x].r # r)
                                => Fits(x)'
           /\ BooksInv'
           /\ refunds' \in [Refunds -> RefundRow]
           /\ \A x \in Refunds : /\ refunds'[x].o = refunds[x].o
                                 /\ refunds'[x].amt = refunds[x].amt
                                 /\ refunds'[x].st = IF x = r THEN s ELSE refunds[x].st
<1>1. /\ refunds' \in [Refunds -> RefundRow]
      /\ \A x \in Refunds : /\ refunds'[x].o = refunds[x].o
                            /\ refunds'[x].amt = refunds[x].amt
                            /\ refunds'[x].st = IF x = r THEN s ELSE refunds[x].st
  BY SetFields DEF RefundInv
<1>2. ASSUME NEW x \in RProcs, rjob'[x] = rjob[x], rjob[x].pc \in Acting => rjob[x].r # r
      PROVE  Fits(x)'
  <2>1. Fits(x)
    BY DEF RefundInv
  <2>2. refunds[r].st # "none" /\ refunds'[r].st # "none"
    BY <1>1 DEF Moves
  <2>3. QED
    BY <1>1, <1>2, <2>1, <2>2 DEF Fits, Acting
<1>3. BooksInv'
  <2>1. BooksInv
    BY DEF RefundInv
  <2>2. \A x \in Refunds :
          /\ refunds'[x].st # "none" => refunds'[x].o \in Orders
          /\ refunds'[x].st \notin Decided => fund'[x] = "none"
          /\ refunds'[x].st = "success" => fund'[x] = "done"
    BY <1>1, <2>1 DEF BooksInv, Moves, Decided
  <2>3. \A x \in Refunds : refunds[x].st # "none" => refunds'[x].st # "none"
    BY <1>1 DEF Moves
  <2>4. QED
    BY <1>1, <2>1, <2>2, <2>3 DEF BooksInv
<1>4. QED
  BY <1>1, <1>2, <1>3

LEMMA RowsKept ==
    ASSUME RefundInv, UNCHANGED <<refunds, fund>>
    PROVE  \A x \in RProcs : rjob'[x] = rjob[x] => Fits(x)'
BY DEF RefundInv, Fits

LEMMA BooksKept ==
    ASSUME RefundInv, UNCHANGED <<refunds, fund, orders>>
    PROVE  BooksInv'
BY DEF RefundInv, BooksInv

-----------------------------------------------------------------------------
(* Payment under refunds *)

LEMMA PayStep ==
    ASSUME IndInv, [Next]_payVars
    PROVE  IndInv'
BY TypeStep, OrderStep, KnowsStep DEF IndInv

LEMMA RevokeKeeps ==
    ASSUME IndInv, NEW o \in Orders, L!Revoke(o),
           UNCHANGED <<orders, expired, attempts, callbacks, planOn, trade, payURLs, job, faults>>
    PROVE  IndInv'
<1>1. TypeOK'
  BY DEF IndInv, TypeOK, L!Revoke, L!LedgerTypeOK
<1>2. JobInv' /\ OrderInv' /\ KnowsInv'
  BY DEF IndInv, JobInv, OrderInv, KnowsInv, L!Revoke
<1>3. QED
  BY <1>1, <1>2 DEF IndInv

LEMMA FaultKeeps ==
    ASSUME IndInv, faults > 0, faults' = faults - 1,
           UNCHANGED <<orders, expired, attempts, callbacks, planOn, trade, payURLs, job, ledger>>
    PROVE  IndInv'
<1>1. TypeOK'
  BY DEF IndInv, TypeOK, L!LedgerTypeOK, ledger
<1>2. JobInv' /\ OrderInv' /\ KnowsInv'
  BY DEF IndInv, JobInv, OrderInv, KnowsInv, ledger
<1>3. QED
  BY <1>1, <1>2 DEF IndInv

LEMMA RefundedKeeps ==
    ASSUME IndInv, NEW o \in Orders, CanRefund(orders[o]),
           orders' = [orders EXCEPT ![o] = [orders[o] EXCEPT !.st = "refunded", !.ent = "revoked"]],
           UNCHANGED <<expired, attempts, callbacks, planOn, trade, payURLs, job, faults, ledger>>
    PROVE  /\ IndInv'
           /\ \A x \in Orders : orders'[x].st = IF x = o THEN "refunded" ELSE orders[x].st
           /\ \A x \in Orders : orders'[x].pay = orders[x].pay
<1>1. orders \in [Orders -> Order] /\ orders[o] \in Order
  BY DEF IndInv, TypeOK
<1> DEFINE n == [orders[o] EXCEPT !.st = "refunded", !.ent = "revoked"]
<1>2. n \in Order /\ n.st = "refunded" /\ n.pay = orders[o].pay
  BY <1>1 DEF Order
<1> HIDE DEF n
<1>3. /\ orders' \in [Orders -> Order]
      /\ \A x \in Orders : orders'[x] = IF x = o THEN n ELSE orders[x]
  BY <1>1, <1>2 DEF n
<1>4. orders[o].pay = "paid"
  BY DEF IndInv, OrderInv, SaysPaid, CanRefund
<1>5. TypeOK'
  BY <1>3 DEF IndInv, TypeOK, L!LedgerTypeOK, ledger
<1>6. \A x \in Orders : orders'[x].pay = orders[x].pay
  BY <1>2, <1>3
<1>7. OrderInv'
  <2>1. OrderInv /\ granted' = granted
    BY DEF IndInv, ledger
  <2>2. QED
    BY <1>2, <1>3, <1>4, <2>1 DEF OrderInv, SaysPaid
<1>8. JobInv' /\ KnowsInv'
  BY <1>6 DEF IndInv, JobInv, KnowsInv, ledger
<1>9. QED
  BY <1>2, <1>3, <1>5, <1>6, <1>7, <1>8 DEF IndInv

-----------------------------------------------------------------------------
(* Steps *)

\* It is enough to look at the request that moved.
LEMMA Assemble ==
    ASSUME RefundInv, NEW q \in RProcs, Only(q),
           RefundTypeOK', IndInv', Fits(q)', BooksInv',
           \A x \in RProcs \ {q} : rjob'[x] = rjob[x] => Fits(x)',
           \A x \in RProcs \ {q} : Apart(q, x)' /\ Apart(x, q)'
    PROVE  RefundInv'
<1>1. \A x, y \in RProcs \ {q} : x # y => Apart(x, y)'
  BY DEF RefundInv, Apart, Only
<1>2. QED
  BY <1>1 DEF RefundInv, Only

\* A request that does not begin to insert or to act on a refund meets nobody new.
LEMMA ApartKept ==
    ASSUME RefundInv, NEW q \in RProcs, Only(q),
           \/ rjob'[q].pc = "idle"
           \/ /\ rjob[q].pc # "idle" /\ rjob'[q].r = rjob[q].r
              /\ rjob'[q].pc \in {"lock", "insert"} => rjob[q].pc \in {"lock", "insert"}
              /\ rjob'[q].pc \in Acting => rjob[q].pc \in Acting
    PROVE  \A x \in RProcs \ {q} : Apart(q, x)' /\ Apart(x, q)'
BY DEF RefundInv, Apart, Only, Acting

LEMMA PayVarsKept == UNCHANGED payVars => /\ UNCHANGED <<orders, job, granted, faults>>
                                          /\ [Next]_payVars
BY DEF payVars, ledger

LEMMA TypesKept ==
    ASSUME RefundInv, IndInv', refunds' \in [Refunds -> RefundRow],
           fund' \in [Refunds -> {"none", "done", "refused"}],
           orderLock' \in [Orders -> RProcs \cup {None}],
           rjob' \in [RProcs -> RefundJob]
    PROVE  RefundTypeOK'
BY DEF RefundTypeOK, IndInv

LEMMA Typed ==
    ASSUME RefundInv
    PROVE  /\ refunds \in [Refunds -> RefundRow]
           /\ fund \in [Refunds -> {"none", "done", "refused"}]
           /\ orderLock \in [Orders -> RProcs \cup {None}]
           /\ rjob \in [RProcs -> RefundJob]
BY DEF RefundInv, RefundTypeOK

LEMMA Unlocked ==
    ASSUME RefundInv, NEW q \in RProcs, Unlock(q)
    PROVE  orderLock' \in [Orders -> RProcs \cup {None}]
BY DEF RefundInv, RefundTypeOK, Unlock

LEMMA StartStepR ==
    ASSUME RefundInv, NEW q \in RProcs, NEW r \in Refunds,
           \/ \E o \in Orders : \E amt \in 1 .. Amount[o] : StartRefund(q, r, o, amt)
           \/ StartApprove(q, r)
    PROVE  RefundInv'
<1> USE RefundAssumption
<1>1. /\ UNCHANGED <<payVars, refunds, fund, orderLock>> /\ rjob[q].pc = "idle"
  BY DEF StartRefund, StartApprove, RArrives, RAt
<1>2. IndInv' /\ BooksInv'
  BY <1>1, PayVarsKept, PayStep, BooksKept DEF RefundInv
<1>3. ASSUME NEW j \in RefundJob, RStart(q, j), Fits(q)',
             \A x \in RProcs \ {q} : Apart(q, x)' /\ Apart(x, q)'
      PROVE  RefundInv'
  <2>1. rjob' \in [RProcs -> RefundJob] /\ Only(q)
    BY <1>3, StartFields DEF RefundInv
  <2>2. RefundTypeOK'
    BY <1>1, <1>2, <2>1, Typed, TypesKept
  <2>3. QED
    BY <1>1, <1>2, <1>3, <2>1, <2>2, RowsKept, Assemble
<1>4. ASSUME NEW o \in Orders, NEW amt \in 1 .. Amount[o], StartRefund(q, r, o, amt)
      PROVE  RefundInv'
  <2> DEFINE j == [pc |-> "lock", r |-> r, o |-> o, amt |-> amt]
  <2>1. j \in RefundJob /\ RStart(q, j) /\ refunds[r].st = "none" /\ \A x \in RProcs : rjob[x].r # r
    BY <1>4 DEF RefundJob, StartRefund
  <2>2. j.pc = "lock" /\ j.r = r /\ j.o = o
    OBVIOUS
  <2> HIDE DEF j
  <2>3. rjob'[q] = j /\ Only(q)
    BY <2>1, StartFields DEF RefundInv
  <2>4. Fits(q)'
    BY <1>1, <2>1, <2>2, <2>3 DEF Fits
  <2>5. \A x \in RProcs \ {q} : Apart(q, x)' /\ Apart(x, q)'
    BY <2>1, <2>2, <2>3 DEF Apart, Only, Acting
  <2>6. QED
    BY <1>3, <2>1, <2>4, <2>5
<1>5. ASSUME StartApprove(q, r) PROVE RefundInv'
  <2> DEFINE j == [pc |-> "approve", r |-> r, o |-> refunds[r].o, amt |-> refunds[r].amt]
  <2>1. /\ refunds[r] \in RefundRow /\ refunds[r].o \in Orders /\ refunds[r].st # "none"
        /\ RStart(q, j)
    BY <1>5, Typed DEF RefundInv, BooksInv, StartApprove
  <2>2. /\ j \in RefundJob /\ j.pc = "approve" /\ j.r = r /\ j.o = refunds[r].o
        /\ j.amt = refunds[r].amt
    BY <2>1 DEF RefundJob, RefundRow
  <2> HIDE DEF j
  <2>3. rjob'[q] = j /\ Only(q) /\ RStart(q, j)
    BY <2>1, <2>2, StartFields DEF RefundInv
  <2>4. Fits(q)'
    BY <1>1, <2>1, <2>2, <2>3 DEF Fits
  <2>5. ASSUME NEW x \in RProcs \ {q}, rjob[x].pc \in {"lock", "insert"}
        PROVE  rjob[x].r # r
    BY <2>1, <2>5 DEF RefundInv, Fits
  <2>6. \A x \in RProcs \ {q} : Apart(q, x)' /\ Apart(x, q)'
    BY <2>2, <2>3, <2>5 DEF Apart, Only, Acting
  <2>7. QED
    BY <1>3, <2>2, <2>3, <2>4, <2>6
<1>6. QED
  BY <1>4, <1>5

\* A request that writes nothing but its own state.
LEMMA QuietStep ==
    ASSUME RefundInv, NEW q \in RProcs,
           UNCHANGED <<refunds, fund>>, IndInv', BooksInv',
           orderLock' \in [Orders -> RProcs \cup {None}],
           \/ RFinish(q)
           \/ rjob[q].pc = "lock" /\ RGoto(q, "insert")
           \/ rjob[q].pc = "revoke" /\ RGoto(q, "refunded")
    PROVE  RefundInv'
<1>1. \A x \in RProcs : rjob'[x] = rjob[x] => Fits(x)'
  BY RowsKept
<1>2. CASE RFinish(q)
  <2>1. rjob' \in [RProcs -> RefundJob] /\ Only(q) /\ rjob'[q].pc = "idle"
    BY <1>2, FinishFields DEF RefundInv
  <2>2. Fits(q)'
    BY <2>1 DEF Fits
  <2>3. RefundTypeOK'
    BY <2>1, Typed, TypesKept
  <2>4. \A x \in RProcs \ {q} : Apart(q, x)' /\ Apart(x, q)'
    BY <2>1, ApartKept
  <2>5. QED
    BY <1>1, <2>1, <2>2, <2>3, <2>4, Assemble
<1>3. ASSUME NEW l \in {"insert", "refunded"}, RGoto(q, l),
             rjob[q].pc = IF l = "insert" THEN "lock" ELSE "revoke"
      PROVE  RefundInv'
  <2>1. /\ rjob' \in [RProcs -> RefundJob] /\ Only(q)
        /\ rjob'[q].pc = l /\ rjob'[q].r = rjob[q].r /\ rjob'[q].o = rjob[q].o
        /\ rjob'[q].amt = rjob[q].amt
    BY <1>3, GotoFields DEF RefundInv, RPCs
  <2>2. Fits(q)'
    <3>1. Fits(q)
      BY DEF RefundInv
    <3>2. QED
      BY <1>3, <2>1, <3>1 DEF Fits
  <2>3. RefundTypeOK'
    BY <2>1, Typed, TypesKept
  <2>4. \A x \in RProcs \ {q} : Apart(q, x)' /\ Apart(x, q)'
    BY <1>3, <2>1, ApartKept DEF Acting
  <2>5. QED
    BY <1>1, <2>1, <2>2, <2>3, <2>4, Assemble
<1>4. QED
  BY <1>2, <1>3

\* A request that writes the status of its refund and goes on or ends: it acts on the
\* refund, or approves one that nobody acts on yet.
LEMMA WriteStep ==
    ASSUME RefundInv, NEW q \in RProcs, NEW s,
           rjob[q].pc \in Acting \/ (rjob[q].pc = "approve" /\ s = "approved"), SetRefund(rjob[q].r, s), Moves(rjob[q].r, s),
           UNCHANGED <<payVars, fund, orderLock>>,
           \/ RFinish(q)
           \/ s = "approved" /\ RGoto(q, "process")
           \/ s = "processing" /\ RGoto(q, "call")
           \/ /\ s = "success" /\ RGoto(q, "revoke")
              /\ rjob[q].amt = Amount[rjob[q].o] /\ fund[rjob[q].r] = "done"
    PROVE  RefundInv'
<1> DEFINE r == rjob[q].r
<1>1. r \in Refunds /\ rjob[q].o \in Orders /\ Fits(q)
  BY DEF RefundInv, Fits, Acting
<1>2. IndInv' /\ orders' = orders
  BY PayVarsKept, PayStep DEF RefundInv
<1>0. ASSUME NEW x \in RProcs \ {q}, rjob[x].pc \in Acting PROVE rjob[x].r # r
  <2>1. Fits(x) /\ Apart(q, x)
    BY DEF RefundInv
  <2>2. CASE rjob[q].pc \in Acting
    BY <1>0, <2>1, <2>2 DEF Apart
  <2>3. CASE s = "approved"
    <3>1. refunds[r].st = "pending_review"
      BY <2>3 DEF Moves
    <3>2. refunds[rjob[x].r].st \in {"approved", "processing"}
      BY <1>0, <2>1 DEF Fits, Acting
    <3>3. QED
      BY <3>1, <3>2
  <2>4. QED
    BY <2>2, <2>3
<1>3. /\ \A x \in RProcs \ {q} : rjob'[x] = rjob[x] => Fits(x)'
      /\ BooksInv'
      /\ refunds' \in [Refunds -> RefundRow]
      /\ \A x \in Refunds : /\ refunds'[x].o = refunds[x].o
                            /\ refunds'[x].amt = refunds[x].amt
                            /\ refunds'[x].st = IF x = r THEN s ELSE refunds[x].st
  BY <1>0, <1>1, <1>2, SetKeeps
<1>4. CASE RFinish(q)
  <2>1. rjob' \in [RProcs -> RefundJob] /\ Only(q) /\ rjob'[q].pc = "idle"
    BY <1>4, FinishFields DEF RefundInv
  <2>2. Fits(q)'
    BY <2>1 DEF Fits
  <2>3. RefundTypeOK'
    BY <1>2, <1>3, <2>1, Typed, TypesKept
  <2>4. \A x \in RProcs \ {q} : Apart(q, x)' /\ Apart(x, q)'
    BY <2>1, ApartKept
  <2>5. QED
    BY <1>2, <1>3, <2>1, <2>2, <2>3, <2>4, Assemble
<1>5. ASSUME NEW l \in {"process", "call", "revoke"}, RGoto(q, l),
             l = "process" => s = "approved",
             l = "call" => s = "processing",
             l = "revoke" => /\ s = "success" /\ fund[r] = "done"
                             /\ rjob[q].amt = Amount[rjob[q].o]
      PROVE  RefundInv'
  <2>1. /\ rjob' \in [RProcs -> RefundJob] /\ Only(q)
        /\ rjob'[q].pc = l /\ rjob'[q].r = r /\ rjob'[q].o = rjob[q].o
        /\ rjob'[q].amt = rjob[q].amt
    BY <1>5, GotoFields DEF RefundInv, RPCs
  <2>2. l = "call" => refunds[r].st = "approved" /\ fund[r] = "none"
    BY <1>1, <1>5 DEF Moves, RefundInv, BooksInv, Decided
  <2>3. Fits(q)'
    <3>1. refunds[r].st # "none" /\ refunds[r].o = rjob[q].o /\ refunds[r].amt = rjob[q].amt
      BY <1>1 DEF Fits, Acting
    <3>2. QED
      BY <1>1, <1>3, <1>5, <2>1, <2>2, <3>1 DEF Fits
  <2>4. RefundTypeOK'
    BY <1>2, <1>3, <2>1, Typed, TypesKept
  <2>5. \A x \in RProcs \ {q} : Apart(q, x)' /\ Apart(x, q)'
    <3>1. ASSUME NEW x \in RProcs \ {q}, rjob[x].pc \in {"lock", "insert"}
          PROVE  rjob[x].r # r
      <4>1. Fits(x) /\ refunds[r].st # "none"
        BY DEF RefundInv, Moves
      <4>2. QED
        BY <3>1, <4>1 DEF Fits
    <3>2. l \notin {"idle", "lock", "insert"}
      OBVIOUS
    <3>3. QED
      BY <1>0, <2>1, <3>1, <3>2 DEF Apart, Only
  <2>6. QED
    BY <1>2, <1>3, <2>1, <2>3, <2>4, <2>5, Assemble
<1>6. QED
  BY <1>4, <1>5

\* The new row is a refund nobody has heard of.
LEMMA InsertStep ==
    ASSUME RefundInv, NEW q \in RProcs, RefundInsert(q)
    PROVE  RefundInv'
<1> DEFINE j == rjob[q]
           n == [st |-> "pending_review", o |-> j.o, amt |-> j.amt]
<1>1. j.pc = "insert" /\ j.r \in Refunds /\ j.o \in Orders /\ refunds[j.r].st = "none" /\ j \in RefundJob
  BY Typed DEF RefundInv, Fits, RefundInsert, RAt
<1>2. /\ UNCHANGED <<payVars, fund>> /\ RFinish(q)
      /\ orderLock' \in [Orders -> RProcs \cup {None}]
      /\ refunds' = [refunds EXCEPT ![j.r] = n] \/ UNCHANGED refunds
  BY Unlocked DEF RefundInsert
<1>3. IndInv' /\ orders' = orders
  BY <1>2, PayVarsKept, PayStep DEF RefundInv
<1>4. CASE UNCHANGED refunds
  BY <1>2, <1>3, <1>4, BooksKept, QuietStep
<1>5. CASE refunds' = [refunds EXCEPT ![j.r] = n]
  <2>1. n \in RefundRow /\ n.st = "pending_review" /\ n.o = j.o
    BY <1>1 DEF RefundRow, RefundJob
  <2> HIDE DEF n
  <2>2. /\ refunds' \in [Refunds -> RefundRow]
        /\ \A x \in Refunds : refunds'[x] = IF x = j.r THEN n ELSE refunds[x]
    BY <1>1, <1>5, <2>1, Typed
  <2>3. rjob' \in [RProcs -> RefundJob] /\ Only(q) /\ rjob'[q].pc = "idle"
    BY <1>2, FinishFields DEF RefundInv
  <2>4. fund[j.r] = "none"
    BY <1>1 DEF RefundInv, BooksInv, Decided
  <2>5. BooksInv'
    <3>1. BooksInv
      BY DEF RefundInv
    <3>2. \A x \in Refunds :
            /\ refunds'[x].st # "none" => refunds'[x].o \in Orders
            /\ refunds'[x].st \notin Decided => fund'[x] = "none"
            /\ refunds'[x].st = "success" => fund'[x] = "done"
      BY <1>1, <1>2, <2>1, <2>2, <2>4, <3>1 DEF BooksInv
    <3>3. \A x \in Refunds : refunds[x].st # "none" => refunds'[x] = refunds[x]
      BY <1>1, <2>2
    <3>4. QED
      BY <1>2, <1>3, <3>1, <3>2, <3>3 DEF BooksInv
  <2>6. ASSUME NEW x \in RProcs \ {q} PROVE Fits(x)'
    <3>1. Fits(x) /\ rjob'[x] = rjob[x] /\ (rjob[x].pc # "idle" => rjob[x].r # j.r)
      BY <1>1, <2>3 DEF RefundInv, Apart, Only
    <3>2. QED
      BY <1>2, <2>2, <3>1 DEF Fits
  <2>7. Fits(q)'
    BY <2>3 DEF Fits
  <2>8. RefundTypeOK'
    BY <1>2, <1>3, <2>2, <2>3, Typed, TypesKept
  <2>9. \A x \in RProcs \ {q} : Apart(q, x)' /\ Apart(x, q)'
    BY <2>3, ApartKept
  <2>10. QED
    BY <1>3, <2>3, <2>5, <2>6, <2>7, <2>8, <2>9, Assemble
<1>6. QED
  BY <1>2, <1>4, <1>5

\* The money of a refund moves once: only this request is asking for it.
LEMMA CallStep ==
    ASSUME RefundInv, NEW q \in RProcs, AlipayRefund(q)
    PROVE  RefundInv'
<1> DEFINE r == rjob[q].r
<1>1. /\ rjob[q].pc = "call" /\ r \in Refunds /\ refunds[r].st \in Decided /\ fund[r] = "none"
      /\ Fits(q)
  BY DEF RefundInv, Fits, AlipayRefund, RAt, Decided
<1>2. UNCHANGED <<payVars, refunds, orderLock>>
  BY DEF AlipayRefund
<1>3. PICK l \in {"success", "failed"} :
         /\ RGoto(q, l)
         /\ \/ fund' = [fund EXCEPT ![r] = "done"]
            \/ l = "failed" /\ fund' = [fund EXCEPT ![r] = "refused"]
            \/ l = "failed" /\ fund' = fund
  BY DEF AlipayRefund
<1>4. /\ fund' \in [Refunds -> {"none", "done", "refused"}]
      /\ \A x \in Refunds : fund[x] # "none" => fund'[x] = fund[x]
      /\ \A x \in Refunds \ {r} : fund'[x] = fund[x]
      /\ l = "success" => fund'[r] = "done"
  BY <1>1, <1>3, Typed
<1>5. IndInv' /\ orders' = orders
  BY <1>2, PayVarsKept, PayStep DEF RefundInv
<1>6. /\ rjob' \in [RProcs -> RefundJob] /\ Only(q)
      /\ rjob'[q].pc = l /\ rjob'[q].r = r /\ rjob'[q].o = rjob[q].o
      /\ rjob'[q].amt = rjob[q].amt
  BY <1>3, GotoFields DEF RefundInv, RPCs
<1>7. Fits(q)'
  BY <1>1, <1>2, <1>4, <1>6 DEF Fits
<1>8. ASSUME NEW x \in RProcs \ {q} PROVE Fits(x)'
  <2>1. Fits(x) /\ rjob'[x] = rjob[x] /\ (rjob[x].pc = "call" => rjob[x].r # r)
    BY <1>1, <1>6 DEF RefundInv, Apart, Only, Acting
  <2>2. QED
    BY <1>2, <1>4, <2>1 DEF Fits
<1>9. BooksInv'
  <2>1. BooksInv
    BY DEF RefundInv
  <2>2. \A x \in Refunds : refunds[x].st \notin Decided => fund'[x] = "none"
    BY <1>1, <1>4, <2>1 DEF BooksInv
  <2>3. \A x \in Refunds : fund[x] = "done" => fund'[x] = "done"
    BY <1>4
  <2>4. QED
    BY <1>2, <1>5, <2>1, <2>2, <2>3 DEF BooksInv
<1>10. RefundTypeOK'
  BY <1>2, <1>4, <1>5, <1>6, Typed, TypesKept
<1>11. \A x \in RProcs \ {q} : Apart(q, x)' /\ Apart(x, q)'
  BY <1>1, <1>6, ApartKept DEF Acting
<1>12. QED
  BY <1>5, <1>6, <1>7, <1>8, <1>9, <1>10, <1>11, Assemble

LEMMA HandlerStepR ==
    ASSUME RefundInv, NEW q \in RProcs, RefundStep(q)
    PROVE  RefundInv'
<1> DEFINE r == rjob[q].r
<1>0. /\ Fits(q) /\ (rjob[q].pc # "idle" => r \in Refunds /\ rjob[q].o \in Orders)
      /\ orderLock \in [Orders -> RProcs \cup {None}]
  BY Typed DEF RefundInv, Fits
<1>1. CASE RefundLock(q)
  <2>1. /\ UNCHANGED <<payVars, refunds, fund>> /\ rjob[q].pc = "lock"
        /\ RFinish(q) \/ RGoto(q, "insert")
    BY <1>1 DEF RefundLock, RAt
  <2>2. orderLock' \in [Orders -> RProcs \cup {None}]
    BY <1>0, <1>1 DEF RefundLock
  <2>3. IndInv' /\ BooksInv'
    BY <2>1, PayVarsKept, PayStep, BooksKept DEF RefundInv
  <2>4. QED
    BY <2>1, <2>2, <2>3, QuietStep
<1>2. CASE MarkRefundApproved(q)
  <2>1. UNCHANGED <<payVars, fund, orderLock>> /\ rjob[q].pc = "approve"
    BY <1>2 DEF MarkRefundApproved, RAt
  <2>2. CASE refunds[r].st = "pending_review"
    BY <1>2, <2>1, <2>2, WriteStep DEF MarkRefundApproved, Moves
  <2>3. CASE refunds[r].st # "pending_review"
    <3>1. RFinish(q) /\ UNCHANGED refunds
      BY <1>2, <2>3 DEF MarkRefundApproved
    <3>2. IndInv' /\ BooksInv'
      BY <2>1, <3>1, PayVarsKept, PayStep, BooksKept DEF RefundInv
    <3>3. QED
      BY <1>0, <2>1, <3>1, <3>2, QuietStep
  <2>4. QED
    BY <2>2, <2>3
<1>3. CASE MarkRefundProcessing(q)
  BY <1>3, WriteStep DEF MarkRefundProcessing, RAt, Moves, Acting
<1>4. CASE UpdateRefundFailed(q)
  <2>1. rjob[q].pc = "failed" /\ Moves(r, "failed")
    BY <1>0, <1>4 DEF UpdateRefundFailed, RAt, Fits, Moves
  <2>2. QED
    BY <1>4, <2>1, WriteStep DEF UpdateRefundFailed, Acting
<1>5. CASE UpdateRefundSuccess(q)
  <2>1. rjob[q].pc = "success" /\ Moves(r, "success") /\ fund[r] = "done"
    BY <1>0, <1>5 DEF UpdateRefundSuccess, RAt, Fits, Moves
  <2>2. QED
    BY <1>5, <2>1, WriteStep DEF UpdateRefundSuccess, Acting
<1>6. CASE RevokeFromOrder(q)
  <2>1. /\ UNCHANGED <<orders, expired, attempts, callbacks, planOn, trade, payURLs, job, faults>>
        /\ UNCHANGED <<refunds, fund, orderLock>> /\ rjob[q].pc = "revoke" /\ RGoto(q, "refunded")
        /\ L!Revoke(rjob[q].o) \/ UNCHANGED ledger
    BY <1>6 DEF RevokeFromOrder, RAt
  <2>2. IndInv'
    <3>1. CASE L!Revoke(rjob[q].o)
      BY <1>0, <2>1, <3>1, RevokeKeeps DEF RefundInv
    <3>2. CASE UNCHANGED ledger
      BY <2>1, <3>2, PayStep DEF RefundInv, payVars
    <3>3. QED
      BY <2>1, <3>1, <3>2
  <2>3. BooksInv'
    BY <2>1, BooksKept
  <2>4. QED
    BY <1>0, <2>1, <2>2, <2>3, QuietStep
<1>7. CASE MarkOrderRefunded(q)
  <2> DEFINE o == rjob[q].o
  <2>1. /\ UNCHANGED <<expired, attempts, callbacks, planOn, trade, payURLs, job, faults, ledger>>
        /\ UNCHANGED <<refunds, fund, orderLock>> /\ rjob[q].pc = "refunded" /\ RFinish(q)
    BY <1>7 DEF MarkOrderRefunded, RAt
  <2>2. o \in Orders /\ orders \in [Orders -> Order]
    BY <1>0, <2>1 DEF RefundInv, IndInv, TypeOK
  <2>3. /\ r \in Refunds /\ refunds[r].o = o /\ refunds[r].st # "none"
        /\ fund[r] = "done" /\ refunds[r].amt = Amount[o]
    BY <1>0, <2>1 DEF Fits
  <2>4. CASE CanRefund(orders[o])
    <3>1. orders' = [orders EXCEPT ![o] = [orders[o] EXCEPT !.st = "refunded", !.ent = "revoked"]]
      BY <1>7, <2>4 DEF MarkOrderRefunded, SetOrder
    <3>2. /\ IndInv'
          /\ \A x \in Orders : orders'[x].st = IF x = o THEN "refunded" ELSE orders[x].st
      BY <2>1, <2>2, <2>4, <3>1, RefundedKeeps DEF RefundInv
    <3>3. BooksInv'
      BY <2>1, <2>3, <3>2 DEF RefundInv, BooksInv
    <3>4. QED
      BY <1>0, <2>1, <3>2, <3>3, QuietStep
  <2>5. CASE ~CanRefund(orders[o])
    <3>1. orders' = orders
      BY <1>7, <2>2, <2>5 DEF MarkOrderRefunded, SetOrder
    <3>2. IndInv'
      BY <2>1, <3>1, PayStep DEF RefundInv, payVars
    <3>3. QED
      BY <1>0, <2>1, <3>1, <3>2, BooksKept, QuietStep
  <2>6. QED
    BY <2>4, <2>5
<1>8. QED
  BY <1>1, <1>2, <1>3, <1>4, <1>5, <1>6, <1>7, InsertStep, CallStep DEF RefundStep

LEMMA FaultStepR ==
    ASSUME RefundInv, NEW q \in RProcs, RefundFault(q)
    PROVE  RefundInv'
<1>1. /\ faults > 0 /\ faults' = faults - 1 /\ rjob[q].pc # "idle"
      /\ RFinish(q) \/ (rjob[q].pc = "revoke" /\ RGoto(q, "refunded"))
      /\ Unlock(q)
      /\ UNCHANGED <<orders, expired, attempts, callbacks, planOn, trade, payURLs, job, ledger>>
      /\ UNCHANGED <<refunds, fund>>
  BY DEF RefundFault, RAt
<1>2. IndInv'
  BY <1>1, FaultKeeps DEF RefundInv
<1>3. orderLock' \in [Orders -> RProcs \cup {None}]
  BY <1>1, Unlocked
<1>4. QED
  BY <1>1, <1>2, <1>3, BooksKept, QuietStep

\* No payment request refunds an order.
LEMMA PayStepR ==
    ASSUME RefundInv, [Next]_payVars, UNCHANGED refundVars
    PROVE  RefundInv'
<1>1. IndInv'
  BY PayStep DEF RefundInv
<1>2. UNCHANGED <<refunds, fund, orderLock, rjob>>
  BY DEF refundVars
<1>3. \A o \in Orders : orders'[o].st = "refunded" => orders[o].st = "refunded"
  <2>1. ASSUME NEW o \in Orders PROVE Written(o) /\ orders[o] \in Order
    BY StepWrites DEF RefundInv, IndInv, TypeOK
  <2>2. ASSUME NEW o \in Orders PROVE orders'[o].st = "refunded" => orders[o].st = "refunded"
    <3>1. orders[o] \in Order
      BY <2>1
    <3>2. CASE orders'[o] = orders[o]
      BY <3>2
    <3>3. CASE orders'[o].st = "awaiting_payment"
      BY <3>3
    <3>4. CASE orders'[o] = [orders[o] EXCEPT !.st = "closed", !.pay = "failed"]
      BY <3>1, <3>4 DEF Order
    <3>5. CASE orders'[o] = Paid(orders[o])
      <4>1. orders'[o].st \in {orders[o].st, "paid"}
        BY <3>1, <3>5, Zenon DEF Paid, Order
      <4>2. QED
        BY <4>1
    <3>6. CASE orders'[o] = Fulfilled(orders[o])
      BY <3>1, <3>6 DEF Fulfilled, Order
    <3>7. CASE orders'[o] = [orders[o] EXCEPT !.ent = "failed"]
      BY <3>1, <3>7 DEF Order
    <3>8. QED
      BY <2>1, <3>2, <3>3, <3>4, <3>5, <3>6, <3>7, Zenon DEF Written
  <2>3. QED
    BY <2>2
<1>4. BooksInv'
  BY <1>2, <1>3 DEF RefundInv, BooksInv
<1>5. RefundTypeOK'
  BY <1>1, <1>2, Typed, TypesKept
<1>6. \A q \in RProcs : Fits(q)'
  BY <1>2, RowsKept
<1>7. \A q, x \in RProcs : q # x => Apart(q, x)'
  BY <1>2 DEF RefundInv, Apart
<1>8. QED
  BY <1>1, <1>4, <1>5, <1>6, <1>7 DEF RefundInv

LEMMA RejectStep ==
    ASSUME RefundInv, NEW r \in Refunds, RejectRefund(r)
    PROVE  RefundInv'
<1>1. UNCHANGED <<payVars, fund, orderLock, rjob>> /\ SetRefund(r, "rejected") /\ Moves(r, "rejected")
  BY DEF RejectRefund, Moves
<1>2. IndInv' /\ orders' = orders
  BY <1>1, PayVarsKept, PayStep DEF RefundInv
<1>6. ASSUME NEW x \in RProcs, rjob[x].pc \in Acting PROVE rjob[x].r # r
  <2>1. Fits(x) /\ refunds[r].st = "pending_review"
    BY DEF RefundInv, RejectRefund
  <2>2. refunds[rjob[x].r].st \in {"approved", "processing"}
    BY <1>6, <2>1 DEF Fits, Acting
  <2>3. QED
    BY <2>1, <2>2
<1>3. /\ \A x \in RProcs : Fits(x)'
      /\ BooksInv'
      /\ refunds' \in [Refunds -> RefundRow]
  BY <1>1, <1>2, <1>6, SetKeeps
<1>4. RefundTypeOK'
  BY <1>1, <1>2, <1>3, Typed, TypesKept
<1>5. \A q, x \in RProcs : q # x => Apart(q, x)'
  BY <1>1 DEF RefundInv, Apart
<1>7. QED
  BY <1>2, <1>3, <1>4, <1>5 DEF RefundInv

LEMMA RefundInvStep == RefundInv /\ [RefundNext]_allVars => RefundInv'
<1>1. ASSUME RefundInv, UNCHANGED allVars PROVE RefundInv'
  BY <1>1, PayStepR DEF allVars
<1>2. QED
  BY <1>1, PayStepR, StartStepR, RejectStep, HandlerStepR, FaultStepR DEF RefundNext

LEMMA RefundInvInit == RefundInit => RefundInv
<1> SUFFICES ASSUME RefundInit PROVE RefundInv
  OBVIOUS
<1>1. IndInv
  <2>1. TypeOK /\ JobInv
    BY PaymentTypeInit DEF RefundInit
  <2>2. OrderInv
    BY DEF RefundInit, Init, OrderInv, SaysPaid, AbsentOrder, L!LedgerInit
  <2>3. KnowsInv
    BY DEF RefundInit, Init, KnowsInv, IdleJob
  <2>4. QED
    BY <2>1, <2>2, <2>3 DEF IndInv
<1>2. \A q \in RProcs : rjob[q] = IdleRefund
  BY DEF RefundInit
<1>3. \A r \in Refunds : refunds[r].st = "none" /\ fund[r] = "none"
  BY DEF RefundInit, NoRefund
<1>4. \A o \in Orders : orders[o].st = "absent"
  BY DEF RefundInit, Init, AbsentOrder
<1>5. RefundTypeOK
  <2>1. IdleRefund \in RefundJob /\ NoRefund \in RefundRow
    BY DEF IdleRefund, RefundJob, NoRefund, RefundRow
  <2> HIDE DEF IdleRefund, NoRefund
  <2>2. QED
    BY <1>1, <2>1 DEF RefundInit, RefundTypeOK, IndInv
<1>6. QED
  BY <1>1, <1>2, <1>3, <1>4, <1>5 DEF RefundInv, Fits, Apart, BooksInv, IdleRefund, Decided, Acting

-----------------------------------------------------------------------------
(* Sums: AmountOf adds up over a set by the recursion of the community       *)
(* modules' folds.  The recursion defines one function, the order in which   *)
(* it takes the refunds does not matter, and more refunds are never less.    *)
(* Each lemma looks at a smallest set that would refute it.                  *)

\* The recursion by which AmountOf adds up the amounts w of the refunds in S.
FirstOf(S) == CHOOSE x \in S : TRUE

Adds(w, S, f) ==
    f = [s \in SUBSET S |-> IF s = {} THEN 0 ELSE w[FirstOf(s)] + f[s \ {FirstOf(s)}]]

Total(w, S) == (CHOOSE f : Adds(w, S, f))[S]

\* Among subsets of a finite set there is a smallest one.
LEMMA SmallestSet ==
    ASSUME NEW U, IsFiniteSet(U), NEW T, T \subseteq SUBSET U, T # {}
    PROVE  \E R \in T : \A S \in T : S \subseteq R => S = R
<1>1. T \subseteq FiniteSubsetsOf(U)
  BY FS_Subset DEF FiniteSubsetsOf
<1>2. \E R \in T : \A S \in T : ~ (<<S, R>> \in StrictSubsetOrdering(U))
  BY <1>1, FS_StrictSubsetOrderingWellFounded, WFMin
<1>3. QED
  BY <1>2 DEF StrictSubsetOrdering

\* The equation defines at most one function, over a set and over its subsets alike.
LEMMA AddsOnce ==
    ASSUME NEW U, IsFiniteSet(U), NEW w, NEW f, NEW g, Adds(w, U, f),
           NEW S \in SUBSET U, Adds(w, S, g)
    PROVE  \A s \in SUBSET S : f[s] = g[s]
<1> DEFINE T == {s \in SUBSET S : f[s] # g[s]}
<1>1. SUFFICES ASSUME T # {} PROVE FALSE
  OBVIOUS
<1>2. PICK R \in T : \A s \in T : s \subseteq R => s = R
  <2>1. T \subseteq SUBSET S /\ IsFiniteSet(S)
    BY FS_Subset
  <2> HIDE DEF T
  <2>2. QED
    BY <1>1, <2>1, SmallestSet
<1>3. R \in SUBSET U /\ R \in SUBSET S /\ f[R] # g[R]
  OBVIOUS
<1>4. CASE R = {}
  BY <1>3, <1>4 DEF Adds
<1>5. CASE R # {}
  <2> DEFINE x == FirstOf(R)
  <2>1. x \in R
    BY <1>5 DEF FirstOf
  <2>2. f[R \ {x}] = g[R \ {x}]
    BY <1>2, <1>3, <2>1
  <2>3. f[R] = w[x] + f[R \ {x}] /\ g[R] = w[x] + g[R \ {x}]
    BY <1>3, <1>5 DEF Adds
  <2>4. QED
    BY <1>3, <2>2, <2>3
<1>6. QED
  BY <1>4, <1>5

LEMMA AddsBelow ==
    ASSUME NEW U, NEW w, NEW f, Adds(w, U, f), NEW S \in SUBSET U
    PROVE  Adds(w, S, [s \in SUBSET S |-> f[s]])
<1> DEFINE g == [s \in SUBSET S |-> f[s]]
<1>1. \A s \in SUBSET S : g[s] = IF s = {} THEN 0 ELSE w[FirstOf(s)] + g[s \ {FirstOf(s)}]
  BY DEF Adds
<1>2. QED
  BY <1>1 DEF Adds

LEMMA TotalIs ==
    ASSUME NEW U, IsFiniteSet(U), NEW w, NEW f, Adds(w, U, f), NEW S \in SUBSET U
    PROVE  Total(w, S) = f[S]
<1>1. \E g : Adds(w, S, g)
  BY AddsBelow
<1>2. Adds(w, S, CHOOSE g : Adds(w, S, g))
  BY <1>1
<1>3. QED
  BY <1>2, AddsOnce DEF Total

LEMMA AddsExists ==
    ASSUME NEW U, IsFiniteSet(U), NEW w
    PROVE  \E f : Adds(w, U, f)
<1> DEFINE T == {S \in SUBSET U : ~ \E f : Adds(w, S, f)}
<1>1. SUFFICES ASSUME T # {} PROVE FALSE
  OBVIOUS
<1>2. PICK R \in T : \A s \in T : s \subseteq R => s = R
  <2>1. T \subseteq SUBSET U
    OBVIOUS
  <2> HIDE DEF T
  <2>2. QED
    BY <1>1, <2>1, SmallestSet
<1>3. /\ R \in SUBSET U /\ ~ \E f : Adds(w, R, f)
      /\ \A s \in SUBSET R : s # R => \E f : Adds(w, s, f)
  BY <1>2
<1> HIDE DEF T
<1> DEFINE x == FirstOf(R)
           f == [s \in SUBSET R |-> IF s # R THEN Total(w, s)
                                    ELSE IF R = {} THEN 0 ELSE w[x] + Total(w, R \ {x})]
<1>4. R # {} => x \in R
  BY DEF FirstOf
<1>5. ASSUME NEW s \in SUBSET R
      PROVE  f[s] = IF s = {} THEN 0 ELSE w[FirstOf(s)] + f[s \ {FirstOf(s)}]
  <2>1. CASE s = R
    BY <1>4, <2>1
  <2>2. CASE s # R
    <3>1. IsFiniteSet(s)
      BY <1>3, FS_Subset
    <3>2. PICK g : Adds(w, s, g)
      BY <1>3, <2>2
    <3>3. f[s] = Total(w, s) /\ Total(w, s) = g[s]
      BY <2>2, <3>1, <3>2, TotalIs
    <3>4. CASE s = {}
      BY <3>2, <3>3, <3>4 DEF Adds
    <3>5. CASE s # {}
      <4>1. FirstOf(s) \in s
        BY <3>5 DEF FirstOf
      <4>2. s \ {FirstOf(s)} \in SUBSET s /\ s \ {FirstOf(s)} # R /\ s \ {FirstOf(s)} \in SUBSET R
        BY <2>2, <4>1
      <4>3. f[s \ {FirstOf(s)}] = g[s \ {FirstOf(s)}]
        BY <4>2, <3>1, <3>2, TotalIs
      <4>4. QED
        BY <3>2, <3>3, <3>5, <4>3 DEF Adds
    <3>6. QED
      BY <3>4, <3>5
  <2>3. QED
    BY <2>1, <2>2
<1>6. Adds(w, R, f)
  BY <1>5 DEF Adds
<1>7. QED
  BY <1>3, <1>6

LEMMA TotalUnfolds ==
    ASSUME NEW U, IsFiniteSet(U), NEW w
    PROVE  Total(w, U) = IF U = {} THEN 0 ELSE w[FirstOf(U)] + Total(w, U \ {FirstOf(U)})
<1>1. PICK f : Adds(w, U, f)
  BY AddsExists
<1>2. Total(w, U) = f[U] /\ Total(w, U \ {FirstOf(U)}) = f[U \ {FirstOf(U)}]
  BY <1>1, TotalIs
<1>3. QED
  BY <1>1, <1>2 DEF Adds

LEMMA TotalType ==
    ASSUME NEW U, IsFiniteSet(U), NEW w \in [U -> Nat], NEW S \in SUBSET U
    PROVE  Total(w, S) \in Nat
<1> DEFINE T == {R \in SUBSET U : Total(w, R) \notin Nat}
<1>1. SUFFICES ASSUME T # {} PROVE FALSE
  OBVIOUS
<1>2. PICK R \in T : \A s \in T : s \subseteq R => s = R
  <2>1. T \subseteq SUBSET U
    OBVIOUS
  <2> HIDE DEF T
  <2>2. QED
    BY <1>1, <2>1, SmallestSet
<1>3. R \in SUBSET U /\ Total(w, R) \notin Nat /\ IsFiniteSet(R)
  BY FS_Subset
<1>4. Total(w, R) = IF R = {} THEN 0 ELSE w[FirstOf(R)] + Total(w, R \ {FirstOf(R)})
  BY <1>3, TotalUnfolds
<1>5. R # {}
  BY <1>3, <1>4
<1>6. FirstOf(R) \in R
  BY <1>5 DEF FirstOf
<1>7. Total(w, R \ {FirstOf(R)}) \in Nat
  BY <1>2, <1>3, <1>6
<1>8. QED
  BY <1>3, <1>4, <1>5, <1>6, <1>7

\* The order in which AmountOf goes through the refunds does not matter.
LEMMA TotalAdd ==
    ASSUME NEW U, IsFiniteSet(U), NEW w \in [U -> Nat],
           NEW S \in SUBSET U, NEW r \in U, r \notin S
    PROVE  Total(w, S \cup {r}) = w[r] + Total(w, S)
<1> DEFINE T == {R \in SUBSET U : \E x \in U \ R : Total(w, R \cup {x}) # w[x] + Total(w, R)}
<1>1. SUFFICES ASSUME T # {} PROVE FALSE
  OBVIOUS
<1>2. PICK R \in T : \A s \in T : s \subseteq R => s = R
  <2>1. T \subseteq SUBSET U
    OBVIOUS
  <2> HIDE DEF T
  <2>2. QED
    BY <1>1, <2>1, SmallestSet
<1>3. PICK x \in U \ R : Total(w, R \cup {x}) # w[x] + Total(w, R)
  OBVIOUS
<1>4. \A s \in SUBSET R : s # R => \A y \in U \ s : Total(w, s \cup {y}) = w[y] + Total(w, s)
  BY <1>2
<1> DEFINE Q == R \cup {x}
           c == FirstOf(Q)
<1>5. R \in SUBSET U /\ IsFiniteSet(R) /\ Q \in SUBSET U /\ IsFiniteSet(Q) /\ c \in Q
  BY FS_Subset DEF FirstOf
<1>6. Total(w, Q) = w[c] + Total(w, Q \ {c})
  BY <1>5, TotalUnfolds
<1> HIDE DEF c, T
<1>7. CASE c = x
  <2>1. Q \ {c} = R
    BY <1>7
  <2>2. QED
    BY <1>3, <1>6, <1>7, <2>1
<1>8. CASE c # x
  <2>1. c \in R /\ R \ {c} \in SUBSET R /\ R \ {c} # R /\ Q \ {c} = (R \ {c}) \cup {x}
        /\ R = (R \ {c}) \cup {c} /\ x \in U \ (R \ {c}) /\ c \in U \ (R \ {c})
    BY <1>5, <1>8
  <2>2. Total(w, Q \ {c}) = w[x] + Total(w, R \ {c})
    BY <1>4, <2>1
  <2>3. Total(w, R) = w[c] + Total(w, R \ {c})
    BY <1>4, <2>1
  <2>4. w[c] \in Nat /\ w[x] \in Nat /\ Total(w, R \ {c}) \in Nat
    BY <1>5, <2>1, TotalType
  <2>5. QED
    BY <1>3, <1>6, <2>2, <2>3, <2>4
<1>9. QED
  BY <1>7, <1>8

\* More refunds never amount to less.
LEMMA TotalGrows ==
    ASSUME NEW U, IsFiniteSet(U), NEW w \in [U -> Nat],
           NEW S \in SUBSET U, NEW R \in SUBSET S
    PROVE  Total(w, R) <= Total(w, S)
<1> DEFINE T == {s \in SUBSET U : R \subseteq s /\ ~ (Total(w, R) <= Total(w, s))}
<1>1. SUFFICES ASSUME T # {} PROVE FALSE
  OBVIOUS
<1>2. PICK Q \in T : \A s \in T : s \subseteq Q => s = Q
  <2>1. T \subseteq SUBSET U
    OBVIOUS
  <2> HIDE DEF T
  <2>2. QED
    BY <1>1, <2>1, SmallestSet
<1>3. Q \in SUBSET U /\ R \subseteq Q /\ ~ (Total(w, R) <= Total(w, Q)) /\ Total(w, R) \in Nat
  BY TotalType
<1>4. PICK x \in Q : x \notin R
  BY <1>3
<1>5. Q \ {x} \notin T /\ R \subseteq Q \ {x} /\ Q \ {x} \in SUBSET U /\ x \in U
  BY <1>2, <1>3, <1>4
<1>6. Total(w, R) <= Total(w, Q \ {x})
  BY <1>5
<1>7. Q = (Q \ {x}) \cup {x}
  BY <1>4
<1>8. Total(w, Q) = w[x] + Total(w, Q \ {x})
  <2> DEFINE P == Q \ {x}
  <2>1. P \in SUBSET U /\ x \in U /\ x \notin P /\ Q = P \cup {x}
    BY <1>5, <1>7
  <2> HIDE DEF P, T
  <2>2. Total(w, P \cup {x}) = w[x] + Total(w, P)
    BY <2>1, TotalAdd
  <2>3. QED
    BY <2>1, <2>2 DEF P
<1>9. Total(w, Q \ {x}) \in Nat /\ w[x] \in Nat
  BY <1>5, TotalType
<1>10. QED
  BY <1>3, <1>6, <1>8, <1>9

\* Only the amounts of the refunds added up matter.
LEMMA TotalSame ==
    ASSUME NEW U, IsFiniteSet(U), NEW w, NEW v, \A x \in U : w[x] = v[x]
    PROVE  Total(w, U) = Total(v, U)
<1>1. PICK f : Adds(w, U, f)
  BY AddsExists
<1>2. \A s \in SUBSET U : s # {} => FirstOf(s) \in U
  BY DEF FirstOf
<1>3. \A s \in SUBSET U : f[s] = IF s = {} THEN 0 ELSE v[FirstOf(s)] + f[s \ {FirstOf(s)}]
  BY <1>1, <1>2 DEF Adds
<1>4. f = [s \in SUBSET U |-> f[s]]
  BY <1>1 DEF Adds
<1>5. Adds(v, U, f)
  BY <1>3, <1>4 DEF Adds
<1>6. QED
  BY <1>1, <1>5, TotalIs

\* The fold of AmountOf, for the rows v.
LEMMA FoldIsTotal ==
    ASSUME NEW v, NEW S \in SUBSET Refunds
    PROVE  (CHOOSE f : f = [s \in SUBSET S |-> IF s = {} THEN 0
                               ELSE v[FirstOf(s)].amt + f[s \ {FirstOf(s)}]])[S]
           = Total([r \in Refunds |-> v[r].amt], S)
<1> DEFINE P(f) == f = [s \in SUBSET S |-> IF s = {} THEN 0
                                          ELSE v[FirstOf(s)].amt + f[s \ {FirstOf(s)}]]
           w == [r \in Refunds |-> v[r].amt]
<1>1. \A s \in SUBSET S : s # {} => w[FirstOf(s)] = v[FirstOf(s)].amt
  BY DEF FirstOf
<1>2. ASSUME NEW f PROVE P(f) <=> Adds(w, S, f)
  BY <1>1 DEF Adds
<1>3. IsFiniteSet(S)
  BY FS_Subset, RefundAssumption
<1> HIDE DEF w
<1>4. QED
  <2> HIDE DEF P
  <2>1. \E f : P(f)
    BY <1>2, <1>3, AddsExists
  <2>2. P(CHOOSE f : P(f))
    BY <2>1
  <2>3. Adds(w, S, CHOOSE f : P(f))
    BY <1>2, <2>2
  <2>4. Total(w, S) = (CHOOSE f : P(f))[S]
    BY <1>3, <2>3, TotalIs
  <2>5. QED
    BY <2>4 DEF P, w

-----------------------------------------------------------------------------
(* What is claimed of an order: by refunds under way and by refunds paid out *)

HeldStates == {"pending_review", "approved", "processing", "success"}

HeldIn(v, o) == {r \in Refunds : v[r].o = o /\ v[r].st \in HeldStates}

AmountsIn(v) == [r \in Refunds |-> v[r].amt]

\* What is claimed of order o in the rows v.
HeldSum(v, o) == Total(AmountsIn(v), HeldIn(v, o))

LEMMA HeldType ==
    ASSUME NEW v \in [Refunds -> RefundRow], NEW o
    PROVE  /\ HeldIn(v, o) \in SUBSET Refunds /\ IsFiniteSet(HeldIn(v, o))
           /\ AmountsIn(v) \in [Refunds -> Nat]
           /\ HeldSum(v, o) \in Nat
<1>1. HeldIn(v, o) \in SUBSET Refunds
  BY DEF HeldIn
<1>2. IsFiniteSet(Refunds) /\ IsFiniteSet(HeldIn(v, o))
  BY <1>1, FS_Subset, RefundAssumption
<1>3. AmountsIn(v) \in [Refunds -> Nat]
  BY DEF RefundRow, AmountsIn
<1>4. HeldSum(v, o) \in Nat
  BY <1>1, <1>2, <1>3, TotalType DEF HeldSum
<1>5. QED
  BY <1>1, <1>2, <1>3, <1>4

\* What is claimed of an order does not grow while no refund begins to count.
LEMMA HeldFalls ==
    ASSUME NEW v \in [Refunds -> RefundRow], NEW w \in [Refunds -> RefundRow], NEW o,
           \A x \in Refunds :
              /\ w[x].o = v[x].o /\ w[x].amt = v[x].amt
              /\ w[x].st \in HeldStates => v[x].st \in HeldStates
    PROVE  HeldSum(w, o) <= HeldSum(v, o)
<1>1. HeldIn(w, o) \in SUBSET HeldIn(v, o)
  BY DEF HeldIn
<1>2. \A x \in HeldIn(w, o) : AmountsIn(w)[x] = AmountsIn(v)[x]
  BY DEF HeldIn, AmountsIn
<1>3. Total(AmountsIn(w), HeldIn(w, o)) = Total(AmountsIn(v), HeldIn(w, o))
  BY <1>2, HeldType, TotalSame
<1>4. Total(AmountsIn(v), HeldIn(w, o)) <= Total(AmountsIn(v), HeldIn(v, o))
  BY <1>1, HeldType, TotalGrows, RefundAssumption
<1>5. QED
  BY <1>3, <1>4 DEF HeldSum

\* A new refund adds its amount to its own order.
LEMMA HeldAdds ==
    ASSUME NEW v \in [Refunds -> RefundRow], NEW w \in [Refunds -> RefundRow],
           NEW r \in Refunds, v[r].st = "none", w[r].st = "pending_review",
           \A x \in Refunds \ {r} : w[x] = v[x], NEW o
    PROVE  HeldSum(w, o) = IF w[r].o = o THEN w[r].amt + HeldSum(v, o) ELSE HeldSum(v, o)
<1>1. r \notin HeldIn(v, o)
  BY DEF HeldIn, HeldStates
<1>2. Total(AmountsIn(w), HeldIn(v, o)) = Total(AmountsIn(v), HeldIn(v, o))
  <2>1. \A x \in HeldIn(v, o) : AmountsIn(w)[x] = AmountsIn(v)[x]
    BY <1>1 DEF HeldIn, AmountsIn
  <2>2. QED
    BY <2>1, HeldType, TotalSame
<1>3. CASE w[r].o = o
  <2>1. HeldIn(w, o) = HeldIn(v, o) \cup {r}
    BY <1>3 DEF HeldIn, HeldStates
  <2>2. Total(AmountsIn(w), HeldIn(v, o) \cup {r}) = AmountsIn(w)[r] + Total(AmountsIn(w), HeldIn(v, o))
    BY <1>1, HeldType, TotalAdd, RefundAssumption
  <2>3. AmountsIn(w)[r] = w[r].amt
    BY DEF AmountsIn
  <2>4. QED
    BY <1>2, <1>3, <2>1, <2>2, <2>3 DEF HeldSum
<1>4. CASE w[r].o # o
  <2>1. HeldIn(w, o) = HeldIn(v, o)
    BY <1>1, <1>4 DEF HeldIn
  <2>2. QED
    BY <1>2, <1>4, <2>1 DEF HeldSum
<1>5. QED
  BY <1>3, <1>4

LEMMA AmountIsTotal ==
    ASSUME NEW S \in SUBSET Refunds
    PROVE  AmountOf(S) = Total(AmountsIn(refunds), S)
<1>1. AmountOf(S) = (CHOOSE f : f = [s \in SUBSET S |-> IF s = {} THEN 0
                        ELSE refunds[FirstOf(s)].amt + f[s \ {FirstOf(s)}]])[S]
  BY DEF AmountOf, MapThenSumSet, MapThenFoldSet, FirstOf
<1>2. QED
  BY <1>1, FoldIsTotal DEF AmountsIn

-----------------------------------------------------------------------------
(* The room that is left on an order *)

\* The refund that is about to be inserted was checked under the lock of its order,
\* and what was claimed then has not grown since.
Roomy(q, o) ==
    rjob[q].pc = "insert" /\ rjob[q].o = o =>
        /\ orderLock[o] = q
        /\ HeldSum(refunds, o) + rjob[q].amt <= Amount[o]

RoomInv ==
    \A o \in Orders :
        /\ HeldSum(refunds, o) <= Amount[o]
        /\ \A q \in RProcs : Roomy(q, o)

\* A step by which no refund begins to count and that lets nobody through the check keeps the room.
LEMMA RoomKept ==
    ASSUME RefundInv, RoomInv, RefundInv',
           \A x \in Refunds :
              /\ refunds'[x].o = refunds[x].o /\ refunds'[x].amt = refunds[x].amt
              /\ refunds'[x].st \in HeldStates => refunds[x].st \in HeldStates,
           \A q \in RProcs : rjob'[q].pc = "insert" =>
              /\ rjob[q].pc = "insert"
              /\ rjob'[q].o = rjob[q].o /\ rjob'[q].amt = rjob[q].amt
              /\ \A o \in Orders : orderLock[o] = q => orderLock'[o] = q
    PROVE  RoomInv'
<1>1. refunds \in [Refunds -> RefundRow] /\ rjob \in [RProcs -> RefundJob]
  BY Typed
<1>2. refunds' \in [Refunds -> RefundRow]
  BY DEF RefundInv, RefundTypeOK
<1>3. ASSUME NEW o \in Orders
      PROVE  /\ HeldSum(refunds', o) \in Nat /\ HeldSum(refunds, o) \in Nat
             /\ HeldSum(refunds', o) <= HeldSum(refunds, o)
             /\ HeldSum(refunds, o) <= Amount[o] /\ Amount[o] \in Nat
  BY <1>1, <1>2, HeldType, HeldFalls, RefundAssumption DEF RoomInv
<1>4. ASSUME NEW o \in Orders, NEW q \in RProcs PROVE Roomy(q, o)'
  <2>1. Roomy(q, o) /\ rjob[q].amt \in Nat
    BY <1>1 DEF RoomInv, RefundJob
  <2>2. QED
    BY <1>3, <2>1 DEF Roomy
<1>5. \A o \in Orders : HeldSum(refunds', o) <= Amount[o]
  BY <1>3
<1>6. QED
  BY <1>4, <1>5 DEF RoomInv

\* The check under the lock finds room for the new refund.
LEMMA LockRoom ==
    ASSUME RefundInv, RoomInv, RefundInv', NEW q \in RProcs, RefundLock(q)
    PROVE  RoomInv'
<1> DEFINE k == rjob[q].o
<1>1. /\ rjob[q].pc = "lock" /\ k \in Orders /\ orderLock[k] = None /\ refunds' = refunds
      /\ rjob[q].amt \in Nat
  BY Typed DEF RefundLock, RAt, RefundInv, Fits, RefundJob
<1>2. /\ refunds \in [Refunds -> RefundRow]
      /\ orderLock \in [Orders -> RProcs \cup {None}]
  BY Typed
<1>3. CASE RFinish(q) /\ UNCHANGED orderLock
  <2>1. Only(q) /\ rjob'[q].pc = "idle"
    BY <1>3, FinishFields DEF RefundInv
  <2>2. QED
    BY <1>1, <1>3, <2>1, RoomKept DEF Only
<1>4. CASE /\ AmountOf(Locked(k)) + rjob[q].amt <= Amount[k]
           /\ orderLock' = [orderLock EXCEPT ![k] = q]
           /\ RGoto(q, "insert")
  <2>1. /\ Only(q) /\ rjob'[q].o = k /\ rjob'[q].amt = rjob[q].amt
    BY <1>4, GotoFields DEF RefundInv, RPCs
  <2>2. HeldSum(refunds, k) + rjob[q].amt <= Amount[k]
    <3>1. HeldIn(refunds, k) \in SUBSET Locked(k) /\ Locked(k) \in SUBSET Refunds
      BY DEF HeldIn, HeldStates, Locked, RefundsOf
    <3>2. AmountOf(Locked(k)) = Total(AmountsIn(refunds), Locked(k))
      BY <3>1, AmountIsTotal
    <3>3. /\ AmountsIn(refunds) \in [Refunds -> Nat] /\ HeldSum(refunds, k) \in Nat
          /\ IsFiniteSet(Refunds)
      BY <1>2, HeldType, RefundAssumption
    <3>4. HeldSum(refunds, k) <= Total(AmountsIn(refunds), Locked(k))
      BY <3>1, <3>3, TotalGrows DEF HeldSum
    <3>5. Total(AmountsIn(refunds), Locked(k)) \in Nat
      BY <3>1, <3>3, TotalType
    <3>6. QED
      BY <1>1, <1>4, <3>2, <3>3, <3>4, <3>5, RefundAssumption
  <2>3. /\ orderLock'[k] = q
        /\ \A o \in Orders \ {k} : orderLock'[o] = orderLock[o]
    BY <1>1, <1>2, <1>4
  <2>4. ASSUME NEW o \in Orders, NEW x \in RProcs PROVE Roomy(x, o)'
    <3>1. Roomy(x, o)
      BY DEF RoomInv
    <3>2. CASE x = q
      BY <1>1, <2>1, <2>2, <2>3, <3>2 DEF Roomy
    <3>3. CASE x # q
      <4>1. rjob'[x] = rjob[x]
        BY <2>1, <3>3 DEF Only
      <4>2. rjob[x].pc = "insert" /\ rjob[x].o = o => o # k
        BY <1>1, <3>1, RefundAssumption DEF Roomy
      <4>3. QED
        BY <1>1, <2>3, <3>1, <4>1, <4>2 DEF Roomy
    <3>4. QED
      BY <3>2, <3>3
  <2>5. QED
    BY <1>1, <2>4 DEF RoomInv
<1>5. QED
  BY <1>3, <1>4 DEF RefundLock

\* The inserted refund takes the room it was promised, and no other request was
\* promised room on the same order.
LEMMA InsertRoom ==
    ASSUME RefundInv, RoomInv, RefundInv', NEW q \in RProcs, RefundInsert(q)
    PROVE  RoomInv'
<1> DEFINE j == rjob[q]
           n == [st |-> "pending_review", o |-> j.o, amt |-> j.amt]
<1>1. /\ j.pc = "insert" /\ j.r \in Refunds /\ j.o \in Orders /\ refunds[j.r].st = "none"
      /\ j.amt \in Nat
  BY Typed DEF RefundInv, Fits, RefundInsert, RAt, RefundJob
<1>2. /\ refunds \in [Refunds -> RefundRow] /\ refunds' \in [Refunds -> RefundRow]
      /\ rjob \in [RProcs -> RefundJob] /\ orderLock \in [Orders -> RProcs \cup {None}]
  BY Typed DEF RefundInv, RefundTypeOK
<1>3. Only(q) /\ rjob'[q].pc = "idle"
  BY FinishFields DEF RefundInsert, RefundInv
<1>4. \A o \in Orders, x \in RProcs : orderLock[o] = x /\ x # q => orderLock'[o] = x
  BY DEF RefundInsert, Unlock
<1>5. CASE refunds' = refunds
  BY <1>3, <1>4, <1>5, RoomKept DEF Only
<1>6. CASE refunds' = [refunds EXCEPT ![j.r] = n]
  <2>1. n.st = "pending_review" /\ n.o = j.o /\ n.amt = j.amt
    OBVIOUS
  <2> HIDE DEF n
  <2>2. refunds'[j.r] = n /\ \A x \in Refunds \ {j.r} : refunds'[x] = refunds[x]
    BY <1>1, <1>2, <1>6
  <2>3. \A o : HeldSum(refunds', o) = IF j.o = o THEN j.amt + HeldSum(refunds, o)
                                      ELSE HeldSum(refunds, o)
    BY <1>1, <1>2, <2>1, <2>2, HeldAdds
  <2>4. Roomy(q, j.o)
    BY <1>1 DEF RoomInv
  <2>5. /\ orderLock[j.o] = q
        /\ HeldSum(refunds, j.o) + j.amt <= Amount[j.o] /\ HeldSum(refunds, j.o) \in Nat
    BY <1>1, <1>2, <2>4, HeldType DEF Roomy
  <2>6. ASSUME NEW o \in Orders PROVE HeldSum(refunds', o) <= Amount[o]
    BY <1>1, <2>3, <2>5 DEF RoomInv
  <2>7. ASSUME NEW o \in Orders, NEW x \in RProcs PROVE Roomy(x, o)'
    <3>1. Roomy(x, o)
      BY DEF RoomInv
    <3>2. CASE x = q
      BY <1>3, <3>2 DEF Roomy
    <3>3. CASE x # q
      <4>1. rjob'[x] = rjob[x]
        BY <1>3, <3>3 DEF Only
      <4>2. rjob[x].pc = "insert" /\ rjob[x].o = o => j.o # o /\ orderLock'[o] = x
        BY <1>4, <2>5, <3>1, <3>3 DEF Roomy
      <4>3. QED
        BY <2>3, <3>1, <4>1, <4>2 DEF Roomy
    <3>4. QED
      BY <3>2, <3>3
  <2>8. QED
    BY <2>6, <2>7 DEF RoomInv
<1>7. QED
  BY <1>5, <1>6 DEF RefundInsert

\* A request that is settled by its new status, or that writes no row.
LEMMA GoRoom ==
    ASSUME RefundInv, RoomInv, RefundInv', NEW q \in RProcs, NEW l \in RPCs,
           RFinish(q) \/ (l # "insert" /\ RGoto(q, l)),
           \/ UNCHANGED refunds
           \/ \E r \in Refunds, s \in {"approved", "processing", "failed", "success"} :
                 SetRefund(r, s) /\ Moves(r, s),
           UNCHANGED orderLock \/ Unlock(q)
    PROVE  RoomInv'
<1>1. Only(q) /\ rjob'[q].pc # "insert"
  <2>1. CASE RFinish(q)
    BY <2>1, FinishFields DEF RefundInv
  <2>2. CASE l # "insert" /\ RGoto(q, l)
    BY <2>2, GotoFields DEF RefundInv
  <2>3. QED
    BY <2>1, <2>2
<1>2. \A o \in Orders, x \in RProcs \ {q} : orderLock[o] = x => orderLock'[o] = x
  BY DEF Unlock
<1>3. \A x \in Refunds :
         /\ refunds'[x].o = refunds[x].o /\ refunds'[x].amt = refunds[x].amt
         /\ refunds'[x].st \in HeldStates => refunds[x].st \in HeldStates
  <2>1. CASE UNCHANGED refunds
    BY <2>1
  <2>2. ASSUME NEW r \in Refunds, NEW s, SetRefund(r, s), Moves(r, s)
        PROVE  \A x \in Refunds :
                 /\ refunds'[x].o = refunds[x].o /\ refunds'[x].amt = refunds[x].amt
                 /\ refunds'[x].st \in HeldStates => refunds[x].st \in HeldStates
    <3>1. \A x \in Refunds : /\ refunds'[x].o = refunds[x].o
                             /\ refunds'[x].amt = refunds[x].amt
                             /\ refunds'[x].st = IF x = r THEN s ELSE refunds[x].st
      BY <2>2, SetFields DEF RefundInv
    <3>2. s \in HeldStates => refunds[r].st \in HeldStates
      BY <2>2 DEF Moves, HeldStates, Decided
    <3>3. QED
      BY <3>1, <3>2
  <2>3. QED
    BY <2>1, <2>2
<1>4. QED
  BY <1>1, <1>2, <1>3, RoomKept DEF Only

LEMMA HandlerRoom ==
    ASSUME RefundInv, RoomInv, RefundInv', NEW q \in RProcs, RefundStep(q)
    PROVE  RoomInv'
<1> DEFINE r == rjob[q].r
<1>1. /\ Fits(q) /\ (rjob[q].pc # "idle" => r \in Refunds)
  BY DEF RefundInv, Fits
<1>2. CASE MarkRefundApproved(q)
  <2>1. r \in Refunds /\ UNCHANGED orderLock
    BY <1>1, <1>2 DEF MarkRefundApproved, RAt
  <2>2. QED
    BY <1>2, <2>1, GoRoom DEF MarkRefundApproved, Moves, RPCs
<1>3. CASE MarkRefundProcessing(q)
  <2>1. r \in Refunds /\ UNCHANGED orderLock
    BY <1>1, <1>3 DEF MarkRefundProcessing, RAt
  <2>2. QED
    BY <1>3, <2>1, GoRoom DEF MarkRefundProcessing, Moves, RPCs
<1>4. CASE UpdateRefundFailed(q)
  <2>1. r \in Refunds /\ Moves(r, "failed") /\ UNCHANGED orderLock
    BY <1>1, <1>4 DEF UpdateRefundFailed, RAt, Fits, Moves
  <2>2. QED
    BY <1>4, <2>1, GoRoom DEF UpdateRefundFailed, RPCs
<1>5. CASE UpdateRefundSuccess(q)
  <2>1. r \in Refunds /\ Moves(r, "success") /\ UNCHANGED orderLock
    BY <1>1, <1>5 DEF UpdateRefundSuccess, RAt, Fits, Moves
  <2>2. RFinish(q) \/ RGoto(q, "revoke")
    BY <1>5 DEF UpdateRefundSuccess
  <2>3. SetRefund(r, "success")
    BY <1>5 DEF UpdateRefundSuccess
  <2>4. QED
    BY <2>1, <2>2, <2>3, GoRoom DEF RPCs
<1>6. CASE AlipayRefund(q) \/ RevokeFromOrder(q) \/ MarkOrderRefunded(q)
  <2>1. UNCHANGED <<refunds, orderLock>>
    BY <1>6 DEF AlipayRefund, RevokeFromOrder, MarkOrderRefunded
  <2>2. RFinish(q) \/ \E l \in RPCs \ {"insert"} : RGoto(q, l)
    BY <1>6 DEF AlipayRefund, RevokeFromOrder, MarkOrderRefunded, RPCs
  <2>3. QED
    BY <2>1, <2>2, GoRoom DEF RPCs
<1>7. QED
  BY <1>2, <1>3, <1>4, <1>5, <1>6, LockRoom, InsertRoom DEF RefundStep

LEMMA StartRoom ==
    ASSUME RefundInv, RoomInv, RefundInv', NEW q \in RProcs, NEW r \in Refunds,
           \/ \E o \in Orders : \E amt \in 1 .. Amount[o] : StartRefund(q, r, o, amt)
           \/ StartApprove(q, r)
    PROVE  RoomInv'
<1>1. UNCHANGED <<refunds, orderLock>>
  BY DEF StartRefund, StartApprove
<1>2. PICK j : RStart(q, j) /\ j.pc \in {"lock", "approve"}
  <2>1. ASSUME NEW o \in Orders, NEW amt \in 1 .. Amount[o], StartRefund(q, r, o, amt)
        PROVE  \E j : RStart(q, j) /\ j.pc \in {"lock", "approve"}
    <3> DEFINE j == [pc |-> "lock", r |-> r, o |-> o, amt |-> amt]
    <3>1. RStart(q, j) /\ j.pc = "lock"
      BY <2>1 DEF StartRefund
    <3> HIDE DEF j
    <3>2. QED
      BY <3>1
  <2>2. ASSUME StartApprove(q, r)
        PROVE  \E j : RStart(q, j) /\ j.pc \in {"lock", "approve"}
    <3> DEFINE j == [pc |-> "approve", r |-> r, o |-> refunds[r].o, amt |-> refunds[r].amt]
    <3>1. RStart(q, j) /\ j.pc = "approve"
      BY <2>2 DEF StartApprove
    <3> HIDE DEF j
    <3>2. QED
      BY <3>1
  <2>3. QED
    BY <2>1, <2>2
<1>3. Only(q) /\ rjob'[q] = j
  BY <1>2, Typed DEF RStart, Only
<1>4. QED
  BY <1>1, <1>2, <1>3, RoomKept DEF Only

LEMMA RejectRoom ==
    ASSUME RefundInv, RoomInv, RefundInv', NEW r \in Refunds, RejectRefund(r)
    PROVE  RoomInv'
<1>1. UNCHANGED <<orderLock, rjob>> /\ SetRefund(r, "rejected") /\ Moves(r, "rejected")
  BY DEF RejectRefund, Moves
<1>2. \A x \in Refunds : /\ refunds'[x].o = refunds[x].o
                         /\ refunds'[x].amt = refunds[x].amt
                         /\ refunds'[x].st = IF x = r THEN "rejected" ELSE refunds[x].st
  BY <1>1, SetFields DEF RefundInv
<1>3. QED
  BY <1>1, <1>2, RoomKept DEF HeldStates

LEMMA RoomStep == RefundInv /\ RoomInv /\ RefundInv' /\ [RefundNext]_allVars => RoomInv'
<1> SUFFICES ASSUME RefundInv, RoomInv, RefundInv', [RefundNext]_allVars PROVE RoomInv'
  OBVIOUS
<1>1. CASE UNCHANGED refundVars
  BY <1>1, RoomKept DEF refundVars
<1>2. ASSUME NEW q \in RProcs, RefundFault(q) PROVE RoomInv'
  <2>1. /\ UNCHANGED refunds /\ Unlock(q)
        /\ RFinish(q) \/ RGoto(q, "refunded")
    BY <1>2 DEF RefundFault
  <2>2. QED
    BY <2>1, GoRoom DEF RPCs
<1>3. QED
  BY <1>1, <1>2, StartRoom, RejectRoom, HandlerRoom DEF RefundNext, allVars

LEMMA RoomInit == RefundInit => RoomInv
<1> SUFFICES ASSUME RefundInit PROVE RoomInv
  OBVIOUS
<1>1. \A q \in RProcs : rjob[q].pc = "idle"
  BY DEF RefundInit, IdleRefund
<1>2. \A r \in Refunds : refunds[r].st = "none"
  BY DEF RefundInit, NoRefund
<1>3. ASSUME NEW o \in Orders PROVE HeldSum(refunds, o) = 0 /\ 0 <= Amount[o]
  <2>1. HeldIn(refunds, o) = {}
    BY <1>2 DEF HeldIn, HeldStates
  <2>2. HeldSum(refunds, o) = 0
    BY <2>1, TotalUnfolds, FS_EmptySet DEF HeldSum
  <2>3. QED
    BY <2>2, RefundAssumption
<1>4. QED
  BY <1>1, <1>3 DEF RoomInv, Roomy

-----------------------------------------------------------------------------
(* Theorems *)

\* The inductive invariant of refunds and payments together.
THEOREM RefundInvariant == RefundSpec => []RefundInv
BY RefundInvInit, RefundInvStep, PTL DEF RefundSpec

\* No money leaves without an approval, whatever reviews and payment
\* requests overlap or fail (ApproveRefund, RejectRefund).
THEOREM MoneyIsApproved == RefundSpec => []MoneyNeedsApproval
<1>1. RefundInv => MoneyNeedsApproval
  BY DEF RefundInv, BooksInv, MoneyNeedsApproval, Decided
<1>2. QED
  BY <1>1, RefundInvariant, PTL

\* A refund recorded as successful was executed, and a refunded order has an
\* executed refund of its full amount (UpdateRefundSuccess, MarkOrderRefunded).
THEOREM BooksFollowMoney == RefundSpec => []RefundsMatchMoney
<1>1. RefundInv => RefundsMatchMoney
  BY DEF RefundInv, BooksInv, RefundsMatchMoney, RefundsOf
<1>2. QED
  BY <1>1, RefundInvariant, PTL

\* The refunds of an order that wait, are under way or were paid out never claim more
\* together than was paid for it, whatever requests, reviews and failures overlap, for
\* any number of refunds and any amounts (CreateRefundRequest's check under the lock of
\* the order).  Rejected refunds and those recorded as failed do not count.
THEOREM BoundedRefunds == RefundSpec => []RefundsAreBounded
<1>1. RefundInv /\ RoomInv => RefundsAreBounded
  <2> SUFFICES ASSUME RefundInv, RoomInv PROVE RefundsAreBounded
    OBVIOUS
  <2>1. ASSUME NEW o \in Orders
        PROVE  AmountOf({r \in RefundsOf(o) :
                           refunds[r].st \notin {"none", "rejected", "failed"}}) <= Amount[o]
    <3>1. {r \in RefundsOf(o) : refunds[r].st \notin {"none", "rejected", "failed"}}
             = HeldIn(refunds, o)
      BY Typed DEF HeldIn, HeldStates, RefundsOf, RefundRow
    <3>2. HeldIn(refunds, o) \in SUBSET Refunds
      BY DEF HeldIn
    <3>3. AmountOf(HeldIn(refunds, o)) = HeldSum(refunds, o)
      BY <3>2, AmountIsTotal DEF HeldSum
    <3>4. QED
      BY <3>1, <3>3 DEF RoomInv
  <2>2. QED
    BY <2>1 DEF RefundsAreBounded, ClaimsWithinAmount, RefundInv
<1>2. QED
  BY <1>1, RefundInvariant, RoomInit, RoomStep, PTL DEF RefundSpec

\* Refunded from paid or fulfilled, an order still moves only forward
\* (MarkOrderRefunded beside the payment requests).
THEOREM RefundsMoveForward == RefundSpec => OrderLifecycle
<1> DEFINE Fwd(o) == LET s == orders[o].st
                         t == orders'[o].st
                     IN  /\ t # s => \/ s = "absent" /\ t = "awaiting_payment"
                                     \/ s = "awaiting_payment" /\ t \in {"paid", "closed"}
                                     \/ s = "paid" /\ t \in {"fulfilled", "refunded"}
                                     \/ s = "fulfilled" /\ t = "refunded"
                         /\ orders[o].pay = "paid" => orders'[o].pay = "paid"
<1>1. ASSUME RefundInv, [Next]_payVars PROVE \A o \in Orders : Fwd(o)
  BY <1>1, StepWrites, Forward DEF RefundInv, IndInv
<1>2. ASSUME orders' = orders PROVE \A o \in Orders : Fwd(o)
  BY <1>2
<1>3. ASSUME RefundInv, NEW q \in RProcs, MarkOrderRefunded(q)
      PROVE  \A o \in Orders : Fwd(o)
  <2> DEFINE x == rjob[q].o
  <2>1. x \in Orders /\ IndInv
    BY <1>3, Typed DEF RefundInv, Fits, MarkOrderRefunded, RAt
  <2>2. CASE CanRefund(orders[x])
    <3>1. /\ orders' = [orders EXCEPT ![x] = [orders[x] EXCEPT !.st = "refunded", !.ent = "revoked"]]
          /\ UNCHANGED <<expired, attempts, callbacks, planOn, trade, payURLs, job, faults, ledger>>
      BY <1>3, <2>2 DEF MarkOrderRefunded, SetOrder
    <3>2. /\ \A o \in Orders : orders'[o].st = IF o = x THEN "refunded" ELSE orders[o].st
          /\ \A o \in Orders : orders'[o].pay = orders[o].pay
      BY <2>1, <2>2, <3>1, RefundedKeeps
    <3>3. QED
      BY <2>2, <3>2 DEF CanRefund
  <2>3. CASE ~CanRefund(orders[x])
    <3>1. orders' = orders
      BY <1>3, <2>1, <2>3 DEF MarkOrderRefunded, SetOrder, IndInv, TypeOK
    <3>2. QED
      BY <3>1, <1>2
  <2>4. QED
    BY <2>2, <2>3
<1>4. ASSUME RefundInv, RefundNext PROVE \A o \in Orders : Fwd(o)
  <2>1. ASSUME NEW q \in RProcs, RefundStep(q) PROVE MarkOrderRefunded(q) \/ orders' = orders
    BY <2>1 DEF RefundStep, RefundLock, RefundInsert, MarkRefundApproved, MarkRefundProcessing,
       AlipayRefund, UpdateRefundFailed, UpdateRefundSuccess, RevokeFromOrder, payVars
  <2>2. ASSUME NEW q \in RProcs, RefundFault(q) PROVE orders' = orders
    BY <2>2 DEF RefundFault
  <2>3. ASSUME NEW q \in RProcs, NEW r \in Refunds,
               \/ \E o \in Orders : \E amt \in 1 .. Amount[o] : StartRefund(q, r, o, amt)
               \/ StartApprove(q, r)
        PROVE  orders' = orders
    BY <2>3 DEF StartRefund, StartApprove, payVars
  <2>4. ASSUME NEW r \in Refunds, RejectRefund(r) PROVE orders' = orders
    BY <2>4 DEF RejectRefund, payVars
  <2>5. QED
    BY <1>1, <1>2, <1>3, <1>4, <2>1, <2>2, <2>3, <2>4 DEF RefundNext
<1>5. RefundInv /\ [RefundNext]_allVars => [\A o \in Orders : Fwd(o)]_payVars
  BY <1>4 DEF allVars
<1>6. QED
  BY <1>5, RefundInvariant, PTL DEF RefundSpec, OrderLifecycle

=============================================================================
