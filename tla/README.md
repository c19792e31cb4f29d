# TLA+ models of admission-api

admission-api is a Go service (gin, PostgreSQL, Redis) behind a college-admission
product: accounts, paid memberships, an AI adviser that chats and drafts volunteer
plans, and read-only admission data.  This directory holds models of the parts in
which several requests, a crash or an outside party can put the stored state wrong:
TLA+ modules, the TLC configurations that check them on small instances, and TLAPS
proofs of the properties that matter most, for every instance.

    tlc -workers 2 -config Payment_alipay.cfg MCPayment     # one run
    tlapm PaymentProofs.tla                                 # one module of proofs

`PROJECT.json` maps every definition to the lines it models and lists runs, mutants,
findings, hazards and theorems.

## 1. The system

| Component | State | Operations | Interacts with |
|---|---|---|---|
| membership store (`internal/membership`) | `user_memberships`, `membership_grants`, `users.role` | grant, revoke, lazy expiry; plan administration | called by payment |
| payment orders (`internal/payment`) | `payment_orders`, `payment_attempts`, `payment_callbacks` | create, pay (mock, Alipay), two callbacks, detect, close, redetect, regrant | membership, Alipay |
| refunds (`internal/payment`) | `payment_refunds` | request, approve, reject, finalize | orders, membership, Alipay |
| Alipay client (`internal/platform/alipay`) | none | page URL, trade query, refund, refund query, signature | external |
| AI turns and chat (`internal/ai`) | in-memory turns with subscribers | start, append, subscribe, finish, retire; chat, regenerate, resume | conversations, the agent |
| conversations (`internal/conversation`) | `conversations`, `conversation_messages` | create, list, add message, roll back, archive, delete | chat, drafts |
| volunteer-plan drafts (`internal/volunteerplan`) | `conversation_plan_drafts`, `user_volunteer_plans` | generate, adopt, supersede, restore, edit, delete | conversations, agent tools |
| agent and model clients (`internal/ai`) | the messages of a run | iterate, stream, call tools, convert messages | turns, drafts, recommendation |
| sessions (`internal/platform/redis`, `internal/user`) | refresh tokens, rotation records, status cache | login, refresh, revoke all, ban | administration |
| phone verification (`internal/user`) | codes, cooldown, quota, attempts in Redis | send, verify, bind | SMS |
| rate limiting (`internal/platform/middleware`) | counters in Redis | count, reject | every route |
| administration (`internal/admin`) | users | disable, role, password, backup | sessions |
| recommendation (`internal/admission`) | cached scores | bucket, rank, fill quotas, refresh scores | catalogue |
| catalogue, analysis, lookup, import | admission data | queries; one-shot import | - |

What is hard here, component by component:

* **membership**: several transactions of one user at READ COMMITTED; a row lock that
  locks nothing when there is no row; a unique key taken before or after the row.
* **payment**: no handler keeps a lock or a transaction across store calls.  Each acts
  on an order row it read earlier, while callbacks (late, repeated, lost), the buyer's
  polling, an administrator and a crash change it.
* **refunds**: money moves outside the database; a reply may be lost after it moved.
* **chat**: one turn at a time per conversation is checked softly, then again; messages
  are inserted before and rolled back after the check that counts.
* **drafts**: the tool of a running turn and the requests of the user write the same rows,
  one store call at a time, and errors after the first write are swallowed.
* **agent**: what a model streams arrives in fragments; the reply streamed, the reply saved
  and the messages the model sees next are three records of the same run.
* **sessions**: revoking is two reads and a delete; a ban is looked up in a cache and a
  row before the request does its work.
* **phone codes, rate limits**: commands of Redis that are not one transaction, with
  expiry between them and undoing after a failure.
* **recommendation**: one call reads its candidates in several queries while scores are
  refreshed and data imported; the fill of a plan is under three caps at once.

What makes each component correct is stated in section 4.

## 2. Modules

| Module | Models | Built on |
|---|---|---|
| `EntitlementLedger` | what the membership store promises: an order is granted at most once, the membership belongs to the order granted last, only that order's refund takes it away | - |
| `Membership` | `GrantMembership`, `RevokeMembershipForOrder`, `HasActiveMembership`, one action per SQL statement | implements `EntitlementLedger` |
| `Payment` | `internal/payment/service.go` up to `fulfillMembership`, one action per store call | uses `EntitlementLedger`'s actions |
| `Refund` | `RefundOrder`, `ApproveRefund`, `RejectRefund`, one action per store call or call to Alipay | extends `Payment`: same orders, same ledger |
| `TurnRegistry` | what the turn manager promises: at most one running turn per conversation, kept for a while when finished | - |
| `Turns` | `internal/ai/turn_manager.go` and `streamTurnToClient`, one action per critical section | implements `TurnRegistry` |
| `Sessions` | `token_manager.go`, `auth_status.go`, the parts of `user` and `admin` that issue, rotate and revoke sessions, one action per script, command or statement | - |
| `PhoneCodes` | `phone_verification.go`, its callers, `ratelimit.go`, one action per Redis, SQL or SMS call | - |
| `Drafts` | `volunteerplan/service.go` and the tool `generate_volunteer_plan_draft`, one action per store call | - |
| `ModelStream` | what `openai_client.go` and `anthropic_client.go` make of an answer, as operators | - |
| `Agent` | `RunStreamWithOptions`, its callbacks, every tool | extends `Drafts`: its tool is that module's; uses `ModelStream` |
| `Recommendation` | `Recommend` and `Preview`, the score refresher, imports under them | - |
| `Chat` | `ChatWithConversation`, `Regenerate`, `runTurnBody` and the message routes of one conversation, one action per call | uses `TurnRegistry`'s actions |
| `MembershipProofs`, `PaymentProofs`, `TurnsProofs`, `SessionsProofs`, `DraftsProofs`, `PhoneCodesProofs`, `ChatProofs`, `RecommendationProofs` | theorems and proofs | extend the module they are about; `PaymentProofs` extends `Refund`, `DraftsProofs` extends `Agent`, and each proves about both parts |
| `MC*` | instances for TLC (`Turns` needs none: its cfg gives every constant) | extend the module they run |

Payment and Refund would be far too large with the SQL statements of the membership
store inside.  They use the one-step `Grant` and `Revoke` of `EntitlementLedger`
instead; `Membership` is shown to implement that specification, by TLC on an instance
(`ImplementsLedger`) and by proof in general (theorem `Refinement`).

### Membership

`row[u]` is the user's `user_memberships` row, `grants` the committed payment rows of
`membership_grants`, `revokes` the keys of its revoke rows.  A transaction `tx[p]` walks
through its statements; its writes appear at COMMIT.  `rowLock` and `keyLock` stand for
PostgreSQL's row locks and for the wait on an uncommitted unique key.  FOR UPDATE on a
missing row locks nothing, so two first activations may overlap: `AccessLostOnlyByRefund`
names that exception, and the ledger of grants still has both.  A transaction may be
aborted at any statement (error, cancelled context, crash); one in a cycle of waits is
aborted by the deadlock detector.  `req.Now` is read before the transaction begins and
may be older than the commit.  A revoke's INSERT, two UPDATEs and COMMIT are one action:
from its lock to its commit the row is locked and no other statement can meet it, and
two revokes of one refund are told apart by `RevokeConflict`.

### Payment

`job[p]` is the request that goroutine `p` serves: the store call it is about to make,
the order row it read last (`snap`), the trade it is to credit.  A store call is one
action with its WHERE clause as guard and both outcomes; an error return follows the
handler's code (a callback records it, `fulfillMembership`'s callers mark the
entitlement failed, Detect ignores a failing query).  `StoreError` lets any call fail,
`Crash` ends the request anywhere; both are bounded by `MaxFaults`.

Alipay is seen through its effects: `trade[o]` is what it knows of the order,
notifications of a successful trade arrive any number of times, in any order or not at
all, with a right or a wrong amount.  `attempts[o]` keeps for each attempt its trade
number, None until it is credited: the store never writes one without the other.
Amounts, subjects, payloads, paging and response formats are left out; `expires_at` is
a flag that may turn true at any time.  `CreateOrder`'s two statements are one action:
between them only the same idempotency key can matter, which then finds the row.

### Refund

Adds `payment_refunds`, the order row's lock of `CreateRefundRequest`, and `fund[r]`,
what Alipay really did about a refund.  The call to Alipay has four outcomes: executed
and confirmed, executed with the reply lost, refused, not reached.  `QueryRefund`, a method
of the service that no route and no other code calls at this commit, is left out.

### Turns

`turns[c]` is the manager's map, `turn[t]` a Turn object, `client[x]` an HTTP connection
inside `streamTurnToClient`: the backlog copy it has still to write, its channel, what it
has been written, and as a history variable what was dropped on its full channel.  The
manager's and the turn's mutex make each critical section one action.  An event is its
number.  Nothing is persisted, so a restart is the initial state again.

### Chat

One conversation.  A request's calls (GetConversation, the soft look at the registry, the
insert, `TurnManager.Start`, the rollback) are separate actions, as are the calls of the
turn's body.  Messages are in order of (created_at, id), taken to be the order of their
insertion.  The agent answers, fails or runs into its deadline.  `RequestFails` and
`BodyFails` let a call fail and follow the code's error path, `Restart` forgets turns and
requests and keeps the messages; `MaxFaults` bounds the three together.  `asked` is a
history variable, the questions whose turn was started.  Left out: contents, the limit of
500 messages a list returns, `updated_at`.

### Sessions

One account; every row and key carries the user's id.  A token pair is a number in the
order of issue.  `Save` and `RotateSingleUse` are Lua scripts, hence one action each;
the rest of a handler is one action per command or statement.  A rotation record lives
for the replay window: within it the old token still yields its successor, `Expire`
actions end it and the other keys at any time.  `RevokeUserSessions` reads the hashes of the
user's index, then the platforms, then deletes what it read.  A request that must be logged in
looks at the cached status first, at the row only when the cache has nothing or fails
(`auth_status.go`), and then its route runs.  The calls after a committed row (revoking, caching the status) may fail, as the handlers that
log or return such errors let them.

### PhoneCodes

One phone number, three scenes: each has a code and a counter of wrong attempts, while
cooldown and daily counter are shared.  Codes are numbered in the order they are drawn, so
no two are equal by chance.  `Expire` actions remove keys, `Midnight` moves the day on (the
daily key carries the date, so a sender may undo on a day other than the one it counted
on).  A fault is a failing call, which did nothing, or a handler that dies between two
calls.  `delivered`, `holds`, `window`, `disturbed` and the like are history
variables, listed as such.
The rate limiter in front of the anonymous routes is INCR, then EXPIRE if the answer was 1.

### Drafts, Agent, ModelStream

`Drafts` has the rows of one conversation, which is active, archived or deleted: drafts in
order of creation, and for each the plan made from it.  The tool runs inside the
conversation's turn; adopting, and deleting a plan or archiving or deleting the
conversation, run beside it.  Deleting a conversation sets its status and keeps every
draft, and adopting one of its drafts archives it like any other.  A call may fail, or take effect and lose its answer; a context
that is over (`expired`, `cut`) fails every later call made with it.  History variables:
`crossed` (drafts superseded under an adoption), `buried` (plans deleted when no adoption
of them was under way) and `hurt` (drafts a failure hit).

`Agent` drives that tool: `Answer` takes what the model answers, `StartCall` and `EndCall`
bracket each call, `Iterate` goes round.  The stream of an answer is any of `Streams`; a fragment's
arguments are pieces `<<call, number>>`, so that whether a call is what the model meant can
be told without its text.  What the service takes for granted of a server is stated as
`WholeAssumption`: a stream that is not cut short says each call whole (`Whole`: an index
of its own, its id, its pieces once and in order, calls begun in order, nothing after
"tool_calls"), in any interleaving and with any ending.  Calls without rows (search, filter, aggregate...) differ only in
whether their rows can be charted and whether they are widgets.

### Recommendation

The call reads the year, three windows of candidates and the latest names in separate
queries; an import or a refresh may come between any two.  What follows is computation:
filtering, scoring, ordering, tiers, the quota each tier passes on, and the groups and
majors shown, written as operators over what was read.  A line is a record of what those
operators compare (`Line`), a request one of what they are asked (`Request`).  `Sorted`
stands for the stable sort and `At` for the loops that keep some elements in their order.
Scores keep the code's comparisons, sums and clamps; the numbers of the
single factors are data.

## 3. Runs

| Run | Instance | Checks |
|---|---|---|
| `Membership_safety` | 1 user, 2 orders, 2 refunds, 2 transactions, clock 0..3 | safety of the store, the refinement, `TransactionsFinish` |
| `Payment_alipay` | 1 order, 2 requests of six kinds, 2 notifications, 1 fault | safety of orders, credits and grants |
| `Payment_mock` | 2 orders, 2 concurrent mock callbacks | one trade cannot pay two orders |
| `Payment_liveness` | 1 order, 2 requests, 1 notification, 1 fault | `PaidTradeSettles` |
| `Refund_review` | 1 order of 2 units, 3 refunds, 2 requests (ask, approve, reject) beside a payment request, 1 fault | amounts, approvals, money and books agree, life cycle |
| `Refund_regrant` | violation | see Findings |
| `Turns_streams` | 1 conversation, 2 turns, 2 clients, channels of 1, 3 events | streams, exclusion, refinement, liveness |
| `Chat_refused` | 2 requests of every kind, messages up to 3, 1 fault | refused chats and running turns' questions |
| `Sessions_races` | 3 handlers, 2 platforms, 2 passwords, 3 token pairs, 3 requests | rotation, revocation, bans, lockout |
| `PhoneCodes_races` | 2 handlers, 2 users, limits 1 (day), 2 (wrong attempts), 2 (rate), 2 codes, 3 events, 1 fault, 1 midnight | counters, cooldown, codes |
| `Agent_drafts` | 2 requests beside the turn, 2 inputs, 2 drafts, 4 requests, 2 turns of 2 iterations, 1 widget, 1 fault, every stream of `MCStreams` | drafts, plans, messages, replies |
| `Recommendation_plans` | every table of up to 4 of 8 lines, 7 requests, 1 change under the call | the plan returned, and what it was made from |

Why the bounds are enough.  *Membership*: all conflicts are between transactions of one
user; two orders give renewals and later orders, two transactions every conflict of two,
among them the one that holds the key and wants the row against the one that holds the
row and wants the key; day counts 2 and 1 on a clock of 4 values give overlapping,
adjacent and expired memberships.  *Payment*: orders share nothing but trade numbers, so
one order suffices except for the mock callback, which has its own run with two; two
goroutines give every pair of stale read and overwriting write, and since a request keeps
nothing when it ends any number of requests follow one another.  One fault reaches each
error path in each state; the proofs need no bound.  `MaxAttempts` bounds the pay
requests, not the attempts a callback or detection creates.  *Refund*: amount 2 gives
full, partial and two partial refunds; the third refund is asked for when another has been
paid, has failed or was rejected.  *Turns*: conversations share only the map; two
turns give a running turn with a predecessor whose timer is still to fire, three events
against a channel of one give a drop followed by a delivery.  *Chat*: two requests and the
body of a turn are the three parties that can meet; three messages give a question, a
reply and a message after them.  *Sessions*: a revocation, a rotation and a login or ban
are three handlers; three pairs give a token, its successor and one of another platform.
*PhoneCodes*: two handlers and two codes give a code, its replacement, and whoever still
holds the first; the limits are small so that three requests reach each.  *Agent*: two
drafts give a reuse and a supersession; a second adopter competes with the first and with
the tool; the streams have every order of the fragments of up to two calls and every way
of ending.  *Recommendation*: two schools with two groups each and three windows are
needed for a place to be passed on or taken by a cap; the plan sizes cross the default and
the cap.

Symmetry is used for goroutines and identifiers, only in runs without liveness.
`Payment_alipay` uses a VIEW that drops the fields of a job that the rest of its request
never reads; the properties do not read them.

`Recommendation_plans` checks for deadlock: a call always ends.  In the other runs
CHECK_DEADLOCK is FALSE: a service with no requests left may stop, e.g. when every order is
closed and the clock at its bound.

Fairness.  A goroutine that can take its next step takes it (WF on the steps of a
request): Go's scheduler and the request timeouts see to it.  Statements that wait for a
lock get strong fairness: PostgreSQL queues waiters and serves them in turn.  The
deadlock detector runs (WF).  Payment retries nothing by itself, therefore
`PaidTradeSettles` also assumes that the buyer keeps asking (SF on `StartDetect` for
each order: the pay page polls the detect route, and a server has a goroutine for every
request, which the model's two are not always).  The plan must eventually be for sale
again; this hypothesis is part of the property.  A turn's body ends (WF on `Finish`): its
context has a deadline of ten minutes, which the agent's calls obey.  Retention timers
fire (WF on `Retire`), and a streaming loop goes on (WF on `Stream`); nothing is assumed
about clients leaving.

## 4. What the properties say

Each is stated in words above its definition and has a mutant: a definition it depends on
with a plausible bug, under which TLC finds it violated.  Where a property has parts they
are separate definitions.

| Property | Says |
|---|---|
| `OneGrantPerOrder` | concurrent fulfilments of an order leave one grant |
| `RowsAgree` | the membership row is the grant it names, as granted or as cut short by its refund |
| `RenewalsExtend`, `AccessLostOnlyByRefund` | paid time is never lost, but for that order's refund and the overlap of two first activations, which the property names |
| `ImplementsLedger`, `TransactionsFinish` | the transactions act as one step each; none waits for ever |
| `OrderLifecycle`, `GrantsMatchPayments` | orders move forward; granted orders were paid, fulfilled ones granted |
| `BooksAgree`, `TradeCreditedOnce` | a payment has its credited attempt, a processed callback its credit, a trade one order |
| `PaidTradeSettles` | what was paid at Alipay is in the end granted or refused for good |
| `RefundsAreBounded` | the refunds of an order that wait, are under way or were paid out never claim more than its amount; rejected ones, and those recorded as failed, claim nothing |
| `MoneyNeedsApproval`, `RefundsMatchMoney` | money moves after an approval that stands; successful refunds and refunded orders were paid back |
| `StreamFaithful`, `TurnsAreSound` | a client gets each event once and in order, but for what its full channel dropped; one running turn, no send on a closed channel |
| `ImplementsRegistry`, `StreamsEnd`, `TurnsAreForgotten` | the manager is the registry `Chat` is built on; clients and the map are released |
| `RefusalsAreClean`, `QuestionKept` | a refused chat leaves no message (without faults); a running turn keeps its question unless other requests overlapped the one that asked it, or a rollback was asked for |
| `OneSuccessor` | all who present a refresh token get the one that replaced it |
| `LostSessionsRaced` | a session that the user's index has lost, so that a revocation would miss it, was stored during a change of the account |
| `SessionsAreSound` | at rest, a session not stored during a change is the only one of its platform, carries the account's present privilege and password, and is not that of a banned account |
| `BansAreExact` | who is served was active at some moment since the request arrived; an active account is locked out only after two changes of it overlapped or one failed half way |
| `CountersAreExact` | the messages sent on a day's slots stay within its limit, a failed send costs nothing, the limiter is stuck only where an EXPIRE was lost |
| `CooldownSeparates` | two codes delivered within a cooldown were sent by overlapping requests or after a fault |
| `DeliveredCodeLives` | a delivered code is in place until used, replaced, exhausted, expired or deleted by an overlapping or failing request |
| `CodesAreGuarded` | a code is used once, in its scene, after fewer wrong guesses than allowed, unless requests overlapped |
| `DraftsAreFew` | one open draft (ready or generating), and one more per fault; one draft made after archiving or deleting; a draft is stuck 'generating', and the tool refuses for it, only when a failure hit that draft |
| `PlansFollowDrafts` | drafts and plans agree, unless a failure hit just that draft; a deleted plan does not return; the draft announced is the one asked for |
| `CallsAreMeant` | the calls the agent executes are those the model meant, whole and in order, unless the stream was cut |
| `MessagesArePaired` | every call the model sees has its result, and Anthropic's API takes the messages |
| `RepliesAreComplete` | calls are bracketed by their events, the reply returned is the reply streamed, charts have their rows |
| `PlacesAreSound` | a plan has no group twice, no university above its cap, and later tiers are no harder |
| `BestFillThePlan` | the plan returned is short only by the safe places dropped for a small quota, and where the last tier ran out (each safe candidate left over has its group picked or its university at the cap); a better candidate was passed over only for picks made before it |
| `GroupsAreComplete` | a group lists its majors, the chosen one first, while there is room; a plan saved in the old format reads back alike |
| `ExcludedIsNotShown` | what the student ruled out, judged by the latest known names, is not shown |
| `PoolIsConsistent` | a preview counts every surviving candidate in one tier; one major has two stored scores in a pool only after a refresh under the call |

### Findings

* `Refund_regrant`: `RegrantMembership` looks only at `payment_status`, which a refund
  leaves at 'paid', so an order refunded before it was fulfilled can be granted a
  membership (README.md:268 describes the route as for paid, unfulfilled orders).

### Observations

Behaviours met while modelling, which the properties allow for by name or which need no
model to be seen:

* *Payment, refunds.*  A refund approved when the process dies before the call to Alipay
  stays 'approved' and its amount locked; no route takes it up (service.go:739).  Errors
  of finalizing a full refund are only logged (:787).  Two partial refunds of the whole
  amount never finalize.  A refund executed at Alipay whose reply was lost is recorded as
  failed, so its amount may be asked for again; only Alipay's own bound covers the money
  then.  `QueryRefund`, which could correct the record, is called by nothing (:823).
* *Chat.*  Two chats may both pass the soft check and insert their questions; the one
  refused rolls back from its own question on and may take the running turn's question
  with it (ai/handler.go:483; the comment at :463 warns of a history without its
  question).  Regenerate may act on a history read before a turn saved its reply (:579),
  and one that is refused has discarded the reply already (:568).  A conversation archived
  or deleted during a turn still gets the reply (:614); a restart leaves a question
  without one (:477).
* *Conversations.*  The way of editing a message that the comment of `RollbackRequest`
  describes (conversation/handler.go:194), post the edit, then roll back inclusive from
  the old message, deletes the edit too.
* *Drafts.*  A draft left 'generating' by a deadline, a panic or a restart makes the tool
  refuse in this conversation from then on; the comment at ai/tools.go:258 takes such a
  draft for one that is still being saved, which it never is (`StuckNeedsFault`).  Adopting
  again after the plan was deleted is refused by the draft's status, so the branch of
  `CreateFromDraft` that restores a deleted plan (plan_store.go:119) is reached only by an
  adoption that overlaps the deletion or follows a failed `MarkAdopted`.  Adopting a draft
  of a deleted conversation, or archiving it, turns 'deleted' into 'archived'.
* *Agent.*  A run that reaches its limit of iterations returns the partial reply
  (agent.go:201), which `runTurnBody` discards (handler.go:292).  A stream that ends
  cleanly in the middle of a call is flushed as a broken call, although
  openai_client.go:116 promises callers no partial arguments.  `utf8DeltaBuffer` has no
  effect behind `json.Unmarshal`.  No tool's Execute returns an error.  The tools reset
  the `sync.Once` of the city options by assignment (ai/tools.go:105, :132) while another
  turn may be inside its Do, which the comment at :128 considers and which the
  sync package does not allow.
* *Sessions.*  `RevokeUserSessions` can miss a session stored between its reads and its
  delete.  An `UpdateUser` repeated after its revocation failed finds nothing changed and
  revokes nothing (admin/service.go:157).
* *Recommendation.*  The quality filter drops places of a plan without refilling them.
  Refreshed scores and scores computed in the call differ for the same line, so a refresh
  under the call mixes them.  Overlapping refreshes evaluate the same rows, and a refresh
  always takes the head of the pending ones.  Two groups that differ only in their batch
  have one identity (recommendation_service.go:553).

## 5. Proofs

`MembershipProofs`.  From `MembershipAssumption` (types of the constants; NoOrder and
None are not members of the sets they are absent from).  The properties are not
inductive: that a commit is right depends on what the transaction read under its lock.
`IndInv` adds three parts: `RequestInv` (a transaction in progress has its order, and a
revoke its key), `KeyInv` (past the insert a grant owns its key and no grant row has it)
and `RowInv` (past the lock a transaction that found a row owns it, and the start it
computed is still not before the row's end; a revoke's order is still the row's last).
From it follow the action properties too: which commit may end an active row, and that it
is a revoke's, of the row's last order, or a first activation that read no row.
Theorems: `Typing`, `Locking` (`[]IndInv`), `GrantedOnce`, `Renewals`, `Revocations`,
`AccessKept`, `RowAgreement`, `Refinement`.

`PaymentProofs`.  From `PaymentAssumption`.  `IndInv` adds to the types `JobInv` (a
request in progress has its order), `OrderInv` (what combinations of statuses an order
can have, and their relation to the ledger) and `KnowsInv` (what a request may conclude
from where it is: on the way to a grant its order is paid, on the way to marking it
fulfilled it is granted, and a row in hand that says so is still right about it).
For the books, also from `TradeAssumption` (None is no trade), `ClaimsInv` says what trade a
request holds at each call: its own and genuine before the credit, among the credits
after it; `SlotInv` that the attempt it is about to credit is pending and nobody else's, so
a credit never overwrites one.  Theorems: `PaymentTyping`, `PaymentInvariant`,
`GrantsArePaid`, `OrdersMoveForward`, `CreditedOnce`, `Books`.

Its second half is about `Refund`, from `RefundAssumption` too.  `RefundInv` carries
Payment's `IndInv` through every step and adds `Fits` (what a refund request may rely on
at each call: whose lock it holds, that its row is still as it left it), `Apart` (a new
refund, and one that is approved, belongs to a single request) and `BooksInv` (statuses of a refund, of its fund and
of its order).  `RoomInv` is about sums: a request that is about to insert a refund
holds its order's lock, and what was claimed when it summed has not grown since, so the new
refund fits in the rest; everybody else at most takes a refund from the sum.  The sums are
folds over finite sets.  `Total` describes such a fold by the function it builds up, and
its laws (one element more adds its value; a smaller set, or smaller values, have a smaller
sum) are proved by a smallest counterexample, since an induction rule cannot be
instantiated here; `FoldIsTotal` says that the model's sum of amounts is one.  `RefundAssumption` says
that None is no refund process, as a lock's owner must be told from nobody.  Theorems:
`RefundInvariant`, `MoneyIsApproved`, `BooksFollowMoney`, `RefundsMoveForward`,
`BoundedRefunds`.

`TurnsProofs`.  From `TurnsAssumption` (a channel holds at least one event, NoTurn is no
turn).  `TurnInv` adds to the types `HoldInv` (a client that is not away has a turn),
`MapInv` (the map files a turn under its own conversation, running or kept; so a timer
finds itself or a successor) and `SubInv` (a subscriber's turn is running).  For the
streams `StreamInv` adds that a client which has subscribed stays among the subscribers
for as long as its turn runs, that a new client starts with nothing, and that one past
its replay has no backlog left; the rest is lemmas about concatenation.  Theorems:
`TurnsTyping`, `TurnsInvariant`, `OneTurn`, `NoSendOnClosed`, `FaithfulStreams`,
`TurnsRefinement`.

`SessionsProofs`.  From `SessionsAssumption`.  `SuccessorInv` says that a live or unissued
token has no successor and that the pair kept for late presenters is the one handed out;
every action is one of a few effects on tokens (`TokenStep`), so the invariant is proved
of the effects and each action shown to have one.  `LossInv` adds that a revocation about
to delete has found every live session of the index but those stored by handlers that
overlapped it.  `SessionInv` is about what a handler still has to do (`Fits`, with
`Planned`: a change reads, writes the row once, and only then works in Redis, and a write
that takes something from the sessions has their revocation behind it): unless a
revocation is still to come, the sessions that raced nothing are those of the row and no
pending write passes them by (`Current`), a handler about to save a session that no change
has met holds the row as it is (`Settled`), and while no two changes overlap the flag is
the row's or about to be dropped (`FlagInv`).  It is inductive together with `LossInv`: a
revocation is sure only because it has found all that raced nothing.  Theorems:
`SingleSuccessor`, `LostRaced`, `SoundSessions`, `ExactBans`.

`DraftsProofs`.  About `Agent`, from `DraftsAssumption` and `AgentAssumption`, and for
`MeantCalls` from `WholeAssumption`.
`DraftsInv` adds to the types `Announced` (what the tool holds is its own draft, or one of
the same input), `Buried` (a buried plan is out of every request's reach), `Backed` (who
marks a draft adopted has stored its plan) and `Faultless`: a draft that no failure hit is
`Sound`, whatever failed elsewhere.  When it is ready and has a plan, a request is about to
mark it; when it is neither ready nor adopted it has neither plan nor adopter, unless it was
superseded under one; and with a plan its conversation is closed or about to be.  `FewInv` is
about how many drafts there are: the tool runs only inside its call (`Called`) and works on
the newest draft (`Newest`), so a late draft is the only one and no call that checked the
conversation before can add another (`LateOnce`); every open draft but the newest was left
by a failure, and so was the newest when the tool is about to create the next (`Paid`); a
draft that is being generated has its tool or was hit by a failure (`Attended`), and the
tool refuses only for one of the latter (`Refused`).  It
needs `RunInv`, the types of the run, and these need that what the client makes of a
stream is a sequence of calls: `FoldChain` gives the steps of `FoldLeft` one by one, by a
smallest counterexample like the sums of `Refund`.
`ReplyInv` is about what the client sees: calls and results are numbered as they come
(`Counted`), all of them have been announced and nothing beyond (`Announcements`), and
until the run fails the events of each type are what the run keeps (`Told`).
`MessageInv` is about what the model sees while only the first calls of an answer are
done: each result is in its place behind its answer and an answer with calls to do is the
last one (`Paired`); in Anthropic's form an answer is the last message or is followed by one
with the results that are in (`Gathered`), and the last answer is the unfinished one
(`Unfinished`), so the next result begins a message or joins the last one.  That these three
survive an answer and a result is proved about sequences (`AnswerJoins`,
`ResultJoinsMessages`), from `IdsAppended` and `BlockAppended`: a fold over one element more
does one step more.
`MeantInv` says that what was executed and what is left of the answer is what was meant.
It needs that a whole stream is heard as it was meant (`HeardAsMeant`): after each fragment
what is gathered is, for each call that has begun, the pieces among the fragments so far
(`Collected`, kept by `GatherOne`), and after each line these are the calls handed out
followed by those pending, of which one kind is empty (`Heeded`, kept by `HeededRead`).
Theorems: `DraftsInvariant`, `PlansAgree`, `FewInvariant`, `TypesKept`, `FewDrafts`,
`ReplyInvariant`, `CompleteReplies`, `MessageInvariant`, `PairedMessages`,
`MeantInvariant`, `MeantCalls`.

`PhoneCodesProofs`.  From `PhoneCodesAssumption`.  The properties speak of what was done
without another handler or a failed command in between, so the invariants do too.  `Base`:
two handlers at work on one subject have each disturbed what the other works with, and a
key holds a code of its own scene.  `Quota`: a counter is the number of slots taken, and a
slot is either spent on a message or its taker is still to give it back.  `Apart`: while
an undisturbed message is younger than the cooldown, the cooldown is on and no handler is
past its check.  `Guarded` says what a sender, a verifier and a key with an undisturbed
code may rely on at every call.  Theorems: `Handlers`, `ExactCounters`, `Separated`,
`GuardedCodes`, `DeliveredLive`.

`ChatProofs`.  From `ChatAssumption`.  `Shape` adds to the types that messages are in the
order of their ids and which message a request is about at each call, so a rollback
keeps a beginning of the messages; with it a refused chat's question is always `Owed` to
somebody or gone.  `Alone`, about histories without overlap, says that there is one
request at most, that it writes its question while no turn runs, and that a reply is never
newer than the question being answered: so no regeneration discards from before it.
Theorems: `Conversation`, `Refusals`, `Questions`.

`RecommendationProofs`.  From `CapsAssumption` (the caps are positive) and
`DataAssumption` (types of lines and requests; the rows are finitely many).  `Inv` is
inductive: `Counted` says that the loop's sets and counters are those of its picks
(`Tally`), `Windowed` that each pick lies in the window of its tier, `BestPicked` that
whoever ranks before a pick in its window was blocked by earlier picks, `Filling` that a
candidate no longer left in the tier cannot be taken any more and that the places left to
the later tiers add up with the picks to the plan's size; `Framed` that the windows follow
one another, `Fetched` that a score read is the stored one or has been written since, and
`Fresh` that no step finds what a later one makes.  The properties of the plan are about
the picks, so they follow; what the reply makes of them rests on lemmas about lists.
`Sorted` numbers a member by how many come before it: in a strict order (`RankingOrders`:
score, then query, rank and id) each number up to the size belongs to exactly one
(`Depths`), so the list holds every member once and in order (`SortedLists`,
`AtTakes`); `FillUpFills` then says what a group's majors are.  That the plan returned is short for those reasons only rests on `ItemsArePicks` (the
items are what the quality filter leaves of the picks) and `ReturnedOrDropped` (with those it
drops they are all of them).  `PreviewCountsThePool`,
`GroupsAreComplete` and `Screened` (what survives the filters is of a class that was
kept) are kept by every step beside `Inv`.  Theorems: `PlanInvariant`, `SoundPlaces`,
`BestFill`, `ConsistentPool`, `CompleteGroups`, `NothingExcluded`.

`OrderLifecycle`, `TurnsAreSound` and the others named in PROJECT.json are proved as
stated in the runs.  Every safety property of the runs that pass is stated by a theorem.
Only model-checked: all liveness (out of the prover's reach).

## 6. Plan

Done: the ledger, `Membership`, `Payment`, `Refund` and their proofs; the registry,
`Turns`, `Chat` and their proofs; `Sessions`, `Drafts`, `PhoneCodes` and their
proofs; `Agent`, `Recommendation` and their proofs.

## 7. Not modelled

Plan administration beyond a plan being for sale; signatures, certificates and URLs of
the Alipay client; read-only queries (catalogue, analysis, lookup, lists and details);
data import beyond the change of a line under a recommendation; backup, configuration,
health, SMS transport; prompts, tool schemas, the building of charts and forms and the
cache of city options; user profiles and score snapshots; titles and remarks of plans;
the stateless chat route; the conversation store's hard delete and `QueryRefund`, which
nothing calls.  They keep no state of their own, only read it, or write one row
that nothing else depends on.

Assumptions of the models themselves.  A failing Redis command did nothing (one that timed
out may in truth have taken effect), keys expire when their TTL says (its rounding is
ignored), and TTL followed by EXPIRE on the counter of wrong attempts is one step.  The daily
limit is switched on.  Messages are ordered by insertion.  Of a recommendation request only
the rank and the number of electives are validated; region, category, total score and the
electives' codes and duplicates are taken to be right, and the legacy filter by
SubjectRequirementCode is not used.  Lines of one university that tie in the query's ORDER BY
come in the order of their ids.  An import under a call changes a rank, it adds and removes no
line.  The evaluator's extra weight for a strategy is left out.
