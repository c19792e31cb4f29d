---------------------------- MODULE PhoneCodes ----------------------------
(***************************************************************************)
(* SMS verification codes for one phone number, and the rate limiter the   *)
(* anonymous routes sit behind.                                            *)
(*                                                                         *)
(* All Redis keys carry the phone number, so one number is enough.  Three  *)
(* scenes ask for codes: registration and login (anonymous) and binding    *)
(* the number to an account (logged in).  Code and attempt counter are kept*)
(* per scene, cooldown and daily counter are shared.  A handler is a       *)
(* sequence of Redis, PostgreSQL and SMS calls, one step each, and the     *)
(* handlers interleave between them.  Codes are numbered in the order they *)
(* are generated: two codes are never equal by chance.                     *)
(***************************************************************************)
EXTENDS Naturals, FiniteSets

CONSTANTS
    Procs,        \* request handlers that may run at the same time
    Users,        \* accounts the number may belong to
    DailyLimit,   \* PhoneVerificationConfig.DailyLimit, > 0: limit enabled
    MaxAttempts,  \* PhoneVerificationConfig.MaxAttempts
    RateLimit,    \* limit of RateLimitMiddleware
    MaxCodes,     \* bound: codes ever generated
    MaxEvents,    \* bound: requests, midnights and changes of number
    MaxFaults,    \* bound: calls that fail, and handlers that die
    LastDay,      \* bound: days that pass
    None          \* an absent value

ASSUME PhoneCodesAssumption ==
    /\ DailyLimit \in Nat \ {0}
    /\ MaxAttempts \in Nat \ {0}
    /\ RateLimit \in Nat
    /\ MaxCodes \in Nat \ {0}
    /\ MaxEvents \in Nat
    /\ MaxFaults \in Nat
    /\ LastDay \in Nat
    /\ None \notin Users \cup Nat

Scenes == {"register", "login", "bind"}
Codes == 1..MaxCodes
Days == 0..LastDay

VARIABLES
    owner,       \* the account whose users.phone is the number
    code,        \* the code keys, one per scene
    attempts,    \* the attempts keys; 0 is an absent key
    attemptsFor, \* the code whose TTL the attempts key was given, or None
    cooldown,    \* the key sms:cooldown:<phone> exists
    day,         \* the date
    daily,       \* the keys sms:daily:<phone>:<date>
    hits,        \* the key ratelimit:<ip>
    hitsExpire,  \* that key has a TTL
    generated,   \* codes generated so far
    req,         \* the request each handler serves
    budget,      \* events that may still happen
    faults,      \* failures that may still happen
    \* History, read by no handler:
    sceneOf,     \* the scene a code was generated for
    holds,       \* the codes that hold a slot of a day's counter
    delivered,   \* codes the SMS gateway took
    window,      \* codes marked with a cooldown since the last one ended
    gone,        \* codes that expired, were replaced, used, or guessed at
                 \* MaxAttempts times
    uses,        \* the scenes' verifications that accepted a code
    wrong,       \* wrong guesses compared with a code
    disturbed,   \* codes such a handler, or a failing one, touched
    leak,        \* a slot was lost to a failure
    lostExpire   \* an EXPIRE of the rate limiter was lost

keys    == <<code, attempts, attemptsFor, cooldown, daily, hits, hitsExpire>>
bounds  == <<day, generated, budget, faults>>
history == <<sceneOf, holds, delivered, window, gone, uses, wrong,
             disturbed, leak, lostExpire>>
vars    == <<owner, keys, bounds, req, history>>

-----------------------------------------------------------------------------
(* Handlers *)

\* met: another handler has run at the same time.
NoRequest == [pc |-> "idle", send |-> FALSE, scene |-> "login", user |-> None,
              code |-> 0, saved |-> 0, day |-> 0, undo |-> {},
              met |-> FALSE]

Busy(p) == req[p].pc # "idle"
At(p, pc) == req[p].pc = pc
Goto(p, pc) == req' = [req EXCEPT ![p].pc = pc]
End(p) == req' = [req EXCEPT ![p] = NoRequest]

\* The codes a handler works with: the one it sends, the one it has read.
Touches(p) == {req[p].code, req[p].saved} \cap Codes

\* A request reaches its route.  The anonymous routes are rate limited.
Begin(p, r) ==
    LET others == {q \in Procs \ {p} : Busy(q)}
    IN  /\ ~Busy(p)
        /\ budget > 0
        /\ budget' = budget - 1
        /\ req' = [q \in Procs |->
             IF q = p
             THEN [r EXCEPT !.pc = IF r.scene = "bind" THEN "eligible" ELSE "limit",
                            !.met = (others # {})]
             ELSE [req[q] EXCEPT !.met = @ \/ q \in others]]
        /\ disturbed' = disturbed \cup UNION {Touches(q) : q \in others}
        /\ UNCHANGED <<owner, keys, day, generated, faults, sceneOf, holds, delivered,
                       window, gone, uses, wrong, leak, lostExpire>>

SendAuthCode(p) == \E s \in {"register", "login"} :
    Begin(p, [NoRequest EXCEPT !.send = TRUE, !.scene = s])

SendPhoneVerificationCode(p) == \E u \in Users :
    Begin(p, [NoRequest EXCEPT !.send = TRUE, !.scene = "bind", !.user = u])

\* A code is presented: one that came by SMS, or a wrong one (0).
Presented == delivered \cup {0}

RegisterByPhone(p) == \E u \in Users, c \in Presented :
    Begin(p, [NoRequest EXCEPT !.scene = "register", !.user = u, !.code = c])

LoginByCode(p) == \E c \in Presented :
    Begin(p, [NoRequest EXCEPT !.code = c])

VerifyPhoneCode(p) == \E u \in Users, c \in Presented :
    Begin(p, [NoRequest EXCEPT !.scene = "bind", !.user = u, !.code = c])

-----------------------------------------------------------------------------
(* RateLimitMiddleware *)

\* INCR, and EXPIRE when it was the first of the window.
Limit(p) ==
    /\ At(p, "limit")
    /\ hits' = hits + 1
    /\ IF hits' = 1 THEN Goto(p, "expireHits")
       ELSE IF hits' > RateLimit THEN End(p)
       ELSE Goto(p, IF req[p].send THEN "eligible" ELSE "get")
    /\ UNCHANGED <<owner, code, attempts, attemptsFor, cooldown, daily, hitsExpire,
                   bounds, history>>

ExpireHits(p) ==
    /\ At(p, "expireHits")
    /\ hitsExpire' = (hits > 0)
    /\ IF RateLimit = 0 THEN End(p)
       ELSE Goto(p, IF req[p].send THEN "eligible" ELSE "get")
    /\ UNCHANGED <<owner, code, attempts, attemptsFor, cooldown, daily, hits,
                   bounds, history>>

-----------------------------------------------------------------------------
(* Sending a code *)

\* checkSceneEligibility and ensurePhoneAvailable.
Eligible(scene, user) ==
    CASE scene = "register" -> owner = None
      [] scene = "login"    -> owner # None
      [] scene = "bind"     -> owner \in {None, user}

CheckEligibility(p) ==
    /\ At(p, "eligible")
    /\ IF ~Eligible(req[p].scene, req[p].user) THEN End(p)
       ELSE Goto(p, IF req[p].send THEN "cooldown" ELSE "get")
    /\ UNCHANGED <<owner, keys, bounds, history>>

\* Mutant of CheckCooldown: the key is not looked at.
CheckCooldownSkipped(p) ==
    /\ At(p, "cooldown")
    /\ generated < MaxCodes
    /\ generated' = generated + 1
    /\ req' = [req EXCEPT ![p].pc = "reserve", ![p].code = generated']
    /\ sceneOf' = [sceneOf EXCEPT ![generated'] = req[p].scene]
    /\ disturbed' = IF req[p].met THEN disturbed \cup {generated'} ELSE disturbed
    /\ UNCHANGED <<owner, keys, day, budget, faults, holds, delivered,
                   window, gone, uses, wrong, leak, lostExpire>>

\* EXISTS on the cooldown key; then a code is generated.
CheckCooldown(p) ==
    /\ At(p, "cooldown")
    /\ IF cooldown
       THEN End(p) /\ UNCHANGED <<generated, sceneOf, disturbed>>
       ELSE /\ generated < MaxCodes
            /\ generated' = generated + 1
            /\ req' = [req EXCEPT ![p].pc = "reserve", ![p].code = generated']
            /\ sceneOf' = [sceneOf EXCEPT ![generated'] = req[p].scene]
            /\ disturbed' = IF req[p].met THEN disturbed \cup {generated'} ELSE disturbed
    /\ UNCHANGED <<owner, keys, day, budget, faults, holds, delivered,
                   window, gone, uses, wrong, leak, lostExpire>>

\* Mutant of ReserveDailySendSlot: the counter is compared before INCR.
ReserveDailySendSlotBefore(p) ==
    LET c == req[p].code
        pass == daily[day] <= DailyLimit
    IN  /\ At(p, "reserve")
        /\ daily' = [daily EXCEPT ![day] = @ + 1]
        /\ req' = [req EXCEPT ![p].day = day,
                     ![p].pc = IF daily'[day] = 1 THEN "expireDay"
                               ELSE IF pass THEN "code" ELSE "release"]
        /\ holds' = [holds EXCEPT ![day] = @ \cup {c}]
        /\ UNCHANGED <<owner, code, attempts, attemptsFor, cooldown, hits, hitsExpire,
                       bounds, sceneOf, delivered, window, gone, uses, wrong,
                       disturbed, leak, lostExpire>>

\* reserveDailySendSlot: INCR of today's key, EXPIRE when it was created, and
\* DECR (the release) when the limit is passed.
ReserveDailySendSlot(p) ==
    LET c == req[p].code
        count == daily[day] + 1
    IN  /\ At(p, "reserve")
        /\ daily' = [daily EXCEPT ![day] = count]
        /\ req' = [req EXCEPT ![p].day = day,
                     ![p].pc = IF count = 1 THEN "expireDay"
                               ELSE IF count > DailyLimit THEN "release" ELSE "code"]
        /\ holds' = [holds EXCEPT ![day] = @ \cup {c}]
        /\ UNCHANGED <<owner, code, attempts, attemptsFor, cooldown, hits, hitsExpire,
                       bounds, sceneOf, delivered, window, gone, uses, wrong,
                       disturbed, leak, lostExpire>>

\* The key's name holds the date: that it goes at midnight changes nothing.
ExpireDay(p) ==
    /\ At(p, "expireDay")
    /\ Goto(p, "code")
    /\ UNCHANGED <<owner, keys, bounds, history>>

SetCode(p) ==
    LET s == req[p].scene
    IN  /\ At(p, "code")
        /\ code' = [code EXCEPT ![s] = req[p].code]
        /\ gone' = gone \cup ({code[s]} \ {None})
        /\ Goto(p, "mark")
        /\ UNCHANGED <<owner, attempts, attemptsFor, cooldown, daily, hits, hitsExpire,
                       bounds, sceneOf, holds, delivered, window, uses,
                       wrong, disturbed, leak, lostExpire>>

SetCooldown(p) ==
    /\ At(p, "mark")
    /\ cooldown' = TRUE
    /\ window' = window \cup {req[p].code}
    /\ Goto(p, "reset")
    /\ UNCHANGED <<owner, code, attempts, attemptsFor, daily, hits, hitsExpire, bounds,
                   sceneOf, holds, delivered, gone, uses, wrong,
                   disturbed, leak, lostExpire>>

DropAttempts(s) ==
    /\ attempts' = [attempts EXCEPT ![s] = 0]
    /\ attemptsFor' = [attemptsFor EXCEPT ![s] = None]

ResetAttempts(p) ==
    /\ At(p, "reset")
    /\ DropAttempts(req[p].scene)
    /\ Goto(p, "sms")
    /\ UNCHANGED <<owner, code, cooldown, daily, hits, hitsExpire, bounds, history>>

SendSMS(p) ==
    /\ At(p, "sms")
    /\ delivered' = delivered \cup {req[p].code}
    /\ End(p)
    /\ UNCHANGED <<owner, keys, bounds, sceneOf, holds, window, gone, uses,
                   wrong, disturbed, leak, lostExpire>>

-----------------------------------------------------------------------------
(* A call of the sender fails: what was written is taken back *)

\* Where the handler goes when the call it is at fails, and what it deletes.
OnError(pc) ==
    CASE pc = "code"  -> [pc |-> "release", undo |-> {}]
      [] pc = "mark"  -> [pc |-> "undo", undo |-> {"code"}]
      [] pc = "reset" -> [pc |-> "undo", undo |-> {"code", "cooldown"}]
      [] pc = "sms"   -> [pc |-> "undo", undo |-> {"code", "cooldown", "attempts"}]

SendFails(p) ==
    LET e == OnError(req[p].pc)
    IN  /\ req[p].pc \in {"code", "mark", "reset", "sms"}
        /\ faults > 0
        /\ faults' = faults - 1
        /\ req' = [req EXCEPT ![p].pc = e.pc, ![p].undo = e.undo]
        /\ UNCHANGED <<owner, keys, day, generated, budget, history>>

\* One DEL of the keys written so far, whoever wrote them last.
Undo(p) ==
    LET s == req[p].scene
        u == req[p].undo
    IN  /\ At(p, "undo")
        /\ code' = [code EXCEPT ![s] = None]
        /\ cooldown' = (cooldown /\ "cooldown" \notin u)
        /\ IF "attempts" \in u THEN DropAttempts(s) ELSE UNCHANGED <<attempts, attemptsFor>>
        /\ Goto(p, "release")
        /\ UNCHANGED <<owner, daily, hits, hitsExpire, bounds, history>>

\* DECR of the key the slot was taken from.
Release(p) ==
    /\ At(p, "release")
    /\ daily' = [daily EXCEPT ![req[p].day] = @ - 1]
    /\ holds' = [holds EXCEPT ![req[p].day] = @ \ {req[p].code}]
    /\ End(p)
    /\ UNCHANGED <<owner, code, attempts, attemptsFor, cooldown, hits, hitsExpire,
                   bounds, sceneOf, delivered, window, gone, uses, wrong,
                   disturbed, leak, lostExpire>>

-----------------------------------------------------------------------------
(* Verifying a code *)

\* GET of the scene's code, compared with the one presented.
GetCode(p) ==
    LET saved == code[req[p].scene]
    IN  /\ At(p, "get")
        /\ IF saved = None THEN End(p)
           ELSE req' = [req EXCEPT ![p].saved = saved,
                          ![p].pc = IF saved # req[p].code THEN "wrong"
                                    ELSE IF req[p].scene = "bind" THEN "bind" ELSE "consume"]
        /\ disturbed' = IF req[p].met /\ saved # None THEN disturbed \cup {saved} ELSE disturbed
        /\ UNCHANGED <<owner, keys, bounds, sceneOf, holds, delivered, window,
                       gone, uses, wrong, leak, lostExpire>>

\* Mutant of WrongGuess: one guess too few is allowed.
WrongGuessEarly(p) ==
    LET s == req[p].scene
        n == attempts[s] + 1
    IN  /\ At(p, "wrong")
        /\ attempts' = [attempts EXCEPT ![s] = n]
        /\ wrong' = [wrong EXCEPT ![req[p].saved] = @ + 1]
        /\ IF n > MaxAttempts - 2 THEN Goto(p, "exhaust") ELSE Goto(p, "ttl")
        /\ UNCHANGED <<owner, code, attemptsFor, cooldown, daily, hits, hitsExpire,
                       bounds, sceneOf, holds, delivered, window, gone,
                       uses, disturbed, leak, lostExpire>>

\* INCR of the attempts key; the first one asks for the code's TTL.
WrongGuess(p) ==
    LET s == req[p].scene
        n == attempts[s] + 1
    IN  /\ At(p, "wrong")
        /\ attempts' = [attempts EXCEPT ![s] = n]
        /\ wrong' = [wrong EXCEPT ![req[p].saved] = @ + 1]
        /\ IF n = 1 THEN Goto(p, "ttl")
           ELSE IF n >= MaxAttempts THEN Goto(p, "exhaust") ELSE End(p)
        /\ UNCHANGED <<owner, code, attemptsFor, cooldown, daily, hits, hitsExpire,
                       bounds, sceneOf, holds, delivered, window, gone,
                       uses, disturbed, leak, lostExpire>>

\* TTL and EXPIRE: the attempts key shall go with the code.  Both may fail.
AttemptsTTL(p) ==
    LET s == req[p].scene
    IN  /\ At(p, "ttl")
        /\ attemptsFor' = IF code[s] # None /\ attempts[s] > 0
                          THEN [attemptsFor EXCEPT ![s] = code[s]] ELSE attemptsFor
        /\ IF MaxAttempts = 1 THEN Goto(p, "exhaust") ELSE End(p)
        /\ UNCHANGED <<owner, code, attempts, cooldown, daily, hits, hitsExpire, bounds,
                       history>>

\* Too many wrong guesses: DEL of the code and of the attempts.
Exhaust(p) ==
    LET s == req[p].scene
    IN  /\ At(p, "exhaust")
        /\ code' = [code EXCEPT ![s] = None]
        /\ DropAttempts(s)
        /\ gone' = IF wrong[req[p].saved] >= MaxAttempts
                   THEN gone \cup {req[p].saved} ELSE gone
        /\ End(p)
        /\ UNCHANGED <<owner, cooldown, daily, hits, hitsExpire, bounds, sceneOf, holds,
                       delivered, window, uses, wrong, disturbed, leak,
                       lostExpire>>

\* Mutant of Consume: an accepted code stays.
ConsumeKeepsCode(p) ==
    LET s == req[p].scene
    IN  /\ At(p, "consume")
        /\ DropAttempts(s)
        /\ uses' = [uses EXCEPT ![req[p].saved][s] = @ + 1]
        /\ gone' = gone \cup {req[p].saved}
        /\ IF s = "register" THEN Goto(p, "create") ELSE End(p)
        /\ UNCHANGED <<owner, code, cooldown, daily, hits, hitsExpire, bounds, sceneOf,
                       holds, delivered, window, wrong, disturbed, leak,
                       lostExpire>>

\* The right code: DEL of code and attempts.  A binding is done by then; a
\* registration goes on to the insert, a login to the account's row.
Consume(p) ==
    LET s == req[p].scene
    IN  /\ At(p, "consume")
        /\ code' = [code EXCEPT ![s] = None]
        /\ DropAttempts(s)
        /\ uses' = [uses EXCEPT ![req[p].saved][s] = @ + 1]
        /\ gone' = gone \cup {req[p].saved}
        /\ IF s = "register" THEN Goto(p, "create") ELSE End(p)
        /\ UNCHANGED <<owner, cooldown, daily, hits, hitsExpire, bounds, sceneOf, holds,
                       delivered, window, wrong, disturbed, leak,
                       lostExpire>>

\* CreateWithPhone: users.phone is unique.
CreateWithPhone(p) ==
    /\ At(p, "create")
    /\ owner' = IF owner = None THEN req[p].user ELSE owner
    /\ End(p)
    /\ UNCHANGED <<keys, bounds, history>>

\* UpdatePhone, before the code is deleted; the same unique index.
UpdatePhone(p) ==
    /\ At(p, "bind")
    /\ IF owner \in {None, req[p].user}
       THEN owner' = req[p].user /\ Goto(p, "consume")
       ELSE UNCHANGED owner /\ End(p)
    /\ UNCHANGED <<keys, bounds, history>>

-----------------------------------------------------------------------------
(* Failures and time *)

\* A call fails where nothing is taken back, or the handler dies.  The rate
\* limiter goes on without Redis, and ignores a failed EXPIRE.
Fault(p) ==
    LET r == req[p]
        ignored == r.pc \in {"limit", "expireHits"}
        slot == r.send /\ r.code \in holds[r.day]
    IN  /\ Busy(p)
        /\ faults > 0
        /\ faults' = faults - 1
        /\ \/ ignored /\ Goto(p, IF r.send THEN "eligible" ELSE "get")
           \/ End(p)
        /\ lostExpire' = (lostExpire \/ r.pc = "expireHits")
        /\ leak' = (leak \/ slot)
        /\ disturbed' = disturbed \cup Touches(p)
        /\ UNCHANGED <<owner, keys, day, generated, budget, sceneOf, holds, delivered,
                       window, gone, uses, wrong>>

\* The same outage fails the DEL of the undo; the release follows anyway.
UndoFails(p) ==
    /\ At(p, "undo")
    /\ Goto(p, "release")
    /\ disturbed' = disturbed \cup Touches(p)
    /\ UNCHANGED <<owner, keys, bounds, sceneOf, holds, delivered, window, gone, uses,
                   wrong, leak, lostExpire>>

ExpireCode(s) ==
    /\ code[s] # None
    /\ code' = [code EXCEPT ![s] = None]
    /\ gone' = gone \cup {code[s]}
    /\ UNCHANGED <<owner, attempts, attemptsFor, cooldown, daily, hits, hitsExpire,
                   bounds, req, sceneOf, holds, delivered, window, uses,
                   wrong, disturbed, leak, lostExpire>>

\* The attempts key goes when the code it took its TTL from has gone.
ExpireAttempts(s) ==
    /\ attemptsFor[s] # None
    /\ attemptsFor[s] # code[s]
    /\ DropAttempts(s)
    /\ UNCHANGED <<owner, code, cooldown, daily, hits, hitsExpire, bounds, req, history>>

ExpireCooldown ==
    /\ cooldown
    /\ cooldown' = FALSE
    /\ window' = {}
    /\ UNCHANGED <<owner, code, attempts, attemptsFor, daily, hits, hitsExpire, bounds,
                   req, sceneOf, holds, delivered, gone, uses, wrong,
                   disturbed, leak, lostExpire>>

WindowEnds ==
    /\ hitsExpire
    /\ hits' = 0
    /\ hitsExpire' = FALSE
    /\ UNCHANGED <<owner, code, attempts, attemptsFor, cooldown, daily, bounds, req,
                   history>>

Midnight ==
    /\ day < LastDay /\ budget > 0
    /\ day' = day + 1
    /\ budget' = budget - 1
    /\ UNCHANGED <<owner, keys, generated, faults, req, history>>

\* The owner binds another number (the same code path, for that number).
MoveAway ==
    /\ owner # None /\ budget > 0
    /\ owner' = None
    /\ budget' = budget - 1
    /\ UNCHANGED <<keys, day, generated, faults, req, history>>

-----------------------------------------------------------------------------
NoCode ==
    /\ code = [s \in Scenes |-> None]
    /\ cooldown = FALSE
    /\ daily = [d \in Days |-> 0]
    /\ generated = 0
    /\ sceneOf = [c \in Codes |-> None]
    /\ holds = [d \in Days |-> {}]
    /\ delivered = {} /\ window = {}

\* One code has been sent by a request that met no other.
OneCode ==
    \E s \in Scenes :
        /\ code = [[t \in Scenes |-> None] EXCEPT ![s] = 1]
        /\ Eligible(s, CHOOSE u \in Users : owner \in {None, u})
        /\ cooldown = TRUE
        /\ daily = [[d \in Days |-> 0] EXCEPT ![0] = 1]
        /\ generated = 1
        /\ sceneOf = [[c \in Codes |-> None] EXCEPT ![1] = s]
        /\ holds = [[d \in Days |-> {}] EXCEPT ![0] = {1}]
        /\ delivered = {1} /\ window = {1}

Init ==
    /\ owner \in Users \cup {None}
    /\ NoCode \/ OneCode
    /\ attempts = [s \in Scenes |-> 0]
    /\ attemptsFor = [s \in Scenes |-> None]
    /\ day = 0
    /\ hits = 0 /\ hitsExpire = FALSE
    /\ req = [p \in Procs |-> NoRequest]
    /\ budget = MaxEvents /\ faults = MaxFaults
    /\ gone = {}
    /\ uses = [c \in Codes |-> [s \in Scenes |-> 0]]
    /\ wrong = [c \in Codes |-> 0]
    /\ disturbed = {}
    /\ leak = FALSE /\ lostExpire = FALSE

Arrive(p) ==
    \/ SendAuthCode(p) \/ SendPhoneVerificationCode(p)
    \/ RegisterByPhone(p) \/ LoginByCode(p) \/ VerifyPhoneCode(p)

Send(p) ==
    \/ CheckCooldown(p) \/ ReserveDailySendSlot(p) \/ ExpireDay(p) \/ SetCode(p)
    \/ SetCooldown(p) \/ ResetAttempts(p) \/ SendSMS(p)
    \/ SendFails(p) \/ Undo(p) \/ UndoFails(p) \/ Release(p)

Verify(p) ==
    \/ GetCode(p) \/ WrongGuess(p) \/ AttemptsTTL(p) \/ Exhaust(p) \/ Consume(p)
    \/ CreateWithPhone(p) \/ UpdatePhone(p)

Next ==
    \/ \E p \in Procs : \/ Arrive(p) \/ Limit(p) \/ ExpireHits(p) \/ CheckEligibility(p)
                        \/ Send(p) \/ Verify(p) \/ Fault(p)
    \/ \E s \in Scenes : ExpireCode(s) \/ ExpireAttempts(s)
    \/ ExpireCooldown \/ WindowEnds \/ Midnight \/ MoveAway

Spec == Init /\ [][Next]_vars

-----------------------------------------------------------------------------
(* Properties *)

Steps == {"idle", "limit", "expireHits", "eligible", "cooldown", "reserve",
          "expireDay", "code", "mark", "reset", "sms", "undo", "release", "get",
          "wrong", "ttl", "exhaust", "consume", "create", "bind"}

\* Type invariant of the keys, the handlers and the history.
TypeOK ==
    /\ owner \in Users \cup {None}
    /\ code \in [Scenes -> Codes \cup {None}]
    /\ attempts \in [Scenes -> Nat]
    /\ attemptsFor \in [Scenes -> Codes \cup {None}]
    /\ cooldown \in BOOLEAN
    /\ day \in Days
    /\ daily \in [Days -> Nat]
    /\ hits \in Nat /\ hitsExpire \in BOOLEAN
    /\ generated \in 0..MaxCodes
    /\ req \in [Procs -> [pc : Steps, send : BOOLEAN, scene : Scenes,
                          user : Users \cup {None}, code : 0..MaxCodes,
                          saved : 0..MaxCodes, day : Days,
                          undo : SUBSET {"code", "cooldown", "attempts"},
                          met : BOOLEAN]]
    /\ budget \in 0..MaxEvents /\ faults \in 0..MaxFaults
    /\ sceneOf \in [Codes -> Scenes \cup {None}]
    /\ holds \in [Days -> SUBSET Codes]
    /\ delivered \in SUBSET Codes /\ window \in SUBSET Codes /\ gone \in SUBSET Codes
    /\ uses \in [Codes -> [Scenes -> Nat]]
    /\ wrong \in [Codes -> Nat]
    /\ disturbed \in SUBSET Codes
    /\ leak \in BOOLEAN /\ lostExpire \in BOOLEAN

\* However the senders interleave, fail and cross midnight, no more messages
\* go to the number on the slots of one day than DailyLimit (INCR before the
\* comparison, DECR after a failure).
DailyLimitHolds ==
    \A d \in Days : Cardinality(delivered \cap holds[d]) <= DailyLimit

\* A failed send gives its slot back: when no sender runs and no release was
\* lost, each day's counter is the number of messages sent on it.
FailedSendsAreFree ==
    (~leak /\ \A p \in Procs : ~req[p].send) =>
        \A d \in Days : daily[d] = Cardinality(delivered \cap holds[d])

\* Two messages under one cooldown come from requests that overlapped others:
\* requests one after the other are kept apart by the cooldown key.
CooldownSeparates ==
    \A c, d \in window \cap delivered :
        c # d => c \in disturbed \/ d \in disturbed

\* A code that reached the phone works until it expires, is replaced, used
\* or exhausted by MaxAttempts wrong guesses at it; only handlers that overlapped or failed
\* while they touched it can destroy it otherwise (an undo of another sender,
\* a DEL meant for an older code).
DeliveredCodeLives ==
    \A c \in delivered \ (gone \cup disturbed) : code[sceneOf[c]] = c

\* A login or registration code is accepted once, unless verifications
\* overlapped between GET and DEL, or one of them failed.
UsedOnce ==
    \A c \in Codes, s \in {"register", "login"} :
        uses[c][s] > 1 => c \in disturbed

\* A code is accepted only in the scene it was sent for.
ScenesStayApart ==
    \A c \in Codes, s \in Scenes : uses[c][s] > 0 => s = sceneOf[c]

\* At most MaxAttempts wrong guesses are compared with a code that no
\* overlapping or failing handler touched.
GuessesBounded ==
    \A c \in Codes \ disturbed : wrong[c] <= MaxAttempts

\* A counter of the rate limiter that never ends, and so refuses its address
\* for good, means that an EXPIRE was lost.
StuckLimiterLostExpire ==
    (hits > 0 /\ ~hitsExpire) =>
        lostExpire \/ \E p \in Procs : At(p, "expireHits")

\* The counters limit what they should, and give back what was not used: the
\* daily quota, and the rate limiter in front of it.
CountersAreExact ==
    TypeOK /\ DailyLimitHolds /\ FailedSendsAreFree /\ StuckLimiterLostExpire

\* A code opens what it was sent for, once, and cannot be tried out
\* (verifyAndConsumePhoneCode).
CodesAreGuarded == UsedOnce /\ ScenesStayApart /\ GuessesBounded

=============================================================================
