------------------------------ MODULE Sessions ------------------------------
(***************************************************************************)
(* The sessions of one account: registration, logins, rotation of refresh  *)
(* tokens, revocation, bans, privilege changes, and the check every        *)
(* authorized request goes through.                                        *)
(*                                                                         *)
(* Every row and every Redis key carries the user id, so accounts do not   *)
(* meet and one account is enough.  A handler is a sequence of calls to    *)
(* PostgreSQL and Redis; each call is one step, and the handlers of        *)
(* different requests interleave between them.  The two Lua scripts are    *)
(* one step each: Redis runs a script atomically.  A token pair is a       *)
(* number, taken in the order of issue; the pair's refresh token and its   *)
(* hash are not told apart.                                                *)
(***************************************************************************)
EXTENDS Naturals, Sequences, FiniteSets

CONSTANTS
    Procs,        \* request handlers that may run at the same time
    Platforms,    \* device platforms a session belongs to
    Passwords,    \* passwords the account may have
    Roles,        \* values of users.role
    Updates,      \* the bodies UpdateUser is called with
    MaxTokens,    \* bound: token pairs ever issued
    MaxRequests,  \* bound: requests ever started
    None          \* an absent value

Row == [status : {"active", "banned"}, pw : Passwords, admin : BOOLEAN,
        role : Roles]

\* The fields an UpdateUserRequest may set; None is a nil pointer.
Fields == [status : {"active", "banned", None}, admin : BOOLEAN \cup {None},
           role : Roles \cup {None}]
NoFields == [status |-> None, admin |-> None, role |-> None]

ASSUME SessionsAssumption ==
    /\ MaxTokens \in Nat \ {0}
    /\ MaxRequests \in Nat
    /\ None \notin Nat
    /\ None \notin {"active", "banned"}
    /\ None \notin BOOLEAN
    /\ None \notin Row
    /\ "user" \in Roles
    /\ Updates \subseteq Fields

Tokens == 1..MaxTokens

VARIABLES
    account,      \* the users row, None before registration
    banCached,    \* the key user_status:<id> holds "banned"
    refresh,      \* tokens with a live key refresh:<hash>
    index,        \* the set user:<id>:refresh_tokens
    devices,      \* the set user:<id>:devices
    platformKey,  \* the keys user:<id>:platform:<p>:refresh
    replay,       \* the keys refresh_rotation:<hash>: the pair to repeat
    issued,       \* claims of the pairs issued so far, in order
    req,          \* the request each handler serves
    budget,       \* requests that may still start
    \* History, read by no handler:
    answers,      \* the pairs handed to those who presented a refresh token
    overlapped,   \* handlers whose run met a change of the account
    raced,        \* tokens stored by such a handler, and their successors
    clash,        \* two changes of the account have overlapped
    failed        \* a change failed after it had written the row

redis   == <<banCached, refresh, index, devices, platformKey, replay>>
history == <<answers, overlapped, raced, clash, failed>>
vars    == <<account, redis, issued, req, budget, history>>

-----------------------------------------------------------------------------
(* Requests and their remaining calls *)

Changes == {"password", "reset", "role", "update", "disable", "enable"}

NoRequest ==
    [op |-> "idle", todo |-> <<>>, pf |-> None, tok |-> 0, pw |-> None,
     set |-> NoFields, row |-> None, hashes |-> {}, devs |-> {},
     open |-> FALSE]

Busy(p) == req[p].op # "idle"
Changing(p) == req[p].op \in Changes
Next1(p) == Head(req[p].todo)
At(p, step) == Busy(p) /\ req[p].todo # <<>> /\ Next1(p) = step

RevokeUserSessions == <<"hashes", "devices", "del">>

Apply(row, set) ==
    [row EXCEPT !.status = IF set.status = None THEN @ ELSE set.status,
                !.admin  = IF set.admin = None THEN @ ELSE set.admin,
                !.role   = IF set.role = None THEN @ ELSE set.role]

\* Mutant of AfterUpdate: a change of is_admin leaves the sessions alone.
AfterUpdateKeepsSessions(set, cur) ==
    IF set.status = "banned" /\ cur.status # "banned"
       THEN <<"cacheBan">> \o RevokeUserSessions
    ELSE IF set.status = "active" /\ cur.status = "banned"
       THEN <<"dropBan">> ELSE <<>>

\* The calls UpdateUser still has to make once it has read the row: they
\* depend on the row as it was then.
AfterUpdate(set, cur) ==
    (IF set.status = "banned" /\ cur.status # "banned"
        THEN <<"cacheBan">> \o RevokeUserSessions
     ELSE IF set.status = "active" /\ cur.status = "banned"
        THEN <<"dropBan">> ELSE <<>>)
    \o (IF set.admin # None /\ set.admin # cur.admin
           THEN RevokeUserSessions ELSE <<>>)

Calls(op) ==
    CASE op = "register" -> <<"create", "save">>
      [] op = "login"    -> <<"read", "save">>
      [] op = "code"     -> <<"read", "save">>
      [] op = "refresh"  -> <<"rotate">>
      [] op = "request"  -> <<"cache">>
      [] op = "password" -> <<"read", "writePassword">> \o RevokeUserSessions
      [] op = "reset"    -> <<"read", "writePassword">> \o RevokeUserSessions
      [] op = "role"     -> <<"write">>
      [] op = "update"   -> <<"read", "write">>
      [] op = "disable"  -> <<"read", "write", "cacheBan">> \o RevokeUserSessions
      [] op = "enable"   -> <<"read", "write", "dropBan">>

-----------------------------------------------------------------------------
(* Steps of a handler *)

\* The handler goes on with its next call.
Continue(p, r) == req' = [req EXCEPT ![p] = [r EXCEPT !.todo = Tail(@)]]

\* The handler has answered, with a result or with an error.
End(p) ==
    /\ req' = [req EXCEPT ![p] = NoRequest]
    /\ overlapped' = overlapped \ {p}

\* Continue, or answer when no call is left.
Advance(p, r) ==
    IF Len(r.todo) = 1
    THEN End(p)
    ELSE Continue(p, r) /\ UNCHANGED overlapped

\* A request reaches its handler.
Begin(p, r) ==
    LET others == {q \in Procs \ {p} : Busy(q)}
        met == \E q \in others : Changing(q)
    IN  /\ ~Busy(p)
        /\ budget > 0
        /\ budget' = budget - 1
        /\ req' = [req EXCEPT ![p] = [r EXCEPT !.todo = Calls(r.op)]]
        /\ overlapped' = overlapped
              \cup (IF met THEN {p} ELSE {})
              \cup (IF r.op \in Changes THEN others ELSE {})
        /\ clash' = (clash \/ (met /\ r.op \in Changes))
        /\ UNCHANGED <<account, redis, issued, answers, raced, failed>>

Register(p) == \E f \in Platforms, w \in Passwords :
    Begin(p, [NoRequest EXCEPT !.op = "register", !.pf = f, !.pw = w])

Login(p) == \E f \in Platforms, w \in Passwords :
    Begin(p, [NoRequest EXCEPT !.op = "login", !.pf = f, !.pw = w])

LoginByCode(p) == \E f \in Platforms :
    Begin(p, [NoRequest EXCEPT !.op = "code", !.pf = f])

Refresh(p) == \E t \in DOMAIN issued :
    Begin(p, [NoRequest EXCEPT !.op = "refresh", !.tok = t])

\* Any route behind the JWT middleware, with an access token of an issued
\* pair that has not expired.
Authorized(p) == \E t \in DOMAIN issued :
    Begin(p, [NoRequest EXCEPT !.op = "request", !.tok = t,
                               !.open = (account.status = "active")])

\* The handler refuses a new password equal to the one given as current.
ChangePassword(p) == account # None /\ \E w, n \in Passwords :
    /\ w # n
    /\ Begin(p, [NoRequest EXCEPT !.op = "password", !.pw = w,
                                  !.row = [pw |-> n]])

ResetPassword(p) == \E n \in Passwords :
    Begin(p, [NoRequest EXCEPT !.op = "reset", !.row = [pw |-> n]])

UpdateRole(p) == account # None /\ \E r \in Roles :
    Begin(p, [NoRequest EXCEPT !.op = "role", !.set = [NoFields EXCEPT !.role = r]])

UpdateUser(p) == \E set \in Updates :
    Begin(p, [NoRequest EXCEPT !.op = "update", !.set = set])

DisableUser(p) ==
    Begin(p, [NoRequest EXCEPT !.op = "disable",
                               !.set = [NoFields EXCEPT !.status = "banned"]])

EnableUser(p) ==
    Begin(p, [NoRequest EXCEPT !.op = "enable",
                               !.set = [NoFields EXCEPT !.status = "active"]])

-----------------------------------------------------------------------------
(* PostgreSQL *)

\* The insert of a registration; the unique phone column lets one win.
CreateWithPhone(p) ==
    /\ At(p, "create")
    /\ IF account # None
       THEN End(p) /\ UNCHANGED account
       ELSE /\ account' = [status |-> "active", pw |-> req[p].pw,
                           admin |-> FALSE, role |-> "user"]
            /\ Continue(p, [req[p] EXCEPT !.row = account'])
            /\ UNCHANGED overlapped
    /\ UNCHANGED <<redis, issued, budget, answers, raced, clash, failed>>

\* GetByPhone or GetByID, and what the service decides from the row: a login
\* compares the password and refuses a banned account, a password change
\* compares the current password, an update fixes its later calls.
ReadUser(p) ==
    LET r == req[p]
        refused == \/ account = None
                   \/ r.op \in {"login", "password"} /\ r.pw # account.pw
                   \/ r.op \in {"login", "code"} /\ account.status = "banned"
    IN  /\ At(p, "read")
        /\ IF refused
           THEN End(p)
           ELSE /\ Continue(p,
                     CASE r.op \in {"login", "code"} -> [r EXCEPT !.row = account]
                       [] r.op = "update" ->
                            [r EXCEPT !.todo = @ \o AfterUpdate(r.set, account)]
                       [] OTHER -> r)
                /\ UNCHANGED overlapped
        /\ UNCHANGED <<account, redis, issued, budget, answers, raced, clash, failed>>

UpdatePassword(p) ==
    /\ At(p, "writePassword")
    /\ account' = [account EXCEPT !.pw = req[p].row.pw]
    /\ Advance(p, req[p])
    /\ UNCHANGED <<redis, issued, budget, answers, raced, clash, failed>>

\* UpdateUser, UpdateStatus and UpdateRole write the fields they were given.
\* A request in flight that finds the account active notes so.
WriteUser(p) ==
    LET row == Apply(account, req[p].set)
        done == Len(req[p].todo) = 1
    IN  /\ At(p, "write")
        /\ account' = row
        /\ req' = [q \in Procs |->
             IF q = p
             THEN IF done THEN NoRequest ELSE [req[p] EXCEPT !.todo = Tail(@)]
             ELSE IF req[q].op = "request" /\ row.status = "active"
                  THEN [req[q] EXCEPT !.open = TRUE] ELSE req[q]]
        /\ overlapped' = IF done THEN overlapped \ {p} ELSE overlapped
        /\ UNCHANGED <<redis, issued, budget, answers, raced, clash, failed>>

-----------------------------------------------------------------------------
(* Redis *)

Fresh == Len(issued) + 1

\* GenerateTokenPair: the claims are those of the row the service holds.
Issue(pf, row) ==
    /\ Fresh \in Tokens
    /\ issued' = Append(issued, [pf |-> pf, row |-> row])

\* What both scripts write for the new token once the old one is gone.
StoreToken(p, pf) ==
    /\ devices' = devices \cup {pf}
    /\ platformKey' = [platformKey EXCEPT ![pf] = Fresh]
    /\ End(p)
    /\ UNCHANGED <<account, banCached, budget, clash, failed>>

Taint(suspect) == raced' = IF suspect THEN raced \cup {Fresh} ELSE raced

\* saveRefreshTokenScript: a session of the same platform gives way.
Save(p) ==
    LET old == platformKey[req[p].pf]
    IN  /\ At(p, "save")
        /\ Issue(req[p].pf, req[p].row)
        /\ refresh' = (refresh \ {old}) \cup {Fresh}
        /\ index' = (index \ {old}) \cup {Fresh}
        /\ StoreToken(p, req[p].pf)
        /\ Taint(p \in overlapped)
        /\ UNCHANGED <<replay, answers>>

\* Mutant of RotateSingleUse: the new token is not added to the index.
RotateSingleUseUnindexed(p) ==
    LET old == req[p].tok
    IN  /\ At(p, "rotate")
        /\ old \in refresh
        /\ Issue(issued[old].pf, issued[old].row)
        /\ refresh' = (refresh \ {old}) \cup {Fresh}
        /\ index' = index \ {old}
        /\ StoreToken(p, issued[old].pf)
        /\ replay' = [replay EXCEPT ![old] = Fresh]
        /\ answers' = [answers EXCEPT ![old] = @ \cup {Fresh}]
        /\ Taint(p \in overlapped \/ old \in raced)

\* Mutant of RotateSingleUse: the value under the token's key is not compared.
RotateSingleUseUnchecked(p) ==
    LET old == req[p].tok
    IN  /\ At(p, "rotate")
        /\ Issue(issued[old].pf, issued[old].row)
        /\ refresh' = (refresh \ {old}) \cup {Fresh}
        /\ index' = (index \ {old}) \cup {Fresh}
        /\ StoreToken(p, issued[old].pf)
        /\ replay' = [replay EXCEPT ![old] = Fresh]
        /\ answers' = [answers EXCEPT ![old] = @ \cup {Fresh}]
        /\ Taint(p \in overlapped \/ old \in raced)

\* rotateRefreshTokenScript: only the holder of the live token rotates it.
\* The successor's claims are the old token's: the row is not read again.
RotateSingleUse(p) ==
    LET old == req[p].tok
    IN  /\ At(p, "rotate")
        /\ old \in refresh
        /\ Issue(issued[old].pf, issued[old].row)
        /\ refresh' = (refresh \ {old}) \cup {Fresh}
        /\ index' = (index \ {old}) \cup {Fresh}
        /\ StoreToken(p, issued[old].pf)
        /\ replay' = [replay EXCEPT ![old] = Fresh]
        /\ answers' = [answers EXCEPT ![old] = @ \cup {Fresh}]
        /\ Taint(p \in overlapped \/ old \in raced)

\* The script found another value under the token's key and returned 0.
RotateRefused(p) ==
    /\ At(p, "rotate")
    /\ req[p].tok \notin refresh
    /\ req' = [req EXCEPT ![p].todo = <<"replay">>]
    /\ UNCHANGED <<account, redis, issued, budget, history>>

\* A late presenter gets the pair of the rotation while Redis still holds it,
\* and is refused otherwise (WasRotated only chooses between equal messages).
GetRotationReplay(p) ==
    LET t == req[p].tok
    IN  /\ At(p, "replay")
        /\ answers' = IF replay[t] = None THEN answers
                      ELSE [answers EXCEPT ![t] = @ \cup {replay[t]}]
        /\ End(p)
        /\ UNCHANGED <<account, redis, issued, budget, raced, clash, failed>>

\* RevokeUserSessions: two SMEMBERS, then one DEL of the keys they named.
RevokeReadHashes(p) ==
    /\ At(p, "hashes")
    /\ Continue(p, [req[p] EXCEPT !.hashes = index])
    /\ UNCHANGED <<account, redis, issued, budget, history>>

RevokeReadDevices(p) ==
    /\ At(p, "devices")
    /\ Continue(p, [req[p] EXCEPT !.devs = devices])
    /\ UNCHANGED <<account, redis, issued, budget, history>>

RevokeDelete(p) ==
    /\ At(p, "del")
    /\ refresh' = refresh \ req[p].hashes
    /\ platformKey' = [f \in Platforms |->
                         IF f \in req[p].devs THEN None ELSE platformKey[f]]
    /\ index' = {}
    /\ devices' = {}
    /\ Advance(p, [req[p] EXCEPT !.hashes = {}, !.devs = {}])
    /\ UNCHANGED <<account, banCached, replay, issued, budget, answers, raced,
                   clash, failed>>

CacheBan(p) ==
    /\ At(p, "cacheBan")
    /\ banCached' = TRUE
    /\ Advance(p, req[p])
    /\ UNCHANGED <<account, refresh, index, devices, platformKey, replay, issued,
                   budget, answers, raced, clash, failed>>

DropBan(p) ==
    /\ At(p, "dropBan")
    /\ banCached' = FALSE
    /\ Advance(p, req[p])
    /\ UNCHANGED <<account, refresh, index, devices, platformKey, replay, issued,
                   budget, answers, raced, clash, failed>>

\* AuthStatusMiddleware: a cached ban refuses; a miss, or Redis being away,
\* goes on to the row.
AuthStatusCache(p) ==
    /\ At(p, "cache")
    /\ IF banCached
       THEN End(p) \/ (req' = [req EXCEPT ![p].todo = <<"lookup">>]
                       /\ UNCHANGED overlapped)
       ELSE req' = [req EXCEPT ![p].todo = <<"lookup">>] /\ UNCHANGED overlapped
    /\ UNCHANGED <<account, redis, issued, budget, answers, raced, clash, failed>>

\* Mutant of AuthStatusLookup: a cache miss counts as active.
AuthStatusLookupSkipped(p) ==
    /\ At(p, "lookup")
    /\ req' = [req EXCEPT ![p].todo = <<"serve">>]
    /\ UNCHANGED <<account, redis, issued, budget, history>>

AuthStatusLookup(p) ==
    /\ At(p, "lookup")
    /\ IF account.status = "banned"
       THEN End(p)
       ELSE req' = [req EXCEPT ![p].todo = <<"serve">>] /\ UNCHANGED overlapped
    /\ UNCHANGED <<account, redis, issued, budget, answers, raced, clash, failed>>

\* The route itself runs.
Serve(p) ==
    /\ At(p, "serve")
    /\ End(p)
    /\ UNCHANGED <<account, redis, issued, budget, answers, raced, clash, failed>>

\* PostgreSQL or Redis returns an error, or the process dies: the handler
\* ends there and what it has done stays.
Fail(p) ==
    /\ Busy(p)
    /\ failed' = (failed \/ (Changing(p) /\ Next1(p) \notin
                               {"read", "write", "writePassword"}))
    /\ End(p)
    /\ UNCHANGED <<account, redis, issued, budget, answers, raced, clash>>

\* The keys of a session live equally long and are set together.
Expire(t) ==
    /\ t \in refresh
    /\ refresh' = refresh \ {t}
    /\ platformKey' = [f \in Platforms |->
                         IF platformKey[f] = t THEN None ELSE platformKey[f]]
    /\ UNCHANGED <<account, banCached, index, devices, replay, issued, req, budget,
                   history>>

ExpireReplay(t) ==
    /\ replay[t] # None
    /\ replay' = [replay EXCEPT ![t] = None]
    /\ UNCHANGED <<account, banCached, refresh, index, devices, platformKey,
                   issued, req, budget, history>>

-----------------------------------------------------------------------------
NoAccount ==
    /\ account = None
    /\ issued = <<>>
    /\ refresh = {} /\ index = {} /\ devices = {}
    /\ platformKey = [f \in Platforms |-> None]

\* An active account with one session, whose history is of no concern.
OneSession ==
    \E f \in Platforms, w \in Passwords, a \in BOOLEAN :
        /\ account = [status |-> "active", pw |-> w, admin |-> a, role |-> "user"]
        /\ issued = <<[pf |-> f, row |-> account]>>
        /\ refresh = {1} /\ index = {1} /\ devices = {f}
        /\ platformKey = [g \in Platforms |-> IF g = f THEN 1 ELSE None]

Init ==
    /\ NoAccount \/ OneSession
    /\ banCached = FALSE
    /\ replay = [t \in Tokens |-> None]
    /\ req = [p \in Procs |-> NoRequest]
    /\ budget = MaxRequests
    /\ answers = [t \in Tokens |-> {}]
    /\ overlapped = {} /\ raced = {}
    /\ clash = FALSE /\ failed = FALSE

Arrive(p) ==
    \/ Register(p) \/ Login(p) \/ LoginByCode(p) \/ Refresh(p) \/ Authorized(p)
    \/ ChangePassword(p) \/ ResetPassword(p) \/ UpdateRole(p) \/ UpdateUser(p)
    \/ DisableUser(p) \/ EnableUser(p)

Handle(p) ==
    \/ CreateWithPhone(p) \/ ReadUser(p) \/ UpdatePassword(p) \/ WriteUser(p)
    \/ Save(p) \/ RotateSingleUse(p) \/ RotateRefused(p) \/ GetRotationReplay(p)
    \/ RevokeReadHashes(p) \/ RevokeReadDevices(p) \/ RevokeDelete(p)
    \/ CacheBan(p) \/ DropBan(p)
    \/ AuthStatusCache(p) \/ AuthStatusLookup(p) \/ Serve(p)
    \/ Fail(p)

Next ==
    \/ \E p \in Procs : Arrive(p) \/ Handle(p)
    \/ \E t \in Tokens : Expire(t) \/ ExpireReplay(t)

Spec == Init /\ [][Next]_vars

-----------------------------------------------------------------------------
(* Properties *)

Steps == {"create", "save", "rotate", "replay", "cache", "lookup", "serve", "read",
          "write", "writePassword", "cacheBan", "dropBan", "hashes", "devices", "del"}

Request ==
    [op : {"idle", "register", "login", "code", "refresh", "request"} \cup Changes,
     todo : Seq(Steps), pf : Platforms \cup {None}, tok : Nat,
     pw : Passwords \cup {None}, set : Fields,
     row : Row \cup [pw : Passwords] \cup {None},
     hashes : SUBSET Tokens, devs : SUBSET Platforms, open : BOOLEAN]

\* Type invariant of the account row, the Redis keys and the handlers.
TypeOK ==
    /\ account \in Row \cup {None}
    /\ banCached \in BOOLEAN
    /\ refresh \in SUBSET Tokens
    /\ index \in SUBSET Tokens
    /\ devices \in SUBSET Platforms
    /\ platformKey \in [Platforms -> Tokens \cup {None}]
    /\ replay \in [Tokens -> Tokens \cup {None}]
    /\ issued \in Seq([pf : Platforms, row : Row])
    /\ Len(issued) \in 0..MaxTokens
    /\ req \in [Procs -> Request]
    /\ budget \in 0..MaxRequests
    /\ answers \in [Tokens -> SUBSET Tokens]
    /\ overlapped \in SUBSET Procs
    /\ raced \in SUBSET Tokens
    /\ clash \in BOOLEAN
    /\ failed \in BOOLEAN

\* Whoever presents the same refresh token, however many at once and however
\* late, gets the same pair: a token has one successor (the script that
\* compares and deletes, and the replay Refresh falls back to).
OneSuccessor ==
    \A t \in Tokens : \A a, b \in answers[t] : a = b

\* A session that the account's index has lost, so that a later revocation
\* would miss it, was stored while a change of the account was under way.
LostSessionsRaced == (refresh \ index) \subseteq raced

\* Unless a session was stored during a change of the account, a platform has
\* one session: a login ends the one before it.
OneSessionPerPlatform ==
    raced = {} => \A t, u \in refresh : issued[t].pf = issued[u].pf => t = u

\* When no change of the account is under way, every session that did not
\* race one carries the account's present privilege and password, and none
\* is left to a banned account: password, privilege and ban changes reach
\* the sessions, unless the change failed half way.
SessionsAreCurrent ==
    (~failed /\ \A p \in Procs : ~Changing(p)) =>
        \A t \in refresh \ raced :
            /\ issued[t].row.admin = account.admin
            /\ issued[t].row.pw = account.pw
            /\ account.status = "active"

\* A request is only served if the account was active at some moment since
\* the request arrived, whatever the ban flag in Redis says or loses.
BannedStaysOut ==
    \A p \in Procs : At(p, "serve") => req[p].open

\* An active account is locked out by a stale ban flag only after two changes
\* of the account overlapped or one failed half way.
LockoutNeedsClash ==
    (banCached /\ account.status = "active"
               /\ \A p \in Procs : ~Changing(p)) => clash \/ failed

\* At rest the sessions are those the account's last change allows, one per
\* platform, but for the sessions that were stored during a change.
SessionsAreSound == TypeOK /\ OneSessionPerPlatform /\ SessionsAreCurrent

\* Banning is sure and lifting a ban is too: who is banned is not served,
\* who is not is not kept out (auth_status.go over the row and the cached flag).
BansAreExact == BannedStaysOut /\ LockoutNeedsClash

=============================================================================
