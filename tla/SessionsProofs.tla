---------------------------- MODULE SessionsProofs ----------------------------
(***************************************************************************)
(* Proofs about Sessions, for any number of handlers, requests and tokens. *)
(*                                                                         *)
(* A token leaves the live keys when it is rotated and never comes back,   *)
(* so the pair remembered for its late presenters is the only one.  And a  *)
(* revocation deletes the tokens it found in the index: what it misses was *)
(* stored after it had read the index, by a handler that it overlapped.    *)
(*                                                                         *)
(* That the sessions at rest are those of the row rests on what each       *)
(* handler still has to do: who has written the row and has not yet        *)
(* revoked is ahead of every claim about the sessions, and a session       *)
(* stored meanwhile was overlapped.                                        *)
(***************************************************************************)
EXTENDS Sessions, SequenceTheorems, TLAPS

-----------------------------------------------------------------------------
(* Successors *)

\* The live tokens are some of those issued.
LiveAreIssued == (\E S : issued \in Seq(S)) /\ refresh \subseteq 1..Len(issued)

\* A token that is live, or not issued yet, has no successor; the pair kept
\* for late presenters is the one that was handed out.
AnswersAgree ==
    /\ answers = [t \in Tokens |-> answers[t]]
    /\ replay = [t \in Tokens |-> replay[t]]
    /\ \A t \in Tokens :
          /\ t \in refresh \/ t > Len(issued) => answers[t] = {} /\ replay[t] = None
          /\ \A a, b \in answers[t] : a = b /\ replay[t] \in {a, None}

SuccessorInv == LiveAreIssued /\ AnswersAgree

\* What a step does to tokens and their successors.
TokensKept   == UNCHANGED <<issued, replay, answers>> /\ refresh' \subseteq refresh
ReplayEnds   == \E t \in Tokens : /\ replay' = [replay EXCEPT ![t] = None]
                                  /\ UNCHANGED <<issued, refresh, answers>>
ReplayGiven  == \E t : /\ replay[t] # None
                       /\ answers' = [answers EXCEPT ![t] = @ \cup {replay[t]}]
                       /\ UNCHANGED <<issued, refresh, replay>>
TokenStored  == /\ Fresh \in Tokens
                /\ \E e : issued' = Append(issued, e)
                /\ refresh' \subseteq refresh \cup {Fresh}
                /\ UNCHANGED <<replay, answers>>
TokenRotated == \E t \in refresh :
                /\ Fresh \in Tokens
                /\ \E e : issued' = Append(issued, e)
                /\ refresh' = (refresh \ {t}) \cup {Fresh}
                /\ replay' = [replay EXCEPT ![t] = Fresh]
                /\ answers' = [answers EXCEPT ![t] = @ \cup {Fresh}]

\* Requests arrive without touching a token.
LEMMA ArrivalKeeps ==
    ASSUME NEW p \in Procs, Arrive(p)
    PROVE  TokensKept
<1>1. PICK r : Begin(p, r)
  BY DEF Arrive, Register, Login, LoginByCode, Refresh, Authorized, ChangePassword,
         ResetPassword, UpdateRole, UpdateUser, DisableUser, EnableUser
<1>2. QED
  BY <1>1 DEF Begin, TokensKept, redis

\* Every step does one of the five things, or nothing, to the tokens.
LEMMA TokenStep ==
    ASSUME [Next]_vars
    PROVE  TokensKept \/ ReplayEnds \/ ReplayGiven \/ TokenStored \/ TokenRotated
<1>1. ASSUME NEW p \in Procs, Save(p) PROVE TokenStored
  BY <1>1 DEF Save, Issue, StoreToken, TokenStored
<1>2. ASSUME NEW p \in Procs, RotateSingleUse(p) PROVE TokenRotated
  BY <1>2 DEF RotateSingleUse, Issue, StoreToken, TokenRotated
<1>3. ASSUME NEW p \in Procs, GetRotationReplay(p) PROVE TokensKept \/ ReplayGiven
  BY <1>3 DEF GetRotationReplay, TokensKept, ReplayGiven, redis
<1>4. ASSUME NEW t \in Tokens, ExpireReplay(t) PROVE ReplayEnds
  BY <1>4 DEF ExpireReplay, ReplayEnds, history
<1>5. ASSUME NEW t \in Tokens, Expire(t) PROVE TokensKept
  BY <1>5 DEF Expire, TokensKept, history
<1>6. ASSUME NEW p \in Procs, RevokeDelete(p) PROVE TokensKept
  BY <1>6 DEF RevokeDelete, TokensKept
<1>7. ASSUME NEW p \in Procs,
             \/ CreateWithPhone(p) \/ ReadUser(p) \/ UpdatePassword(p) \/ WriteUser(p)
             \/ RotateRefused(p) \/ RevokeReadHashes(p) \/ RevokeReadDevices(p)
             \/ CacheBan(p) \/ DropBan(p) \/ AuthStatusCache(p) \/ AuthStatusLookup(p)
             \/ Serve(p) \/ Fail(p)
      PROVE  TokensKept
  BY <1>7 DEF CreateWithPhone, ReadUser, UpdatePassword, WriteUser, RotateRefused,
              RevokeReadHashes, RevokeReadDevices, CacheBan, DropBan, AuthStatusCache,
              AuthStatusLookup, Serve, Fail, TokensKept, redis, history
<1>8. ASSUME UNCHANGED vars PROVE TokensKept
  BY <1>8 DEF vars, redis, history, TokensKept
<1>9. QED
  BY <1>1, <1>2, <1>3, <1>4, <1>5, <1>6, <1>7, <1>8, ArrivalKeeps DEF Next, Handle

LEMMA IssuedGrows ==
    ASSUME NEW S, issued \in Seq(S), NEW e, issued' = Append(issued, e)
    PROVE  issued' \in Seq(S \cup {e}) /\ Len(issued') = Len(issued) + 1 /\ Len(issued) \in Nat
<1>1. issued \in Seq(S \cup {e})
  BY SMT
<1>2. QED
  BY <1>1, SMT

LEMMA SuccessorInit == Init => SuccessorInv
<1> SUFFICES ASSUME Init PROVE SuccessorInv
  OBVIOUS
<1>1. LiveAreIssued
  <2>1. CASE NoAccount
    BY <2>1 DEF NoAccount, LiveAreIssued
  <2>2. CASE OneSession
    <3>1. PICK e : issued = <<e>> /\ refresh = {1}
      BY <2>2 DEF OneSession
    <3>2. issued \in Seq({e}) /\ Len(issued) = 1
      BY <3>1
    <3>3. refresh \subseteq 1..Len(issued)
      BY <3>1, <3>2
    <3>4. \E S : issued \in Seq(S)
      BY <3>2, Zenon
    <3>5. QED
      BY <3>3, <3>4 DEF LiveAreIssued
  <2>3. QED
    BY <2>1, <2>2 DEF Init
<1>2. AnswersAgree
  BY DEF Init, AnswersAgree
<1>3. QED
  BY <1>1, <1>2 DEF SuccessorInv

LEMMA SuccessorStep ==
    ASSUME SuccessorInv, [Next]_vars
    PROVE  SuccessorInv'
<1> USE SessionsAssumption DEF Tokens, SuccessorInv
<1>0. PICK S : issued \in Seq(S) /\ Len(issued) \in Nat
  BY DEF LiveAreIssued
<1>1. CASE TokensKept
  <2>1. LiveAreIssued'
    BY <1>0, <1>1, Zenon DEF TokensKept, LiveAreIssued
  <2>2. AnswersAgree'
    BY <1>1 DEF TokensKept, AnswersAgree
  <2>3. QED
    BY <2>1, <2>2
<1>2. CASE ReplayEnds
  <2>1. LiveAreIssued'
    BY <1>2, Zenon DEF ReplayEnds, LiveAreIssued
  <2>2. AnswersAgree'
    BY <1>2 DEF ReplayEnds, AnswersAgree
  <2>3. QED
    BY <2>1, <2>2
<1>3. CASE ReplayGiven
  <2>1. PICK t : /\ replay[t] # None
                 /\ answers' = [answers EXCEPT ![t] = @ \cup {replay[t]}]
                 /\ UNCHANGED <<issued, refresh, replay>>
    BY <1>3 DEF ReplayGiven
  <2>2. LiveAreIssued'
    BY <2>1, Zenon DEF LiveAreIssued
  <2>3. AnswersAgree'
    <3>1. \A u \in Tokens : answers'[u] = IF u = t THEN answers[u] \cup {replay[t]} ELSE answers[u]
      BY <2>1 DEF AnswersAgree
    <3>2. answers' = [u \in Tokens |-> answers'[u]]
      BY <2>1 DEF AnswersAgree
    <3>3. ASSUME NEW u \in Tokens, u = t
          PROVE  ~(u \in refresh \/ u > Len(issued)) /\ \A a \in answers[u] : a = replay[u]
      BY <2>1, <3>3 DEF AnswersAgree
    <3>4. ASSUME NEW u \in Tokens
          PROVE  /\ u \in refresh \/ u > Len(issued) => answers'[u] = {} /\ replay[u] = None
                 /\ \A a, b \in answers'[u] : a = b /\ replay[u] \in {a, None}
      <4>1. CASE u = t
        <5>1. ~(u \in refresh \/ u > Len(issued)) /\ \A a \in answers[u] : a = replay[u]
          BY <3>3, <4>1
        <5>2. answers'[u] = answers[u] \cup {replay[u]}
          BY <3>1, <4>1
        <5>3. QED
          BY <5>1, <5>2
      <4>2. CASE u # t
        BY <3>1, <4>2 DEF AnswersAgree
      <4>3. QED
        BY <4>1, <4>2
    <3>5. QED
      BY <2>1, <3>2, <3>4 DEF AnswersAgree
  <2>4. QED
    BY <2>2, <2>3
<1>4. CASE TokenStored
  <2>1. PICK e : issued' = Append(issued, e)
    BY <1>4 DEF TokenStored
  <2>2. issued' \in Seq(S \cup {e}) /\ Len(issued') = Len(issued) + 1
    BY <1>0, <2>1, IssuedGrows
  <2>3. LiveAreIssued'
    <3>1. refresh' \subseteq 1..Len(issued')
      BY <1>0, <1>4, <2>2 DEF TokenStored, LiveAreIssued, Fresh
    <3>2. QED
      BY <2>2, <3>1, Zenon DEF LiveAreIssued
  <2>4. AnswersAgree'
    BY <1>0, <1>4, <2>2 DEF TokenStored, AnswersAgree, Fresh
  <2>5. QED
    BY <2>3, <2>4
<1>5. CASE TokenRotated
  <2>1. PICK t \in refresh :
          /\ Fresh \in Tokens
          /\ \E e : issued' = Append(issued, e)
          /\ refresh' = (refresh \ {t}) \cup {Fresh}
          /\ replay' = [replay EXCEPT ![t] = Fresh]
          /\ answers' = [answers EXCEPT ![t] = @ \cup {Fresh}]
    BY <1>5 DEF TokenRotated
  <2>2. PICK e : issued' = Append(issued, e)
    BY <2>1
  <2>3. issued' \in Seq(S \cup {e}) /\ Len(issued') = Len(issued) + 1
    BY <1>0, <2>2, IssuedGrows
  <2>4. LiveAreIssued'
    <3>1. refresh \subseteq 1..Len(issued)
      BY DEF LiveAreIssued
    <3>2. refresh' = (refresh \ {t}) \cup {Len(issued) + 1}
      BY <2>1 DEF Fresh
    <3>3. \A i \in refresh' : i \in 1..(Len(issued) + 1)
      <4> DEFINE n == Len(issued)
      <4>1. n \in Nat /\ \A i \in refresh' : i \in 1..n \/ i = n + 1
        BY <1>0, <3>1, <3>2
      <4> HIDE DEF n
      <4>2. \A i \in refresh' : i \in 1..(n + 1)
        BY <4>1
      <4>3. QED
        BY <4>2 DEF n
    <3>4. refresh' \subseteq 1..Len(issued')
      BY <2>3, <3>3
    <3>5. QED
      BY <2>3, <3>4, Zenon DEF LiveAreIssued
  <2>5. AnswersAgree'
    <3>1. t \in Tokens /\ answers[t] = {} /\ t # Fresh
      BY <1>0, <2>1 DEF LiveAreIssued, AnswersAgree, Fresh
    <3>2. \A u \in Tokens : /\ answers'[u] = IF u = t THEN {Fresh} ELSE answers[u]
                            /\ replay'[u] = IF u = t THEN Fresh ELSE replay[u]
      BY <2>1, <3>1 DEF AnswersAgree
    <3>3. /\ answers' = [u \in Tokens |-> answers'[u]]
          /\ replay' = [u \in Tokens |-> replay'[u]]
      BY <2>1 DEF AnswersAgree
    <3>4. t <= Len(issued)
      BY <1>0, <2>1 DEF LiveAreIssued
    <3>5. QED
      BY <1>0, <2>1, <2>3, <3>1, <3>2, <3>3, <3>4 DEF AnswersAgree, Fresh
  <2>6. QED
    BY <2>4, <2>5
<1>6. QED
  BY <1>1, <1>2, <1>3, <1>4, <1>5, TokenStep

\* Whoever presents a refresh token, at once with others or late, is handed
\* the same pair, whatever the number of handlers and of tokens (the rotation
\* script and the replay of Refresh, token_manager.go).
THEOREM SingleSuccessor == Spec => []OneSuccessor
<1>1. SuccessorInv => OneSuccessor
  BY DEF SuccessorInv, AnswersAgree, OneSuccessor
<1>2. Init => SuccessorInv
  BY SuccessorInit
<1>3. SuccessorInv /\ [Next]_vars => SuccessorInv'
  BY SuccessorStep
<1>4. QED
  BY <1>1, <1>2, <1>3, PTL DEF Spec

-----------------------------------------------------------------------------
(* Calls still to make *)

\* The calls of a revocation are made by a change of the account, one after
\* the other; no change stores a token.
Ordered(op, s) ==
    \A i \in 1..Len(s) :
        /\ s[i] \in {"hashes", "devices", "del"} => op \in Changes
        /\ s[i] \in {"save", "rotate"} => op \notin Changes
        /\ i > 1 /\ s[i] = "devices" => s[i - 1] = "hashes"
        /\ i > 1 /\ s[i] = "del" => s[i - 1] = "devices"

Fielded(r) ==
    r = [op |-> r.op, todo |-> r.todo, pf |-> r.pf, tok |-> r.tok, pw |-> r.pw,
         set |-> r.set, row |-> r.row, hashes |-> r.hashes, devs |-> r.devs,
         open |-> r.open]

Shaped(r) ==
    /\ Fielded(r)
    /\ r.todo \in Seq(Steps)
    /\ Ordered(r.op, r.todo)

Ops == {"register", "login", "code", "refresh", "request"} \cup Changes

LEMMA OrderedTail ==
    ASSUME NEW op, NEW s \in Seq(Steps), s # <<>>, Ordered(op, s)
    PROVE  Tail(s) \in Seq(Steps) /\ Ordered(op, Tail(s))
<1>1. /\ Tail(s) \in Seq(Steps)
      /\ Len(s) \in Nat /\ Len(Tail(s)) = Len(s) - 1
      /\ \A i \in 1..Len(Tail(s)) : Tail(s)[i] = s[i + 1]
  BY SMT
<1>2. QED
  BY <1>1 DEF Ordered

LEMMA OrderedJoin ==
    ASSUME NEW op, NEW s \in Seq(Steps), NEW t \in Seq(Steps),
           Ordered(op, s), Ordered(op, t),
           t # <<>> => t[1] \notin {"devices", "del"}
    PROVE  s \o t \in Seq(Steps) /\ Ordered(op, s \o t)
<1>1. /\ s \o t \in Seq(Steps)
      /\ Len(s) \in Nat /\ Len(t) \in Nat /\ Len(s \o t) = Len(s) + Len(t)
      /\ \A i \in 1..Len(s \o t) :
            (s \o t)[i] = IF i <= Len(s) THEN s[i] ELSE t[i - Len(s)]
  BY SMT
<1>2. t # <<>> <=> Len(t) > 0
  BY <1>1
<1>3. SUFFICES ASSUME NEW i \in 1..Len(s \o t)
               PROVE  /\ (s \o t)[i] \in {"hashes", "devices", "del"} => op \in Changes
                      /\ (s \o t)[i] \in {"save", "rotate"} => op \notin Changes
                      /\ i > 1 /\ (s \o t)[i] = "devices" => (s \o t)[i - 1] = "hashes"
                      /\ i > 1 /\ (s \o t)[i] = "del" => (s \o t)[i - 1] = "devices"
  BY <1>1 DEF Ordered
<1>4. CASE i <= Len(s)
  BY <1>1, <1>4 DEF Ordered
<1>5. CASE i = Len(s) + 1
  BY <1>1, <1>2, <1>5 DEF Ordered
<1>6. CASE i > Len(s) + 1
  <2> DEFINE j == i - Len(s)
  <2>1. j \in 1..Len(t) /\ j > 1 /\ i - 1 > Len(s) /\ i - 1 \in 1..Len(s \o t)
    BY <1>1, <1>6
  <2>2. (s \o t)[i] = t[j] /\ (s \o t)[i - 1] = t[j - 1]
    BY <1>1, <1>6, <2>1
  <2>3. QED
    BY <2>1, <2>2 DEF Ordered
<1>7. QED
  BY <1>1, <1>4, <1>5, <1>6

LEMMA OrderedRevocation ==
    ASSUME NEW op \in Changes
    PROVE  /\ RevokeUserSessions \in Seq(Steps) /\ Ordered(op, RevokeUserSessions)
           /\ RevokeUserSessions[1] = "hashes"
BY DEF RevokeUserSessions, Ordered, Steps

LEMMA JoinHead ==
    ASSUME NEW S, NEW s \in Seq(S), NEW t \in Seq(S), s # <<>>
    PROVE  s \o t # <<>> /\ (s \o t)[1] = s[1]
OBVIOUS

LEMMA OrderedBeforeRevocation ==
    ASSUME NEW op \in Changes, NEW s \in Seq(Steps), Ordered(op, s)
    PROVE  /\ s \o RevokeUserSessions \in Seq(Steps)
           /\ Ordered(op, s \o RevokeUserSessions)
           /\ s # <<>> => /\ s \o RevokeUserSessions # <<>>
                          /\ (s \o RevokeUserSessions)[1] = s[1]
<1>1. /\ RevokeUserSessions \in Seq(Steps) /\ Ordered(op, RevokeUserSessions)
      /\ RevokeUserSessions[1] \notin {"devices", "del"}
  BY OrderedRevocation
<1>2. QED
  BY <1>1, OrderedJoin, JoinHead

LEMMA OrderedCalls ==
    ASSUME NEW op \in Ops
    PROVE  /\ Calls(op) \in Seq(Steps) /\ Ordered(op, Calls(op))
           /\ Calls(op) # <<>> /\ Calls(op)[1] \notin {"devices", "del"}
<1>1. CASE op = "register"
  BY <1>1 DEF Calls, Ordered, Changes, Steps
<1>2. CASE op = "login"
  BY <1>2 DEF Calls, Ordered, Changes, Steps
<1>9. CASE op = "code"
  BY <1>9 DEF Calls, Ordered, Changes, Steps
<1>3. CASE op = "refresh"
  BY <1>3 DEF Calls, Ordered, Changes, Steps
<1>10. CASE op = "request"
  BY <1>10 DEF Calls, Ordered, Changes, Steps
<1>4. CASE op \in {"password", "reset"}
  <2>1. op \in Changes /\ Calls(op) = <<"read", "writePassword">> \o RevokeUserSessions
    BY <1>4 DEF Calls, Changes
  <2>2. Ordered(op, <<"read", "writePassword">>)
         /\ <<"read", "writePassword">> \in Seq(Steps)
         /\ <<"read", "writePassword">> # <<>> /\ <<"read", "writePassword">>[1] = "read"
    BY DEF Ordered, Steps
  <2>3. /\ Calls(op) \in Seq(Steps) /\ Ordered(op, Calls(op)) 
        /\ Calls(op) # <<>> /\ Calls(op)[1] = "read"
    BY <2>1, <2>2, OrderedBeforeRevocation, Zenon
  <2>4. QED
    BY <2>3
<1>5. CASE op = "disable"
  <2>1. op \in Changes /\ Calls(op) = <<"read", "write", "cacheBan">> \o RevokeUserSessions
    BY <1>5 DEF Calls, Changes
  <2>2. Ordered(op, <<"read", "write", "cacheBan">>)
         /\ <<"read", "write", "cacheBan">> \in Seq(Steps)
         /\ <<"read", "write", "cacheBan">> # <<>> /\ <<"read", "write", "cacheBan">>[1] = "read"
    BY DEF Ordered, Steps
  <2>3. /\ Calls(op) \in Seq(Steps) /\ Ordered(op, Calls(op)) 
        /\ Calls(op) # <<>> /\ Calls(op)[1] = "read"
    BY <2>1, <2>2, OrderedBeforeRevocation, Zenon
  <2>4. QED
    BY <2>3
<1>6. CASE op = "enable"
  BY <1>6 DEF Calls, Ordered, Changes, Steps
<1>7. CASE op = "role"
  BY <1>7 DEF Calls, Ordered, Changes, Steps
<1>11. CASE op = "update"
  BY <1>11 DEF Calls, Ordered, Changes, Steps
<1>8. QED
  BY <1>1, <1>2, <1>3, <1>4, <1>5, <1>6, <1>7, <1>9, <1>10, <1>11 DEF Ops, Changes

LEMMA OrderedAfterUpdate ==
    ASSUME NEW op \in Changes, NEW set, NEW cur
    PROVE  /\ AfterUpdate(set, cur) \in Seq(Steps) /\ Ordered(op, AfterUpdate(set, cur))
           /\ AfterUpdate(set, cur) # <<>> => AfterUpdate(set, cur)[1] \notin {"devices", "del"}
<1> DEFINE b == IF set.status = "banned" /\ cur.status # "banned"
                   THEN <<"cacheBan">> \o RevokeUserSessions
                ELSE IF set.status = "active" /\ cur.status = "banned"
                   THEN <<"dropBan">> ELSE <<>>
           c == IF set.admin # None /\ set.admin # cur.admin
                   THEN RevokeUserSessions ELSE <<>>
<1>1. Ordered(op, <<>>) /\ Ordered(op, <<"cacheBan">>) /\ Ordered(op, <<"dropBan">>)
      /\ <<>> \in Seq(Steps) /\ <<"dropBan">> \in Seq(Steps)
  BY DEF Ordered, Steps
<1>2. /\ <<"cacheBan">> \o RevokeUserSessions \in Seq(Steps)
      /\ Ordered(op, <<"cacheBan">> \o RevokeUserSessions)
      /\ (<<"cacheBan">> \o RevokeUserSessions)[1] = "cacheBan"
  <2>1. RevokeUserSessions \in Seq(Steps) /\ <<"cacheBan">> \in Seq(Steps)
    BY OrderedRevocation DEF Steps
  <2>2. (<<"cacheBan">> \o RevokeUserSessions)[1] = "cacheBan"
    BY <2>1
  <2>3. QED
    BY <1>1, <2>1, <2>2, OrderedJoin, OrderedRevocation
<1>3. b \in Seq(Steps) /\ Ordered(op, b) /\ (b # <<>> => b[1] \notin {"devices", "del"})
  BY <1>1, <1>2
<1>4. c \in Seq(Steps) /\ Ordered(op, c) /\ (c # <<>> => c[1] \notin {"devices", "del"})
  BY <1>1, OrderedRevocation
<1>5. AfterUpdate(set, cur) = b \o c
  BY DEF AfterUpdate
<1> HIDE DEF b, c
<1>6. b \o c \in Seq(Steps) /\ Ordered(op, b \o c)
  BY <1>3, <1>4, OrderedJoin
<1>7. b \o c # <<>> => (b \o c)[1] \notin {"devices", "del"}
  BY <1>3, <1>4
<1>8. QED
  BY <1>5, <1>6, <1>7

-----------------------------------------------------------------------------
(* Runs of handlers *)

\* While a change of the account runs, every other handler has met it.
AllMeet == \A p, q \in Procs : p # q /\ Changing(p) /\ Busy(q) => q \in overlapped

RunsInv == /\ req = [p \in Procs |-> req[p]]
           /\ \A p \in Procs : Shaped(req[p])
           /\ AllMeet

\* The other handlers go on as they were, but for what they note of the row.
OthersKept(p) ==
    /\ req' = [q \in Procs |-> req'[q]]
    /\ \A q \in Procs \ {p} :
          /\ Shaped(req'[q])
          /\ req'[q].op = req[q].op
          /\ req'[q].todo = req[q].todo
          /\ req'[q].hashes = req[q].hashes

Starts(p) ==
    /\ OthersKept(p) /\ Shaped(req'[p]) /\ ~Busy(p)
    /\ req'[p].op \in Ops
    /\ req'[p].todo = Calls(req'[p].op)
    /\ LET others == {q \in Procs \ {p} : Busy(q)}
       IN  overlapped' = overlapped
              \cup (IF \E q \in others : Changing(q) THEN {p} ELSE {})
              \cup (IF req'[p].op \in Changes THEN others ELSE {})

Ends(p) == OthersKept(p) /\ req'[p] = NoRequest /\ overlapped' = overlapped \ {p}

GoesOn(p) ==
    /\ OthersKept(p) /\ Shaped(req'[p]) /\ Busy(p)
    /\ req'[p].op = req[p].op
    /\ overlapped' = overlapped
    /\ At(p, "devices")' => At(p, "hashes") /\ req'[p].hashes = index
    /\ At(p, "del")' => At(p, "devices") /\ req'[p].hashes = req[p].hashes

Waits == req' = req /\ overlapped' = overlapped

LEMMA ShapedNoRequest == Shaped(NoRequest)
BY DEF NoRequest, Shaped, Fielded, Ordered, Steps

LEMMA FoundSet ==
    ASSUME NEW r, Shaped(r), NEW v
    PROVE  /\ Shaped([r EXCEPT !.hashes = v]) /\ [r EXCEPT !.hashes = v].op = r.op
           /\ [r EXCEPT !.hashes = v].todo = r.todo
           /\ Shaped([r EXCEPT !.devs = v]) /\ [r EXCEPT !.devs = v].op = r.op
           /\ [r EXCEPT !.devs = v].todo = r.todo
BY DEF Shaped, Fielded

LEMMA EndSteps ==
    ASSUME NEW p \in Procs, RunsInv, End(p)
    PROVE  Ends(p)
BY DEF RunsInv, End, Ends, OthersKept

\* A request reaches its handler in the shape its calls are made for.
LEMMA BeginStarts ==
    ASSUME NEW p \in Procs, RunsInv, NEW r, r.op \in Ops, Begin(p, r),
           Fielded(r)
    PROVE  Starts(p)
<1> DEFINE n == [r EXCEPT !.todo = Calls(r.op)]
<1>1. req' = [req EXCEPT ![p] = n] /\ ~Busy(p)
  BY DEF Begin
<1>2. /\ n = [op |-> r.op, todo |-> Calls(r.op), pf |-> r.pf, tok |-> r.tok, pw |-> r.pw,
              set |-> r.set, row |-> r.row, hashes |-> r.hashes, devs |-> r.devs,
              open |-> r.open]
  BY DEF Fielded
<1>3. Calls(r.op) \in Seq(Steps) /\ Ordered(r.op, Calls(r.op))
  BY OrderedCalls
<1>4. Shaped(n) /\ n.op = r.op /\ n.todo = Calls(r.op)
  BY <1>2, <1>3 DEF Shaped, Fielded
<1> HIDE DEF n
<1>5. req'[p] = n /\ OthersKept(p)
  BY <1>1 DEF RunsInv, OthersKept
<1>6. QED
  BY <1>1, <1>4, <1>5 DEF Begin, Starts

LEMMA FieldSet ==
    ASSUME NEW r, Fielded(r), NEW v
    PROVE  /\ Fielded([r EXCEPT !.op = v]) /\ [r EXCEPT !.op = v].op = v
           /\ Fielded([r EXCEPT !.pf = v]) /\ [r EXCEPT !.pf = v].op = r.op
           /\ Fielded([r EXCEPT !.tok = v]) /\ [r EXCEPT !.tok = v].op = r.op
           /\ Fielded([r EXCEPT !.pw = v]) /\ [r EXCEPT !.pw = v].op = r.op
           /\ Fielded([r EXCEPT !.set = v]) /\ [r EXCEPT !.set = v].op = r.op
           /\ Fielded([r EXCEPT !.row = v]) /\ [r EXCEPT !.row = v].op = r.op
           /\ Fielded([r EXCEPT !.open = v]) /\ [r EXCEPT !.open = v].op = r.op
BY DEF Fielded

LEMMA OpSet ==
    ASSUME NEW op
    PROVE  Fielded([NoRequest EXCEPT !.op = op]) /\ [NoRequest EXCEPT !.op = op].op = op
<1> DEFINE r == NoRequest
<1>1. Fielded(r)
  BY ShapedNoRequest DEF Shaped
<1> HIDE DEF r
<1>2. Fielded([r EXCEPT !.op = op]) /\ [r EXCEPT !.op = op].op = op
  BY ONLY <1>1, FieldSet
<1>3. QED
  BY <1>2 DEF r

LEMMA ArrivalStarts ==
    ASSUME NEW p \in Procs, RunsInv, Arrive(p)
    PROVE  Starts(p)
<1>1. CASE Register(p)
  <2>1. PICK f \in Platforms, w \in Passwords :
           Begin(p, [NoRequest EXCEPT !.op = "register", !.pf = f, !.pw = w])
    BY <1>1 DEF Register
  <2> DEFINE r1 == [NoRequest EXCEPT !.op = "register"]
             r2 == [r1 EXCEPT !.pf = f]
             r3 == [r2 EXCEPT !.pw = w]
  <2>2. Begin(p, r3)
    BY <2>1
  <2>3. Fielded(r1) /\ r1.op = "register"
    BY OpSet, Zenon
  <2> HIDE DEF r1
  <2>4. Fielded(r2) /\ r2.op = r1.op
    BY <2>3, FieldSet
  <2> HIDE DEF r2
  <2>5. Fielded(r3) /\ r3.op = r2.op
    BY <2>4, FieldSet
  <2> HIDE DEF r3
  <2>6. r3.op \in Ops
    BY <2>3, <2>4, <2>5 DEF Ops, Changes
  <2>7. QED
    BY <2>2, <2>5, <2>6, BeginStarts
<1>2. CASE Login(p)
  <2>1. PICK f \in Platforms, w \in Passwords :
           Begin(p, [NoRequest EXCEPT !.op = "login", !.pf = f, !.pw = w])
    BY <1>2 DEF Login
  <2> DEFINE r1 == [NoRequest EXCEPT !.op = "login"]
             r2 == [r1 EXCEPT !.pf = f]
             r3 == [r2 EXCEPT !.pw = w]
  <2>2. Begin(p, r3)
    BY <2>1
  <2>3. Fielded(r1) /\ r1.op = "login"
    BY OpSet, Zenon
  <2> HIDE DEF r1
  <2>4. Fielded(r2) /\ r2.op = r1.op
    BY <2>3, FieldSet
  <2> HIDE DEF r2
  <2>5. Fielded(r3) /\ r3.op = r2.op
    BY <2>4, FieldSet
  <2> HIDE DEF r3
  <2>6. r3.op \in Ops
    BY <2>3, <2>4, <2>5 DEF Ops, Changes
  <2>7. QED
    BY <2>2, <2>5, <2>6, BeginStarts
<1>3. CASE LoginByCode(p)
  <2>1. PICK f \in Platforms : Begin(p, [NoRequest EXCEPT !.op = "code", !.pf = f])
    BY <1>3 DEF LoginByCode
  <2> DEFINE r1 == [NoRequest EXCEPT !.op = "code"]
             r2 == [r1 EXCEPT !.pf = f]
  <2>2. Begin(p, r2)
    BY <2>1
  <2>3. Fielded(r1) /\ r1.op = "code"
    BY OpSet, Zenon
  <2> HIDE DEF r1
  <2>4. Fielded(r2) /\ r2.op = r1.op
    BY <2>3, FieldSet
  <2> HIDE DEF r2
  <2>5. r2.op \in Ops
    BY <2>3, <2>4 DEF Ops, Changes
  <2>6. QED
    BY <2>2, <2>4, <2>5, BeginStarts
<1>4. CASE Refresh(p)
  <2>1. PICK t \in DOMAIN issued :
           Begin(p, [NoRequest EXCEPT !.op = "refresh", !.tok = t])
    BY <1>4 DEF Refresh
  <2> DEFINE r1 == [NoRequest EXCEPT !.op = "refresh"]
             r2 == [r1 EXCEPT !.tok = t]
  <2>2. Begin(p, r2)
    BY <2>1
  <2>3. Fielded(r1) /\ r1.op = "refresh"
    BY OpSet, Zenon
  <2> HIDE DEF r1
  <2>4. Fielded(r2) /\ r2.op = r1.op
    BY <2>3, FieldSet
  <2> HIDE DEF r2
  <2>5. r2.op \in Ops
    BY <2>3, <2>4 DEF Ops, Changes
  <2>6. QED
    BY <2>2, <2>4, <2>5, BeginStarts
<1>5. CASE Authorized(p)
  <2>1. PICK t \in DOMAIN issued :
           Begin(p, [NoRequest EXCEPT !.op = "request", !.tok = t,
                                      !.open = (account.status = "active")])
    BY <1>5 DEF Authorized
  <2> DEFINE r1 == [NoRequest EXCEPT !.op = "request"]
             r2 == [r1 EXCEPT !.tok = t]
             r3 == [r2 EXCEPT !.open = (account.status = "active")]
  <2>2. Begin(p, r3)
    BY <2>1
  <2>3. Fielded(r1) /\ r1.op = "request"
    BY OpSet, Zenon
  <2> HIDE DEF r1
  <2>4. Fielded(r2) /\ r2.op = r1.op
    BY <2>3, FieldSet
  <2> HIDE DEF r2
  <2>5. Fielded(r3) /\ r3.op = r2.op
    BY <2>4, FieldSet
  <2> HIDE DEF r3
  <2>6. r3.op \in Ops
    BY <2>3, <2>4, <2>5 DEF Ops, Changes
  <2>7. QED
    BY <2>2, <2>5, <2>6, BeginStarts
<1>6. CASE ChangePassword(p)
  <2>1. PICK w \in Passwords, n \in Passwords :
           Begin(p, [NoRequest EXCEPT !.op = "password", !.pw = w, !.row = [pw |-> n]])
    BY <1>6 DEF ChangePassword
  <2> DEFINE r1 == [NoRequest EXCEPT !.op = "password"]
             r2 == [r1 EXCEPT !.pw = w]
             r3 == [r2 EXCEPT !.row = [pw |-> n]]
  <2>2. Begin(p, r3)
    BY <2>1
  <2>3. Fielded(r1) /\ r1.op = "password"
    BY OpSet, Zenon
  <2> HIDE DEF r1
  <2>4. Fielded(r2) /\ r2.op = r1.op
    BY <2>3, FieldSet
  <2> HIDE DEF r2
  <2>5. Fielded(r3) /\ r3.op = r2.op
    BY <2>4, FieldSet
  <2> HIDE DEF r3
  <2>6. r3.op \in Ops
    BY <2>3, <2>4, <2>5 DEF Ops, Changes
  <2>7. QED
    BY <2>2, <2>5, <2>6, BeginStarts
<1>7. CASE ResetPassword(p)
  <2>1. PICK n \in Passwords :
           Begin(p, [NoRequest EXCEPT !.op = "reset", !.row = [pw |-> n]])
    BY <1>7 DEF ResetPassword
  <2> DEFINE r1 == [NoRequest EXCEPT !.op = "reset"]
             r2 == [r1 EXCEPT !.row = [pw |-> n]]
  <2>2. Begin(p, r2)
    BY <2>1
  <2>3. Fielded(r1) /\ r1.op = "reset"
    BY OpSet, Zenon
  <2> HIDE DEF r1
  <2>4. Fielded(r2) /\ r2.op = r1.op
    BY <2>3, FieldSet
  <2> HIDE DEF r2
  <2>5. r2.op \in Ops
    BY <2>3, <2>4 DEF Ops, Changes
  <2>6. QED
    BY <2>2, <2>4, <2>5, BeginStarts
<1>8. CASE UpdateRole(p)
  <2>1. PICK r \in Roles :
           Begin(p, [NoRequest EXCEPT !.op = "role", !.set = [NoFields EXCEPT !.role = r]])
    BY <1>8 DEF UpdateRole
  <2> DEFINE r1 == [NoRequest EXCEPT !.op = "role"]
             r2 == [r1 EXCEPT !.set = [NoFields EXCEPT !.role = r]]
  <2>2. Begin(p, r2)
    BY <2>1
  <2>3. Fielded(r1) /\ r1.op = "role"
    BY OpSet, Zenon
  <2> HIDE DEF r1
  <2>4. Fielded(r2) /\ r2.op = r1.op
    BY <2>3, FieldSet
  <2> HIDE DEF r2
  <2>5. r2.op \in Ops
    BY <2>3, <2>4 DEF Ops, Changes
  <2>6. QED
    BY <2>2, <2>4, <2>5, BeginStarts
<1>9. CASE UpdateUser(p)
  <2>1. PICK set \in Updates :
           Begin(p, [NoRequest EXCEPT !.op = "update", !.set = set])
    BY <1>9 DEF UpdateUser
  <2> DEFINE r1 == [NoRequest EXCEPT !.op = "update"]
             r2 == [r1 EXCEPT !.set = set]
  <2>2. Begin(p, r2)
    BY <2>1
  <2>3. Fielded(r1) /\ r1.op = "update"
    BY OpSet, Zenon
  <2> HIDE DEF r1
  <2>4. Fielded(r2) /\ r2.op = r1.op
    BY <2>3, FieldSet
  <2> HIDE DEF r2
  <2>5. r2.op \in Ops
    BY <2>3, <2>4 DEF Ops, Changes
  <2>6. QED
    BY <2>2, <2>4, <2>5, BeginStarts
<1>10. CASE DisableUser(p)
  <2> DEFINE r1 == [NoRequest EXCEPT !.op = "disable"]
             r2 == [r1 EXCEPT !.set = [NoFields EXCEPT !.status = "banned"]]
  <2>1. Begin(p, r2)
    BY <1>10 DEF DisableUser
  <2>2. Fielded(r1) /\ r1.op = "disable"
    BY OpSet, Zenon
  <2> HIDE DEF r1
  <2>3. Fielded(r2) /\ r2.op = r1.op
    BY <2>2, FieldSet
  <2> HIDE DEF r2
  <2>4. r2.op \in Ops
    BY <2>2, <2>3 DEF Ops, Changes
  <2>5. QED
    BY <2>1, <2>3, <2>4, BeginStarts
<1>11. CASE EnableUser(p)
  <2> DEFINE r1 == [NoRequest EXCEPT !.op = "enable"]
             r2 == [r1 EXCEPT !.set = [NoFields EXCEPT !.status = "active"]]
  <2>1. Begin(p, r2)
    BY <1>11 DEF EnableUser
  <2>2. Fielded(r1) /\ r1.op = "enable"
    BY OpSet, Zenon
  <2> HIDE DEF r1
  <2>3. Fielded(r2) /\ r2.op = r1.op
    BY <2>2, FieldSet
  <2> HIDE DEF r2
  <2>4. r2.op \in Ops
    BY <2>2, <2>3 DEF Ops, Changes
  <2>5. QED
    BY <2>1, <2>3, <2>4, BeginStarts
<1>12. QED
  BY <1>1, <1>2, <1>3, <1>4, <1>5, <1>6, <1>7, <1>8, <1>9, <1>10, <1>11 DEF Arrive

LEMMA NextCallGoesOn ==
    ASSUME NEW p \in Procs, RunsInv, Busy(p), req[p].todo # <<>>,
           NEW r, Shaped(r), r.todo # <<>>, r.todo[1] = Next1(p), r.op = req[p].op,
           OthersKept(p), overlapped' = overlapped,
           req'[p] = [r EXCEPT !.todo = Tail(r.todo)],
           At(p, "hashes") => r.hashes = index,
           At(p, "devices") => r.hashes = req[p].hashes
    PROVE  GoesOn(p)
<1> DEFINE t == Tail(r.todo)
           n == [r EXCEPT !.todo = t]
<1>1. t \in Seq(Steps) /\ Ordered(r.op, t)
  BY OrderedTail DEF Shaped
<1>2. ASSUME t # <<>>, Head(t) \in {"devices", "del"}
      PROVE  Next1(p) = IF Head(t) = "devices" THEN "hashes" ELSE "devices"
  <2>1. r.todo \in Seq(Steps) /\ Ordered(r.op, r.todo)
    BY DEF Shaped
  <2>2. Head(t) = r.todo[2] /\ 2 \in 1..Len(r.todo)
    BY <1>2, <2>1
  <2> HIDE DEF t
  <2>3. /\ r.todo[2] = "devices" => r.todo[1] = "hashes"
        /\ r.todo[2] = "del" => r.todo[1] = "devices"
    BY <2>1, <2>2 DEF Ordered
  <2>4. QED
    BY <1>2, <2>2, <2>3
<1>3. req'[p] = n
  OBVIOUS
<1> HIDE DEF t
<1>4. n = [op |-> r.op, todo |-> t, pf |-> r.pf, tok |-> r.tok, pw |-> r.pw,
           set |-> r.set, row |-> r.row, hashes |-> r.hashes, devs |-> r.devs,
           open |-> r.open]
  BY DEF Shaped, Fielded
<1>5. Shaped(n) /\ n.op = r.op /\ n.todo = t /\ n.hashes = r.hashes
  BY <1>1, <1>4 DEF Shaped, Fielded
<1> HIDE DEF n
<1>6. At(p, "devices")' => Head(t) = "devices" /\ t # <<>>
  BY <1>3, <1>5 DEF At, Next1
<1>7. At(p, "del")' => Head(t) = "del" /\ t # <<>>
  BY <1>3, <1>5 DEF At, Next1
<1>8. QED
  BY <1>2, <1>3, <1>5, <1>6, <1>7 DEF GoesOn, At

LEMMA ContinueGoesOn ==
    ASSUME NEW p \in Procs, RunsInv, Busy(p), req[p].todo # <<>>,
           NEW r, Shaped(r), r.todo # <<>>, r.todo[1] = Next1(p), r.op = req[p].op,
           Continue(p, r), overlapped' = overlapped,
           At(p, "hashes") => r.hashes = index,
           At(p, "devices") => r.hashes = req[p].hashes
    PROVE  GoesOn(p)
<1> DEFINE n == [r EXCEPT !.todo = Tail(r.todo)]
<1>1. req' = [req EXCEPT ![p] = n]
  BY DEF Continue
<1> HIDE DEF n
<1>2. req'[p] = n /\ OthersKept(p)
  BY <1>1 DEF RunsInv, OthersKept
<1>3. QED
  BY <1>2, NextCallGoesOn DEF n

LEMMA JumpGoesOn ==
    ASSUME NEW p \in Procs, RunsInv, Busy(p), NEW step \in {"replay", "lookup", "serve"},
           req' = [req EXCEPT ![p].todo = <<step>>], overlapped' = overlapped
    PROVE  GoesOn(p)
<1> DEFINE r == req[p]
           n == [r EXCEPT !.todo = <<step>>]
<1>1. <<step>> \in Seq(Steps) /\ Ordered(r.op, <<step>>)
  BY DEF Ordered, Steps
<1>2. n = [op |-> r.op, todo |-> <<step>>, pf |-> r.pf, tok |-> r.tok, pw |-> r.pw,
           set |-> r.set, row |-> r.row, hashes |-> r.hashes, devs |-> r.devs,
           open |-> r.open]
  BY DEF Shaped, Fielded, RunsInv
<1>3. Shaped(n) /\ n.op = r.op /\ n.todo = <<step>>
  BY <1>1, <1>2 DEF Shaped, Fielded
<1>4. req' = [req EXCEPT ![p] = n]
  OBVIOUS
<1> HIDE DEF n
<1>5. req'[p] = n /\ OthersKept(p)
  BY <1>4 DEF RunsInv, OthersKept
<1>6. ~At(p, "devices")' /\ ~At(p, "del")'
  BY <1>3, <1>5 DEF At, Next1
<1>7. QED
  BY <1>3, <1>5, <1>6 DEF GoesOn

-----------------------------------------------------------------------------
(* Sessions a revocation may miss *)

\* What a revocation has not found in the index was stored during a change.
FoundAll == \A p \in Procs :
    At(p, "devices") \/ At(p, "del") => refresh \ req[p].hashes \subseteq raced

LossInv == RunsInv /\ LostSessionsRaced /\ FoundAll

NoneStored == refresh' \subseteq refresh /\ index' = index /\ raced' = raced

Stores(p) ==
    /\ Busy(p)
    /\ refresh' \subseteq refresh \cup {Fresh}
    /\ refresh' \ index' \subseteq refresh \ index
    /\ raced \subseteq raced'
    /\ p \in overlapped => Fresh \in raced'

Deletes(p) ==
    /\ At(p, "del")
    /\ refresh' = refresh \ req[p].hashes
    /\ raced' = raced

Runs(p) == Starts(p) \/ Ends(p) \/ GoesOn(p)

\* An arrival stores nothing.
LEMMA ArrivalStoresNone ==
    ASSUME NEW p \in Procs, Arrive(p)
    PROVE  NoneStored
<1>1. PICK r : Begin(p, r)
  BY DEF Arrive, Register, Login, LoginByCode, Refresh, Authorized, ChangePassword,
         ResetPassword, UpdateRole, UpdateUser, DisableUser, EnableUser
<1>2. QED
  BY <1>1 DEF Begin, NoneStored, redis

\* The next call of a handler that is not revoking leaves its hashes alone.
LEMMA AdvanceRuns ==
    ASSUME NEW p \in Procs, RunsInv, NEW step, At(p, step), Advance(p, req[p]),
           step # "hashes"
    PROVE  Ends(p) \/ GoesOn(p)
<1>1. CASE End(p)
  BY <1>1, EndSteps
<1>2. CASE Continue(p, req[p]) /\ overlapped' = overlapped
  <2>1. Shaped(req[p]) /\ req[p].todo \in Seq(Steps)
    BY DEF RunsInv, Shaped
  <2>2. Busy(p) /\ req[p].todo # <<>> /\ req[p].todo[1] = Next1(p) /\ ~At(p, "hashes")
    BY <2>1 DEF At, Next1
  <2>3. QED
    BY <1>2, <2>1, <2>2, ContinueGoesOn
<1>3. QED
  BY <1>1, <1>2 DEF Advance

\* Every step stores nothing, or stores one token for a handler that then
\* ends, or deletes what a revocation found.
LEMMA LossSteps ==
    ASSUME RunsInv, [Next]_vars
    PROVE  \/ NoneStored /\ (Waits \/ \E p \in Procs : Runs(p))
           \/ \E p \in Procs : Stores(p) /\ Ends(p)
           \/ \E p \in Procs : Deletes(p) /\ index' = {} /\ (Ends(p) \/ GoesOn(p))
<1>1. ASSUME NEW p \in Procs, Arrive(p) PROVE NoneStored /\ Runs(p)
  BY <1>1, ArrivalStarts, ArrivalStoresNone DEF Runs
<1>2. ASSUME NEW p \in Procs, CreateWithPhone(p) \/ ReadUser(p) PROVE NoneStored /\ Runs(p)
  <2>1. NoneStored /\ Busy(p) /\ req[p].todo # <<>> /\ ~At(p, "hashes") /\ ~At(p, "devices")
    BY <1>2 DEF CreateWithPhone, ReadUser, At, NoneStored, redis
  <2>2. CASE End(p)
    BY <2>1, <2>2, EndSteps DEF Runs
  <2>3. ASSUME NEW r, Continue(p, r), overlapped' = overlapped, r.op = req[p].op,
               Shaped(r), r.todo # <<>>, r.todo[1] = Next1(p)
        PROVE  Runs(p)
    BY <2>1, <2>3, ContinueGoesOn DEF Runs
  <2>4. /\ Shaped(req[p]) /\ Fielded(req[p]) /\ req[p].todo \in Seq(Steps)
        /\ Ordered(req[p].op, req[p].todo) /\ req[p].todo[1] = Next1(p)
    BY <2>1 DEF RunsInv, Shaped, Next1
  <2>5. ASSUME NEW v
        PROVE  /\ Shaped([req[p] EXCEPT !.row = v])
               /\ [req[p] EXCEPT !.row = v].op = req[p].op
               /\ [req[p] EXCEPT !.row = v].todo = req[p].todo
    BY <2>4 DEF Shaped, Fielded
  <2>6. CASE CreateWithPhone(p) /\ ~End(p)
    <3>1. Continue(p, [req[p] EXCEPT !.row = account']) /\ overlapped' = overlapped
      BY <2>6 DEF CreateWithPhone
    <3>2. QED
      BY <2>1, <2>3, <2>4, <2>5, <3>1
  <2>7. CASE ReadUser(p) /\ ~End(p)
    <3> DEFINE a == AfterUpdate(req[p].set, account)
               u == [req[p] EXCEPT !.todo = req[p].todo \o a]
    <3>1. overlapped' = overlapped /\ \/ Continue(p, [req[p] EXCEPT !.row = account])
                                      \/ req[p].op = "update" /\ Continue(p, u)
                                      \/ Continue(p, req[p])
      BY <2>7 DEF ReadUser
    <3>2. CASE Continue(p, [req[p] EXCEPT !.row = account])
      BY <2>1, <2>3, <2>4, <2>5, <3>1, <3>2
    <3>3. CASE Continue(p, req[p])
      BY <2>1, <2>3, <2>4, <3>1, <3>3
    <3>4. CASE req[p].op = "update" /\ Continue(p, u)
      <4>1. /\ a \in Seq(Steps) /\ Ordered(req[p].op, a)
            /\ a # <<>> => a[1] \notin {"devices", "del"}
        BY <3>4, OrderedAfterUpdate DEF Changes
      <4> DEFINE s == req[p].todo \o a
      <4>2. s \in Seq(Steps) /\ Ordered(req[p].op, s)
        BY <2>4, <4>1, OrderedJoin
      <4>3. s # <<>> /\ s[1] = req[p].todo[1]
        BY <2>1, <2>4, <4>1, JoinHead
      <4> HIDE DEF a, s
      <4>4. u = [req[p] EXCEPT !.todo = s]
        BY DEF s
      <4> HIDE DEF u
      <4>5. Shaped(u) /\ u.op = req[p].op /\ u.todo = s
        BY <2>4, <4>2, <4>4 DEF Shaped, Fielded
      <4>6. u.todo # <<>> /\ u.todo[1] = Next1(p)
        BY <2>4, <4>3, <4>5
      <4>7. QED
        BY <2>1, <2>3, <3>1, <3>4, <4>5, <4>6
    <3>5. QED
      BY <3>1, <3>2, <3>3, <3>4
  <2>8. QED
    BY <1>2, <2>1, <2>2, <2>6, <2>7
<1>3. ASSUME NEW p \in Procs, UpdatePassword(p) \/ CacheBan(p) \/ DropBan(p)
      PROVE  NoneStored /\ Runs(p)
  <2>1. NoneStored /\ Advance(p, req[p]) /\ \E step \in {"writePassword", "cacheBan", "dropBan"} : At(p, step)
    BY <1>3 DEF UpdatePassword, CacheBan, DropBan, NoneStored, redis
  <2>2. QED
    BY <2>1, AdvanceRuns DEF Runs
<1>4. ASSUME NEW p \in Procs, WriteUser(p) PROVE NoneStored /\ Runs(p)
  <2>1. NoneStored
    BY <1>4 DEF WriteUser, NoneStored, redis
  <2>2. OthersKept(p)
    <3>1. ASSUME NEW q \in Procs \ {p}
          PROVE  req'[q] = req[q] \/ req'[q] = [req[q] EXCEPT !.open = TRUE]
      BY <1>4 DEF WriteUser
    <3>2. ASSUME NEW q \in Procs, NEW v
          PROVE  /\ Shaped([req[q] EXCEPT !.open = v])
                 /\ [req[q] EXCEPT !.open = v].op = req[q].op
                 /\ [req[q] EXCEPT !.open = v].todo = req[q].todo
                 /\ [req[q] EXCEPT !.open = v].hashes = req[q].hashes
      <4>1. Shaped(req[q])
        BY DEF RunsInv
      <4>2. QED
        BY <4>1 DEF Shaped, Fielded
    <3>3. req' = [q \in Procs |-> req'[q]]
      BY <1>4 DEF WriteUser
    <3>4. ASSUME NEW q \in Procs \ {p}
          PROVE  /\ Shaped(req'[q])
                 /\ req'[q].op = req[q].op
                 /\ req'[q].todo = req[q].todo
                 /\ req'[q].hashes = req[q].hashes
      <4>1. CASE req'[q] = req[q]
        BY <4>1 DEF RunsInv
      <4>2. CASE req'[q] = [req[q] EXCEPT !.open = TRUE]
        BY <4>2, <3>2
      <4>3. QED
        BY <3>1, <4>1, <4>2
    <3>5. QED
      BY <3>3, <3>4 DEF OthersKept
  <2>3. CASE Len(req[p].todo) = 1
    <3>1. req'[p] = NoRequest /\ overlapped' = overlapped \ {p}
      BY <1>4, <2>3, Zenon DEF WriteUser
    <3>2. QED
      BY <2>1, <2>2, <3>1 DEF Ends, Runs
  <2>4. CASE Len(req[p].todo) # 1
    <3>1. overlapped' = overlapped /\ req'[p] = [req[p] EXCEPT !.todo = Tail(@)]
      BY <1>4, <2>4, Zenon DEF WriteUser
    <3>2. Shaped(req[p]) /\ req[p].todo \in Seq(Steps) /\ At(p, "write")
      BY <1>4 DEF WriteUser, RunsInv, Shaped
    <3>3. /\ Busy(p) /\ req[p].todo # <<>> /\ req[p].todo[1] = Next1(p)
          /\ ~At(p, "hashes") /\ ~At(p, "devices")
      BY <3>2 DEF At, Next1
    <3>4. QED
      BY <2>1, <2>2, <3>1, <3>2, <3>3, NextCallGoesOn DEF Runs
  <2>5. QED
    BY <2>1, <2>3, <2>4
<1>5. ASSUME NEW p \in Procs, Save(p) \/ RotateSingleUse(p) PROVE Stores(p) /\ Ends(p)
  BY <1>5, EndSteps DEF Save, RotateSingleUse, StoreToken, Taint, Stores, At
<1>6. ASSUME NEW p \in Procs, RotateRefused(p) \/ AuthStatusCache(p) \/ AuthStatusLookup(p)
      PROVE  NoneStored /\ Runs(p)
  <2>1. NoneStored /\ Busy(p)
    BY <1>6 DEF RotateRefused, AuthStatusCache, AuthStatusLookup, At, NoneStored, redis, history
  <2>2. \/ End(p)
        \/ \E step \in {"replay", "lookup", "serve"} :
              req' = [req EXCEPT ![p].todo = <<step>>] /\ overlapped' = overlapped
    BY <1>6 DEF RotateRefused, AuthStatusCache, AuthStatusLookup, history
  <2>3. QED
    BY <2>1, <2>2, EndSteps, JumpGoesOn DEF Runs
<1>7. ASSUME NEW p \in Procs, GetRotationReplay(p) \/ Serve(p) \/ Fail(p)
      PROVE  NoneStored /\ Runs(p)
  BY <1>7, EndSteps DEF GetRotationReplay, Serve, Fail, NoneStored, redis, Runs
<1>8. ASSUME NEW p \in Procs, RevokeReadHashes(p) PROVE NoneStored /\ Runs(p)
  <2> DEFINE r == [req[p] EXCEPT !.hashes = index]
  <2>1. NoneStored /\ overlapped' = overlapped /\ Continue(p, r) /\ At(p, "hashes")
    BY <1>8 DEF RevokeReadHashes, NoneStored, redis, history
  <2>2. Shaped(req[p])
    BY DEF RunsInv
  <2>3. Shaped(r) /\ r.op = req[p].op /\ r.todo = req[p].todo /\ r.hashes = index
    BY <2>2 DEF Shaped, Fielded
  <2>4. req[p].todo # <<>> /\ Busy(p) /\ req[p].todo[1] = Next1(p) /\ ~At(p, "devices")
    BY <2>1, <2>2 DEF At, Next1, Shaped
  <2> HIDE DEF r
  <2>5. QED
    BY <2>1, <2>3, <2>4, ContinueGoesOn DEF Runs
<1>9. ASSUME NEW p \in Procs, RevokeReadDevices(p) PROVE NoneStored /\ Runs(p)
  <2> DEFINE r == [req[p] EXCEPT !.devs = devices]
  <2>1. NoneStored /\ overlapped' = overlapped /\ Continue(p, r) /\ At(p, "devices")
    BY <1>9 DEF RevokeReadDevices, NoneStored, redis, history
  <2>2. Shaped(req[p])
    BY DEF RunsInv
  <2>3. Shaped(r) /\ r.op = req[p].op /\ r.todo = req[p].todo /\ r.hashes = req[p].hashes
    BY <2>2 DEF Shaped, Fielded
  <2>4. req[p].todo # <<>> /\ Busy(p) /\ req[p].todo[1] = Next1(p) /\ ~At(p, "hashes")
    BY <2>1, <2>2 DEF At, Next1, Shaped
  <2> HIDE DEF r
  <2>5. QED
    BY <2>1, <2>3, <2>4, ContinueGoesOn DEF Runs
<1>10. ASSUME NEW p \in Procs, RevokeDelete(p)
       PROVE  Deletes(p) /\ index' = {} /\ (Ends(p) \/ GoesOn(p))
  <2> DEFINE r1 == [req[p] EXCEPT !.hashes = {}]
             r == [r1 EXCEPT !.devs = {}]
  <2>1. Deletes(p) /\ index' = {} /\ Advance(p, r) /\ At(p, "del")
    BY <1>10 DEF RevokeDelete, Deletes
  <2>2. Shaped(req[p])
    BY DEF RunsInv
  <2>6. Shaped(r1) /\ r1.op = req[p].op /\ r1.todo = req[p].todo
    BY <2>2, FoundSet
  <2> HIDE DEF r1
  <2>3. Shaped(r) /\ r.op = req[p].op /\ r.todo = req[p].todo
    BY <2>6, FoundSet
  <2>4. /\ req[p].todo # <<>> /\ Busy(p) /\ req[p].todo[1] = Next1(p)
        /\ ~At(p, "hashes") /\ ~At(p, "devices")
    BY <2>1, <2>2 DEF At, Next1, Shaped
  <2> HIDE DEF r
  <2>5. QED
    BY <2>1, <2>3, <2>4, ContinueGoesOn, EndSteps DEF Advance
<1>11. ASSUME NEW t \in Tokens, Expire(t) \/ ExpireReplay(t) PROVE NoneStored /\ Waits
  BY <1>11 DEF Expire, ExpireReplay, NoneStored, Waits, history
<1>12. ASSUME UNCHANGED vars PROVE NoneStored /\ Waits
  BY <1>12 DEF vars, redis, history, NoneStored, Waits
<1>13. QED
  BY <1>1, <1>2, <1>3, <1>4, <1>5, <1>6, <1>7, <1>8, <1>9, <1>10, <1>11, <1>12
     DEF Next, Handle

LEMMA RunsStep ==
    ASSUME RunsInv, [Next]_vars
    PROVE  RunsInv'
<1>1. CASE Waits
  BY <1>1 DEF Waits, RunsInv, AllMeet, Changing, Busy
<1>2. ASSUME NEW p \in Procs, Runs(p) PROVE RunsInv'
  <2>1. /\ OthersKept(p) /\ Shaped(req'[p])
        /\ \A q \in Procs \ {p} : (Busy(q)' <=> Busy(q)) /\ (Changing(q)' <=> Changing(q))
    BY <1>2, ShapedNoRequest DEF Runs, Starts, Ends, GoesOn, OthersKept, Busy, Changing
  <2>2. req' = [q \in Procs |-> req'[q]] /\ \A q \in Procs : Shaped(req'[q])
    BY <2>1 DEF OthersKept
  <2>3. ASSUME NEW a \in Procs, NEW b \in Procs, a # b, Changing(a)', Busy(b)'
        PROVE  b \in overlapped'
    <3>1. CASE Starts(p)
      <4>1. ~Busy(p) /\ (Changing(p)' => req'[p].op \in Changes)
        BY <3>1 DEF Starts, Changing
      <4>2. CASE a # p /\ b # p
        BY <2>1, <2>3, <3>1, <4>2 DEF Starts, RunsInv, AllMeet
      <4>3. CASE a = p
        BY <2>1, <2>3, <3>1, <4>1, <4>3 DEF Starts
      <4>4. CASE b = p
        <5>1. a \in {q \in Procs \ {p} : Busy(q)} /\ Changing(a)
          BY <2>1, <2>3, <4>4 DEF Changing, Busy, Changes
        <5>2. QED
          BY <3>1, <4>4, <5>1 DEF Starts
      <4>5. QED
        BY <4>2, <4>3, <4>4
    <3>2. CASE Ends(p)
      <4>1. ~Busy(p)' /\ ~Changing(p)'
        BY <3>2 DEF Ends, NoRequest, Busy, Changing, Changes
      <4>2. QED
        BY <2>1, <2>3, <3>2, <4>1 DEF Ends, RunsInv, AllMeet
    <3>3. CASE GoesOn(p)
      <4>1. (Busy(p)' <=> Busy(p)) /\ (Changing(p)' <=> Changing(p))
        BY <3>3 DEF GoesOn, Busy, Changing
      <4>2. QED
        BY <2>1, <2>3, <3>3, <4>1 DEF GoesOn, RunsInv, AllMeet
    <3>4. QED
      BY <1>2, <3>1, <3>2, <3>3 DEF Runs
  <2>4. QED
    BY <2>2, <2>3 DEF RunsInv, AllMeet
<1>3. QED
  BY <1>1, <1>2, LossSteps DEF Runs

\* Only a change of the account revokes.
LEMMA RevokerChanges ==
    ASSUME RunsInv, NEW p \in Procs, At(p, "devices") \/ At(p, "del")
    PROVE  Changing(p)
<1>1. Shaped(req[p]) /\ req[p].todo \in Seq(Steps) /\ Ordered(req[p].op, req[p].todo)
  BY DEF RunsInv, Shaped
<1>2. 1 \in 1..Len(req[p].todo) /\ req[p].todo[1] \in {"devices", "del"}
  BY <1>1 DEF At, Next1
<1>3. QED
  BY <1>1, <1>2 DEF Ordered, Changing

LEMMA LossStep ==
    ASSUME LossInv, [Next]_vars
    PROVE  LossInv'
<1>1. RunsInv'
  BY RunsStep DEF LossInv
<1>2. ASSUME NEW p \in Procs, OthersKept(p)
      PROVE  \A q \in Procs \ {p} : /\ At(q, "devices")' <=> At(q, "devices")
                                    /\ At(q, "del")' <=> At(q, "del")
                                    /\ req'[q].hashes = req[q].hashes
  BY <1>2 DEF OthersKept, At, Busy, Next1
<1>3. ASSUME NEW p \in Procs, Ends(p) PROVE ~At(p, "devices")' /\ ~At(p, "del")'
  BY <1>3 DEF Ends, NoRequest, At, Busy
<1>4. ASSUME NEW p \in Procs, Starts(p) PROVE ~At(p, "devices")' /\ ~At(p, "del")'
  <2>1. req'[p].todo[1] \notin {"devices", "del"} /\ req'[p].todo \in Seq(Steps)
    BY <1>4, OrderedCalls DEF Starts
  <2>2. QED
    BY <2>1 DEF At, Next1
<1>5. CASE NoneStored /\ (Waits \/ \E p \in Procs : Runs(p))
  <2>1. LostSessionsRaced'
    BY <1>5 DEF LossInv, LostSessionsRaced, NoneStored
  <2>2. CASE Waits
    <3>1. ASSUME NEW q \in Procs
          PROVE  /\ At(q, "devices")' <=> At(q, "devices")
                 /\ At(q, "del")' <=> At(q, "del")
                 /\ req'[q].hashes = req[q].hashes
      BY <2>2 DEF Waits, At, Busy, Next1
    <3>2. FoundAll'
      BY <1>5, <3>1 DEF LossInv, FoundAll, NoneStored
    <3>3. QED
      BY <1>1, <2>1, <3>2 DEF LossInv
  <2>3. ASSUME NEW p \in Procs, Runs(p) PROVE FoundAll'
    <3>1. OthersKept(p)
      BY <2>3 DEF Runs, Starts, Ends, GoesOn
    <3>2. ASSUME NEW q \in Procs \ {p}, At(q, "devices")' \/ At(q, "del")'
          PROVE  refresh' \ req'[q].hashes \subseteq raced'
      BY <1>2, <1>5, <3>1, <3>2 DEF LossInv, FoundAll, NoneStored
    <3>3. ASSUME At(p, "devices")' \/ At(p, "del")'
          PROVE  refresh' \ req'[p].hashes \subseteq raced'
      <4>1. GoesOn(p)
        BY <1>3, <1>4, <2>3, <3>3 DEF Runs
      <4>2. CASE At(p, "devices")'
        BY <1>5, <4>1, <4>2 DEF GoesOn, LossInv, LostSessionsRaced, NoneStored
      <4>3. CASE At(p, "del")'
        BY <1>5, <4>1, <4>3 DEF GoesOn, LossInv, FoundAll, NoneStored
      <4>4. QED
        BY <3>3, <4>2, <4>3
    <3>4. QED
      BY <3>2, <3>3 DEF FoundAll
  <2>4. QED
    BY <1>1, <1>5, <2>1, <2>2, <2>3 DEF LossInv
<1>6. ASSUME NEW p \in Procs, Stores(p), Ends(p) PROVE LossInv'
  <2>1. LostSessionsRaced'
    BY <1>6 DEF Stores, LossInv, LostSessionsRaced
  <2>2. ASSUME NEW q \in Procs, At(q, "devices")' \/ At(q, "del")'
        PROVE  refresh' \ req'[q].hashes \subseteq raced'
    <3>1. q # p /\ OthersKept(p)
      BY <1>3, <1>6, <2>2 DEF Ends
    <3>2. (At(q, "devices") \/ At(q, "del")) /\ req'[q].hashes = req[q].hashes
      BY <1>2, <2>2, <3>1
    <3>3. Changing(q)
      BY <3>2, RevokerChanges DEF LossInv
    <3>4. p \in overlapped
      BY <1>6, <3>1, <3>3 DEF Stores, LossInv, RunsInv, AllMeet
    <3>5. QED
      BY <1>6, <3>2, <3>4 DEF Stores, LossInv, FoundAll
  <2>3. QED
    BY <1>1, <2>1, <2>2 DEF LossInv, FoundAll
<1>7. ASSUME NEW p \in Procs, Deletes(p), index' = {}, Ends(p) \/ GoesOn(p) PROVE LossInv'
  <2>1. refresh' \subseteq raced' /\ refresh' \subseteq refresh
    BY <1>7 DEF Deletes, LossInv, FoundAll
  <2>2. QED
    BY <1>1, <2>1 DEF LossInv, LostSessionsRaced, FoundAll
<1>8. QED
  BY <1>5, <1>6, <1>7, LossSteps DEF LossInv

LEMMA LossInit == Init => LossInv
<1> SUFFICES ASSUME Init PROVE LossInv
  OBVIOUS
<1>1. \A p \in Procs : req[p] = NoRequest
  BY DEF Init
<1>2. RunsInv
  BY <1>1, ShapedNoRequest DEF Init, RunsInv, AllMeet, Busy, NoRequest
<1>3. FoundAll
  BY <1>1 DEF FoundAll, At, Busy, NoRequest
<1>4. LostSessionsRaced
  BY DEF Init, NoAccount, OneSession, LostSessionsRaced
<1>5. QED
  BY <1>2, <1>3, <1>4 DEF LossInv

\* A session that no later revocation would find was stored by a handler that
\* ran while the account was being changed, or rotated from such a session:
\* whatever the number of handlers, nothing else takes a live token out of the
\* index (SaveRefreshToken, RotateSingleUse and RevokeUserSessions).
THEOREM LostRaced == Spec => []LostSessionsRaced
<1>1. LossInv => LostSessionsRaced
  BY DEF LossInv
<1>2. Init => LossInv
  BY LossInit
<1>3. LossInv /\ [Next]_vars => LossInv'
  BY LossStep
<1>4. QED
  BY <1>1, <1>2, <1>3, PTL DEF Spec

-----------------------------------------------------------------------------
(* What a handler still has to do *)

Logins == {"register", "login", "code"}
Early  == {"read", "write", "writePassword"}
Late   == {"cacheBan", "dropBan", "hashes", "devices", "del"}

\* The calls a request of each kind may have before it.
OpSteps(op) ==
    CASE op = "register" -> {"create", "save"}
      [] op \in {"login", "code"} -> {"read", "save"}
      [] op = "refresh" -> {"rotate", "replay"}
      [] op = "request" -> {"cache", "lookup", "serve"}
      [] op \in {"password", "reset"} -> {"read", "writePassword"} \cup Late
      [] op = "role" -> {"write"}
      [] op \in {"update", "disable", "enable"} -> {"read", "write"} \cup Late
      [] OTHER -> {}

Has(s, x)   == \E i \in 1..Len(s) : s[i] = x
Heads(s, x) == s # <<>> /\ Head(s) = x

\* The row is read first, then written once, before anything is done in Redis.
Sorted(s) ==
    /\ \A i \in 2..Len(s) : s[i] \in Early => i = 2 /\ s[1] = "read" /\ s[2] # "read"
    /\ Heads(s, "read") => Len(s) >= 2 /\ s[2] \in Early

\* A change that takes a privilege, or bans, or sets a password has the
\* sessions' revocation before it until it is made, and so on.
Planned(r) ==
    /\ Sorted(r.todo)
    /\ Has(r.todo, "cacheBan") => r.set.status = "banned"
    /\ Has(r.todo, "writePassword") => Has(r.todo, "del")
    /\ r.op \in {"password", "reset", "role"} => r.set.status = None /\ r.set.admin = None
    /\ r.op = "disable" => /\ r.set.status = "banned" /\ r.set.admin = None
                           /\ Has(r.todo, "write") => Has(r.todo, "del")
    /\ r.op = "enable" => /\ r.set.status = "active" /\ r.set.admin = None
                          /\ Has(r.todo, "write") => Has(r.todo, "dropBan")

\* Request r when the row is acc and n pairs are issued.
Fit(r, acc, n) ==
    /\ r.todo \in Seq(OpSteps(r.op))
    /\ r.op \in Logins => r.pf \in Platforms
    /\ r.op = "register" => r.pw \in Passwords
    /\ r.op \in {"refresh", "request"} => r.tok \in 1..n
    /\ r.op \in {"password", "reset"} => r.row \in [pw : Passwords]
    /\ Heads(r.todo, "save") => r.row \in Row /\ acc # None
    /\ r.op = "request" => /\ acc # None
                           /\ acc.status = "banned" \/ r.open
                           /\ Heads(r.todo, "serve") => r.open
    /\ r.op \in Changes => /\ Planned(r)
                           /\ r.todo # <<>> /\ Head(r.todo) # "read" => acc # None

Fits == \A p \in Procs : Fit(req[p], account, Len(issued))

\* Nothing is kept of an account that is not registered.
Unregistered == account = None => refresh = {} /\ issued = <<>> /\ ~banCached

-----------------------------------------------------------------------------
Unraced == refresh \ raced

\* The row is changed and the sessions are still to be revoked; the ban flag dropped.
Revoking(r) == r.op \in Changes /\ Has(r.todo, "del") /\ Head(r.todo) \notin Early
Lifting(r)  == r.op \in Changes /\ Has(r.todo, "dropBan") /\ Head(r.todo) \notin Early

Matches(row, acc) ==
    acc # None /\ row.admin = acc.admin /\ row.pw = acc.pw /\ acc.status = "active"

\* A write that would take something from the sessions is followed by their revocation.
Covered(r, acc) ==
    r.op \in Changes /\ Heads(r.todo, "write") =>
       \/ Has(r.todo, "del")
       \/ /\ r.set.admin \in {None, acc.admin}
          /\ r.set.status = "banned" => acc.status = "banned"

\* Unless a revocation is still to come, the sessions that raced no change
\* are those the row allows, and no pending write passes them by.
Current ==
    ~failed /\ Unraced # {} /\ (\A p \in Procs : ~Revoking(req[p])) =>
        /\ \A t \in Unraced : Matches(issued[t].row, account)
        /\ \A p \in Procs : Covered(req[p], account)

\* A handler about to save a session, and that no change has met, holds the
\* row as it is.
Settled ==
    \A p \in Procs : Heads(req[p].todo, "save") /\ p \notin overlapped =>
        Matches(req[p].row, account)

PerPlatform == raced = {} => \A t \in refresh : platformKey[issued[t].pf] = t

\* A write that lifts a ban is followed by the flag's removal, and the flag is
\* only set for a banned account.
Lifted(r, acc) ==
    /\ Heads(r.todo, "write") /\ r.set.status = "active" /\ acc.status = "banned" =>
          Has(r.todo, "dropBan")
    /\ r.todo # <<>> /\ Head(r.todo) \notin Early /\ Has(r.todo, "cacheBan") =>
          acc.status = "banned"

\* While no two changes overlap and none fails, the flag is that of the row or
\* about to be dropped.
FlagInv ==
    ~clash /\ ~failed =>
        /\ \A p, q \in Procs : Changing(p) /\ Changing(q) => p = q
        /\ \A p \in Procs : Changing(p) => Lifted(req[p], account)
        /\ banCached => account.status = "banned" \/ \E p \in Procs : Lifting(req[p])

-----------------------------------------------------------------------------
(* Sequences of calls *)

LEMMA HasTail ==
    ASSUME NEW S, NEW s \in Seq(S), s # <<>>
    PROVE  /\ Tail(s) \in Seq(S) /\ Head(s) \in S /\ Has(s, Head(s))
           /\ \A x : Has(s, x) <=> x = Head(s) \/ Has(Tail(s), x)
<1>1. /\ Tail(s) \in Seq(S) /\ Len(s) \in Nat /\ Len(s) > 0 /\ Len(Tail(s)) = Len(s) - 1
      /\ \A i \in 1..Len(Tail(s)) : Tail(s)[i] = s[i + 1]
      /\ Head(s) = s[1] /\ s[1] \in S
  BY SMT
<1>2. ASSUME NEW x, Has(s, x), x # Head(s) PROVE Has(Tail(s), x)
  <2>1. PICK i \in 1..Len(s) : s[i] = x
    BY <1>2 DEF Has
  <2>2. i - 1 \in 1..Len(Tail(s)) /\ Tail(s)[i - 1] = x
    BY <1>1, <1>2, <2>1
  <2>3. QED
    BY <2>2 DEF Has
<1>3. ASSUME NEW x, Has(Tail(s), x) PROVE Has(s, x)
  <2>1. PICK i \in 1..Len(Tail(s)) : Tail(s)[i] = x
    BY <1>3 DEF Has
  <2>2. i + 1 \in 1..Len(s) /\ s[i + 1] = x
    BY <1>1, <2>1
  <2>3. QED
    BY <2>2 DEF Has
<1>4. Has(s, Head(s))
  <2>1. 1 \in 1..Len(s)
    BY <1>1
  <2>2. QED
    BY <1>1, <2>1 DEF Has
<1>5. QED
  BY <1>1, <1>2, <1>3, <1>4

LEMMA HasJoin ==
    ASSUME NEW S, NEW s \in Seq(S), NEW t \in Seq(S)
    PROVE  s \o t \in Seq(S) /\ \A x : Has(s \o t, x) <=> Has(s, x) \/ Has(t, x)
<1>1. /\ s \o t \in Seq(S) /\ Len(s) \in Nat /\ Len(t) \in Nat
      /\ Len(s \o t) = Len(s) + Len(t)
      /\ \A i \in 1..Len(s \o t) : (s \o t)[i] = IF i <= Len(s) THEN s[i] ELSE t[i - Len(s)]
  BY SMT
<1>2. ASSUME NEW x, Has(s \o t, x) PROVE Has(s, x) \/ Has(t, x)
  <2>1. PICK i \in 1..Len(s \o t) : (s \o t)[i] = x
    BY <1>2 DEF Has
  <2>2. CASE i <= Len(s)
    <3>1. i \in 1..Len(s) /\ s[i] = x
      BY <1>1, <2>1, <2>2
    <3>2. QED
      BY <3>1 DEF Has
  <2>3. CASE i > Len(s)
    <3>1. i - Len(s) \in 1..Len(t) /\ t[i - Len(s)] = x
      BY <1>1, <2>1, <2>3
    <3>2. QED
      BY <3>1 DEF Has
  <2>4. QED
    BY <1>1, <2>1, <2>2, <2>3
<1>3. ASSUME NEW x, Has(s, x) PROVE Has(s \o t, x)
  <2>1. PICK i \in 1..Len(s) : s[i] = x
    BY <1>3 DEF Has
  <2>2. i \in 1..Len(s \o t) /\ (s \o t)[i] = x
    BY <1>1, <2>1
  <2>3. QED
    BY <2>2 DEF Has
<1>4. ASSUME NEW x, Has(t, x) PROVE Has(s \o t, x)
  <2>1. PICK i \in 1..Len(t) : t[i] = x
    BY <1>4 DEF Has
  <2>2. i + Len(s) \in 1..Len(s \o t) /\ (s \o t)[i + Len(s)] = x
    BY <1>1, <2>1
  <2>3. QED
    BY <2>2 DEF Has
<1>5. QED
  BY <1>1, <1>2, <1>3, <1>4

LEMMA HasOne ==
    ASSUME NEW S, NEW s \in Seq(S), NEW x, Has(s, x)
    PROVE  x \in S
BY DEF Has

LEMMA Some ==
    ASSUME NEW S, NEW s \in Seq(S)
    PROVE  s # <<>> <=> Len(s) >= 1
OBVIOUS

LEMMA One ==
    ASSUME NEW S, NEW a \in S
    PROVE  /\ <<a>> \in Seq(S) /\ <<a>> # <<>> /\ Head(<<a>>) = a /\ Tail(<<a>>) = <<>>
           /\ Len(<<a>>) = 1 /\ <<a>>[1] = a
           /\ \A x : Has(<<a>>, x) <=> x = a
<1>1. /\ <<a>> \in Seq(S) /\ <<a>> # <<>> /\ Head(<<a>>) = a /\ Tail(<<a>>) = <<>>
      /\ Len(<<a>>) = 1 /\ <<a>>[1] = a
  OBVIOUS
<1> DEFINE s == <<a>>
<1> HIDE DEF s
<1>2. \A x : Has(s, x) <=> x = a
  <2>1. Len(s) = 1 /\ s[1] = a /\ \A i : i \in 1..1 <=> i = 1
    BY <1>1 DEF s
  <2>2. QED
    BY <2>1 DEF Has
<1>3. QED
  BY <1>1, <1>2 DEF s

LEMMA Two ==
    ASSUME NEW S, NEW a \in S, NEW b \in S
    PROVE  /\ <<a, b>> \in Seq(S) /\ <<a, b>> # <<>> /\ Head(<<a, b>>) = a
           /\ Len(<<a, b>>) = 2 /\ <<a, b>>[1] = a /\ <<a, b>>[2] = b
           /\ \A x : Has(<<a, b>>, x) <=> x \in {a, b}
<1>1. /\ <<a, b>> \in Seq(S) /\ <<a, b>> # <<>> /\ Head(<<a, b>>) = a
      /\ Len(<<a, b>>) = 2 /\ <<a, b>>[1] = a /\ <<a, b>>[2] = b
  OBVIOUS
<1> DEFINE s == <<a, b>>
<1> HIDE DEF s
<1>2. \A x : Has(s, x) <=> x \in {a, b}
  <2>1. Len(s) = 2 /\ s[1] = a /\ s[2] = b /\ \A i : i \in 1..2 <=> i = 1 \/ i = 2
    BY <1>1 DEF s
  <2>2. QED
    BY <2>1 DEF Has
<1>3. QED
  BY <1>1, <1>2 DEF s

LEMMA Three ==
    ASSUME NEW S, NEW a \in S, NEW b \in S, NEW c \in S
    PROVE  /\ <<a, b, c>> \in Seq(S) /\ <<a, b, c>> # <<>> /\ Head(<<a, b, c>>) = a
           /\ Len(<<a, b, c>>) = 3 /\ <<a, b, c>>[1] = a /\ <<a, b, c>>[2] = b
           /\ <<a, b, c>>[3] = c
           /\ \A x : Has(<<a, b, c>>, x) <=> x \in {a, b, c}
<1>1. /\ <<a, b, c>> \in Seq(S) /\ <<a, b, c>> # <<>> /\ Head(<<a, b, c>>) = a
      /\ Len(<<a, b, c>>) = 3 /\ <<a, b, c>>[1] = a /\ <<a, b, c>>[2] = b
      /\ <<a, b, c>>[3] = c
  OBVIOUS
<1> DEFINE s == <<a, b, c>>
<1> HIDE DEF s
<1>2. \A x : Has(s, x) <=> x \in {a, b, c}
  <2>1. /\ Len(s) = 3 /\ s[1] = a /\ s[2] = b /\ s[3] = c
        /\ \A i : i \in 1..3 <=> i = 1 \/ i = 2 \/ i = 3
    BY <1>1 DEF s
  <2>2. QED
    BY <2>1 DEF Has
<1>3. QED
  BY <1>1, <1>2 DEF s

\* After the first call nothing is read, after the second nothing written.
LEMMA SortedTail ==
    ASSUME NEW S, NEW s \in Seq(S), s # <<>>, Sorted(s)
    PROVE  /\ Sorted(Tail(s))
           /\ \A e \in Early : Has(Tail(s), e) => Head(s) = "read" /\ Heads(Tail(s), e) /\ e # "read"
           /\ Head(s) = "read" => Tail(s) # <<>> /\ Head(Tail(s)) \in Early \ {"read"}
<1>1. /\ Tail(s) \in Seq(S) /\ Len(s) \in Nat /\ Len(Tail(s)) = Len(s) - 1
      /\ \A i \in 1..Len(Tail(s)) : Tail(s)[i] = s[i + 1]
      /\ Head(s) = s[1]
  BY SMT
<1>0. /\ Tail(s) # <<>> <=> Len(Tail(s)) >= 1
      /\ Tail(s) # <<>> => Head(Tail(s)) = Tail(s)[1]
  <2> DEFINE u == Tail(s)
  <2>1. u \in Seq(S)
    BY <1>1
  <2> HIDE DEF u
  <2>2. (u # <<>> <=> Len(u) >= 1) /\ Head(u) = u[1]
    BY <2>1, Some
  <2>3. QED
    BY <2>2 DEF u
<1>2. \A i \in 2..Len(s) : s[i] \in Early => i = 2 /\ s[1] = "read" /\ s[2] # "read"
  BY DEF Sorted
<1>3. ASSUME NEW e \in Early, Has(Tail(s), e)
      PROVE  Head(s) = "read" /\ Heads(Tail(s), e) /\ e # "read"
  <2>1. PICK i \in 1..Len(Tail(s)) : Tail(s)[i] = e
    BY <1>3 DEF Has
  <2>2. i + 1 \in 2..Len(s) /\ s[i + 1] = e
    BY <1>1, <2>1
  <2>3. i + 1 = 2 /\ s[1] = "read" /\ s[2] # "read"
    BY <1>2, <2>2
  <2>4. i = 1 /\ Tail(s) # <<>> /\ Head(Tail(s)) = Tail(s)[1]
    BY <1>0, <1>1, <2>1, <2>3
  <2>5. QED
    BY <1>1, <2>1, <2>2, <2>3, <2>4 DEF Heads
<1>4. ASSUME Head(s) = "read"
      PROVE  Tail(s) # <<>> /\ Head(Tail(s)) \in Early \ {"read"}
  <2>1. Len(s) >= 2 /\ s[2] \in Early
    BY <1>4 DEF Sorted, Heads
  <2>2. Tail(s)[1] = s[2] /\ Len(Tail(s)) >= 1 /\ 2 \in 2..Len(s)
    BY <1>1, <2>1
  <2>3. QED
    BY <1>0, <1>2, <2>1, <2>2
<1>5. Sorted(Tail(s))
  <2>1. ASSUME NEW i \in 2..Len(Tail(s)), Tail(s)[i] \in Early PROVE FALSE
    <3>1. i + 1 \in 2..Len(s) /\ s[i + 1] \in Early /\ i + 1 # 2
      BY <1>1, <2>1
    <3>2. QED
      BY <1>2, <3>1
  <2>2. ~Heads(Tail(s), "read")
    <3>1. SUFFICES ASSUME Heads(Tail(s), "read") PROVE FALSE
      OBVIOUS
    <3>2. Has(Tail(s), "read")
      BY <1>1, <3>1, HasTail DEF Heads
    <3>3. QED
      BY <1>3, <3>2 DEF Early
  <2>3. QED
    BY <2>1, <2>2 DEF Sorted
<1>6. QED
  BY <1>3, <1>4, <1>5

LEMMA SortedJoin ==
    ASSUME NEW S, NEW s \in Seq(S), NEW t \in Seq(Late), Sorted(s), s # <<>>
    PROVE  Sorted(s \o t) /\ s \o t # <<>> /\ Head(s \o t) = Head(s)
<1>1. /\ Len(s) \in Nat /\ Len(t) \in Nat /\ Len(s) >= 1
      /\ Len(s \o t) = Len(s) + Len(t)
      /\ \A i \in 1..Len(s \o t) : (s \o t)[i] = IF i <= Len(s) THEN s[i] ELSE t[i - Len(s)]
      /\ \A i \in 1..Len(t) : t[i] \in Late
  BY SMT
<1>0. s \o t # <<>> /\ Head(s \o t) = Head(s) /\ Head(s) = s[1]
  BY SMT
<1>2. ASSUME NEW i \in 2..Len(s \o t), (s \o t)[i] \in Early
      PROVE  i = 2 /\ (s \o t)[1] = "read" /\ (s \o t)[2] # "read"
  <2>3. i <= Len(s)
    <3>1. i > Len(s) => i - Len(s) \in 1..Len(t) /\ (s \o t)[i] = t[i - Len(s)]
      BY <1>1
    <3>2. QED
      BY <1>1, <1>2, <3>1 DEF Early, Late
  <2>4. i \in 2..Len(s) /\ s[i] \in Early
    BY <1>1, <1>2, <2>3
  <2>5. i = 2 /\ s[1] = "read" /\ s[2] # "read"
    BY <2>4 DEF Sorted
  <2>6. QED
    BY <1>1, <2>4, <2>5
<1>3. ASSUME Heads(s \o t, "read") PROVE Len(s \o t) >= 2 /\ (s \o t)[2] \in Early
  <2>1. Len(s) >= 2 /\ s[2] \in Early
    BY <1>0, <1>3 DEF Sorted, Heads
  <2>2. QED
    BY <1>1, <2>1
<1>4. QED
  BY <1>0, <1>2, <1>3 DEF Sorted

LEMMA Revocation ==
    /\ RevokeUserSessions \in Seq(Late)
    /\ \A x : Has(RevokeUserSessions, x) <=> x \in {"hashes", "devices", "del"}
<1>1. "hashes" \in Late /\ "devices" \in Late /\ "del" \in Late
  BY DEF Late
<1>2. QED
  BY ONLY <1>1, Three DEF RevokeUserSessions

\* What each kind of request has before it when it starts.
LEMMA CallsPlan ==
    ASSUME NEW op \in Ops
    PROVE  /\ Calls(op) \in Seq(OpSteps(op)) /\ Calls(op) # <<>>
           /\ Head(Calls(op)) \notin {"save", "serve"}
           /\ op \in Changes =>
                 /\ Sorted(Calls(op)) /\ Head(Calls(op)) = IF op = "role" THEN "write" ELSE "read"
                 /\ Has(Calls(op), "cacheBan") => op = "disable"
                 /\ op \in {"password", "reset", "disable"} => Has(Calls(op), "del")
                 /\ Has(Calls(op), "writePassword") => op \in {"password", "reset"}
                 /\ op = "enable" => Has(Calls(op), "dropBan")
<1> DEFINE R == RevokeUserSessions
<1>0. R \in Seq(Late) /\ \A x : Has(R, x) <=> x \in {"hashes", "devices", "del"}
  BY Revocation
<1> HIDE DEF R
<1>a. ASSUME NEW S, NEW s \in Seq(S), s # <<>>, Sorted(s), Head(s) = "read", Late \subseteq S
      PROVE  /\ s \o R \in Seq(S) /\ s \o R # <<>> /\ Sorted(s \o R)
             /\ Head(s \o R) = "read"
             /\ \A x : Has(s \o R, x) <=> Has(s, x) \/ x \in {"hashes", "devices", "del"}
  <2>1. R \in Seq(S)
    BY <1>0, <1>a
  <2>2. s \o R \in Seq(S) /\ \A x : Has(s \o R, x) <=> Has(s, x) \/ Has(R, x)
    BY <2>1, <1>a, HasJoin
  <2>3. Sorted(s \o R) /\ s \o R # <<>> /\ Head(s \o R) = Head(s)
    BY <1>0, <1>a, SortedJoin
  <2>5. QED
    BY <1>0, <1>a, <2>2, <2>3
<1>b. ASSUME NEW S, NEW s \in Seq(S),
             Len(s) \in {2, 3}, s[1] = "read", s[2] \in {"write", "writePassword"},
             Len(s) = 3 => s[3] \in Late
      PROVE  Sorted(s)
  <2>0. (Len(s) = 3 => s[3] \notin Early) /\ Len(s) \in {2, 3}
    BY <1>b DEF Early, Late
  <2>a. Len(s) = 2 \/ Len(s) = 3
    BY <2>0
  <2>1. ASSUME NEW i \in 2..Len(s)
        PROVE  i = 2 \/ (i = 3 /\ Len(s) = 3)
    <3>1. CASE Len(s) = 2
      <4>1. i \in 2..2
        BY <3>1
      <4>2. QED
        BY ONLY <4>1
    <3>2. CASE Len(s) = 3
      <4>1. i \in 2..3
        BY <3>2
      <4>2. QED
        BY ONLY <4>1, <3>2
    <3>3. QED
      BY <2>a, <3>1, <3>2
  <2>2. s[2] \in Early /\ s[2] # "read"
    BY <1>b DEF Early
  <2>3. QED
    <3>1. ASSUME NEW i \in 2..Len(s), s[i] \in Early
          PROVE  i = 2 /\ s[1] = "read" /\ s[2] # "read"
      BY <1>b, <2>0, <2>1, <2>2, <3>1
    <3>2. Len(s) >= 2 /\ s[2] \in Early
      BY <2>0, <2>2
    <3>3. QED
      BY ONLY <3>1, <3>2 DEF Sorted
<1>1. CASE op \notin Changes
  <2>1. CASE op = "register"
    <3>1. Calls(op) = <<"create", "save">> /\ OpSteps(op) = {"create", "save"}
      BY <2>1 DEF Calls, OpSteps
    <3>2. QED
      BY <1>1, <3>1, Two
  <2>2. CASE op \in {"login", "code"}
    <3>1. Calls(op) = <<"read", "save">> /\ OpSteps(op) = {"read", "save"}
      BY <2>2 DEF Calls, OpSteps
    <3>2. QED
      BY <1>1, <3>1, Two
  <2>3. CASE op = "refresh"
    <3>1. Calls(op) = <<"rotate">> /\ OpSteps(op) = {"rotate", "replay"}
      BY <2>3 DEF Calls, OpSteps
    <3>2. QED
      BY <1>1, <3>1, One
  <2>4. CASE op = "request"
    <3>1. Calls(op) = <<"cache">> /\ OpSteps(op) = {"cache", "lookup", "serve"}
      BY <2>4 DEF Calls, OpSteps
    <3>2. QED
      BY <1>1, <3>1, One
  <2>5. QED
    BY <1>1, <2>1, <2>2, <2>3, <2>4 DEF Ops
<1>2. CASE op \in {"password", "reset"}
  <2> DEFINE s == <<"read", "writePassword">>
             S == {"read", "writePassword"} \cup Late
  <2>1. Calls(op) = s \o R /\ OpSteps(op) = S /\ op \in Changes
    BY <1>2 DEF Calls, OpSteps, R, Changes
  <2>2. /\ s \in Seq(S) /\ s # <<>> /\ Head(s) = "read" /\ Late \subseteq S
        /\ s[1] = "read" /\ s[2] = "writePassword" /\ Len(s) = 2 /\ "read" \in S
        /\ \A x : Has(s, x) <=> x \in {"read", "writePassword"}
    <3>1. "read" \in S /\ "writePassword" \in S /\ Late \subseteq S
      OBVIOUS
    <3> HIDE DEF S
    <3>2. QED
      BY <3>1, Two
  <2> HIDE DEF s, S
  <2>3. Sorted(s)
    BY <1>b, <2>2
  <2>4. QED
    BY <1>2, <1>a, <2>1, <2>2, <2>3
<1>3. CASE op = "disable"
  <2> DEFINE s == <<"read", "write", "cacheBan">>
             S == {"read", "write"} \cup Late
  <2>1. Calls(op) = s \o R /\ OpSteps(op) = S /\ op \in Changes
    BY <1>3 DEF Calls, OpSteps, R, Changes
  <2>2. /\ s \in Seq(S) /\ s # <<>> /\ Head(s) = "read" /\ Late \subseteq S
        /\ s[1] = "read" /\ s[2] = "write" /\ s[3] \in Late /\ Len(s) = 3 /\ "read" \in S
        /\ \A x : Has(s, x) <=> x \in {"read", "write", "cacheBan"}
    <3>1. "read" \in S /\ "write" \in S /\ "cacheBan" \in S /\ Late \subseteq S
      BY DEF Late
    <3>2. "cacheBan" \in Late
      BY DEF Late
    <3> HIDE DEF S
    <3>3. QED
      BY <3>1, <3>2, Three
  <2> HIDE DEF s, S
  <2>3. Sorted(s)
    BY <1>b, <2>2
  <2>4. /\ s \o R \in Seq(S) /\ s \o R # <<>> /\ Sorted(s \o R)
        /\ Head(s \o R) = "read"
        /\ \A x : Has(s \o R, x) <=> Has(s, x) \/ x \in {"hashes", "devices", "del"}
    BY <1>a, <2>2, <2>3
  <2>5. /\ Calls(op) \in Seq(OpSteps(op)) /\ Calls(op) # <<>> /\ Sorted(Calls(op))
        /\ Head(Calls(op)) = "read" /\ Has(Calls(op), "del") /\ ~Has(Calls(op), "writePassword")
    <3>1. Has(s \o R, "del") /\ ~Has(s \o R, "writePassword")
      BY ONLY <2>2, <2>4
    <3>2. QED
      BY ONLY <2>1, <2>4, <3>1
  <2>6. QED
    BY <1>3, <2>5 DEF Changes
<1>4. CASE op = "enable"
  <2> DEFINE s == <<"read", "write", "dropBan">>
             S == {"read", "write"} \cup Late
  <2>1. Calls(op) = s /\ OpSteps(op) = S /\ op \in Changes
    BY <1>4 DEF Calls, OpSteps, Changes
  <2>2. /\ s \in Seq(S) /\ s # <<>> /\ Head(s) = "read" /\ Late \subseteq S
        /\ s[1] = "read" /\ s[2] = "write" /\ s[3] \in Late /\ Len(s) = 3 /\ "read" \in S
        /\ \A x : Has(s, x) <=> x \in {"read", "write", "dropBan"}
    <3>1. "read" \in S /\ "write" \in S /\ "dropBan" \in S /\ Late \subseteq S
      BY DEF Late
    <3>2. "dropBan" \in Late
      BY DEF Late
    <3> HIDE DEF S
    <3>3. QED
      BY <3>1, <3>2, Three
  <2> HIDE DEF s, S
  <2>3. Sorted(s)
    BY <1>b, <2>2
  <2>4. QED
    BY <1>4, <2>1, <2>2, <2>3
<1>5. CASE op = "update"
  <2> DEFINE s == <<"read", "write">>
             S == {"read", "write"} \cup Late
  <2>1. Calls(op) = s /\ OpSteps(op) = S /\ op \in Changes
    BY <1>5 DEF Calls, OpSteps, Changes
  <2>2. /\ s \in Seq(S) /\ s # <<>> /\ Head(s) = "read" /\ Late \subseteq S
        /\ s[1] = "read" /\ s[2] = "write" /\ Len(s) = 2 /\ "read" \in S
        /\ \A x : Has(s, x) <=> x \in {"read", "write"}
    <3>1. "read" \in S /\ "write" \in S /\ Late \subseteq S
      OBVIOUS
    <3> HIDE DEF S
    <3>2. QED
      BY <3>1, Two
  <2> HIDE DEF s, S
  <2>3. Sorted(s)
    BY <1>b, <2>2
  <2>4. QED
    BY <1>5, <2>1, <2>2, <2>3
<1>6. CASE op = "role"
  <2> DEFINE s == <<"write">>
             S == {"write"}
  <2>1. Calls(op) = s /\ OpSteps(op) = S /\ op \in Changes
    BY <1>6 DEF Calls, OpSteps, Changes
  <2>2. /\ s \in Seq(S) /\ s # <<>> /\ Head(s) = "write" /\ Len(s) = 1
        /\ \A x : Has(s, x) <=> x = "write"
    BY One
  <2> HIDE DEF s, S
  <2>3. Sorted(s)
    BY <2>2 DEF Sorted, Heads
  <2>4. QED
    BY <1>6, <2>1, <2>2, <2>3
<1>7. QED
  BY <1>1, <1>2, <1>3, <1>4, <1>5, <1>6 DEF Changes

\* The calls an update adds once it has read the row.
LEMMA AfterUpdatePlan ==
    ASSUME NEW set, NEW cur
    PROVE  LET a == AfterUpdate(set, cur)
           IN  /\ a \in Seq(Late)
               /\ Has(a, "cacheBan") => set.status = "banned"
               /\ set.status = "banned" /\ cur.status # "banned" => Has(a, "del")
               /\ set.admin # None /\ set.admin # cur.admin => Has(a, "del")
               /\ set.status = "active" /\ cur.status = "banned" => Has(a, "dropBan")
<1> DEFINE R == RevokeUserSessions
           B == <<"cacheBan">> \o R
           b == IF set.status = "banned" /\ cur.status # "banned" THEN B
                ELSE IF set.status = "active" /\ cur.status = "banned"
                   THEN <<"dropBan">> ELSE <<>>
           c == IF set.admin # None /\ set.admin # cur.admin THEN R ELSE <<>>
<1>1. R \in Seq(Late) /\ Has(R, "del") /\ ~Has(R, "cacheBan")
  BY Revocation
<1>2. /\ <<"cacheBan">> \in Seq(Late)
      /\ <<"dropBan">> \in Seq(Late) /\ Has(<<"dropBan">>, "dropBan") /\ ~Has(<<"dropBan">>, "cacheBan")
      /\ <<>> \in Seq(Late) /\ \A x : ~Has(<<>>, x)
  <2>1. "cacheBan" \in Late /\ "dropBan" \in Late
    BY DEF Late
  <2>2. <<>> \in Seq(Late) /\ \A x : ~Has(<<>>, x)
    BY DEF Has
  <2>3. QED
    BY <2>1, <2>2, One
<1>3. B \in Seq(Late) /\ Has(B, "del")
  BY <1>1, <1>2, HasJoin
<1> HIDE DEF R, B
<1>4. /\ b \in Seq(Late) /\ (Has(b, "cacheBan") => set.status = "banned")
      /\ set.status = "banned" /\ cur.status # "banned" => Has(b, "del")
      /\ set.status = "active" /\ cur.status = "banned" => Has(b, "dropBan")
  BY <1>2, <1>3
<1>5. /\ c \in Seq(Late) /\ ~Has(c, "cacheBan")
      /\ set.admin # None /\ set.admin # cur.admin => Has(c, "del")
  BY <1>1, <1>2
<1>6. AfterUpdate(set, cur) = b \o c
  BY DEF AfterUpdate, R, B
<1> HIDE DEF b, c
<1>7. b \o c \in Seq(Late) /\ \A x : Has(b \o c, x) <=> Has(b, x) \/ Has(c, x)
  BY <1>4, <1>5, HasJoin
<1>8. QED
  BY <1>4, <1>5, <1>6, <1>7

-----------------------------------------------------------------------------
(* The fields of a request *)

SameBut(a, b, f) ==
    /\ f # "op" => a.op = b.op
    /\ f # "todo" => a.todo = b.todo
    /\ f # "pf" => a.pf = b.pf
    /\ f # "tok" => a.tok = b.tok
    /\ f # "pw" => a.pw = b.pw
    /\ f # "set" => a.set = b.set
    /\ f # "row" => a.row = b.row
    /\ f # "hashes" => a.hashes = b.hashes
    /\ f # "devs" => a.devs = b.devs
    /\ f # "open" => a.open = b.open

LEMMA RequestOp ==
    ASSUME NEW r \in Request, NEW v
    PROVE  /\ SameBut([r EXCEPT !.op = v], r, "op") /\ [r EXCEPT !.op = v].op = v
           /\ v \in Ops => [r EXCEPT !.op = v] \in Request
BY DEF Request, SameBut, Ops

LEMMA RequestTodo ==
    ASSUME NEW r \in Request, NEW v
    PROVE  /\ SameBut([r EXCEPT !.todo = v], r, "todo") /\ [r EXCEPT !.todo = v].todo = v
           /\ v \in Seq(Steps) => [r EXCEPT !.todo = v] \in Request
BY DEF Request, SameBut

LEMMA RequestPlatform ==
    ASSUME NEW r \in Request, NEW v
    PROVE  /\ SameBut([r EXCEPT !.pf = v], r, "pf") /\ [r EXCEPT !.pf = v].pf = v
           /\ v \in Platforms => [r EXCEPT !.pf = v] \in Request
BY DEF Request, SameBut

LEMMA RequestToken ==
    ASSUME NEW r \in Request, NEW v
    PROVE  /\ SameBut([r EXCEPT !.tok = v], r, "tok") /\ [r EXCEPT !.tok = v].tok = v
           /\ v \in Nat => [r EXCEPT !.tok = v] \in Request
BY DEF Request, SameBut

LEMMA RequestPw ==
    ASSUME NEW r \in Request, NEW v
    PROVE  /\ SameBut([r EXCEPT !.pw = v], r, "pw") /\ [r EXCEPT !.pw = v].pw = v
           /\ v \in Passwords => [r EXCEPT !.pw = v] \in Request
BY DEF Request, SameBut

LEMMA RequestFields ==
    ASSUME NEW r \in Request, NEW v
    PROVE  /\ SameBut([r EXCEPT !.set = v], r, "set") /\ [r EXCEPT !.set = v].set = v
           /\ v \in Fields => [r EXCEPT !.set = v] \in Request
BY DEF Request, SameBut

LEMMA RequestRow ==
    ASSUME NEW r \in Request, NEW v
    PROVE  /\ SameBut([r EXCEPT !.row = v], r, "row") /\ [r EXCEPT !.row = v].row = v
           /\ v \in Row \cup [pw : Passwords] => [r EXCEPT !.row = v] \in Request
BY DEF Request, SameBut

LEMMA RequestHashes ==
    ASSUME NEW r \in Request, NEW v
    PROVE  /\ SameBut([r EXCEPT !.hashes = v], r, "hashes") /\ [r EXCEPT !.hashes = v].hashes = v
           /\ v \in SUBSET Tokens => [r EXCEPT !.hashes = v] \in Request
BY DEF Request, SameBut

LEMMA RequestDevs ==
    ASSUME NEW r \in Request, NEW v
    PROVE  /\ SameBut([r EXCEPT !.devs = v], r, "devs") /\ [r EXCEPT !.devs = v].devs = v
           /\ v \in SUBSET Platforms => [r EXCEPT !.devs = v] \in Request
BY DEF Request, SameBut

LEMMA RequestOpen ==
    ASSUME NEW r \in Request, NEW v
    PROVE  /\ SameBut([r EXCEPT !.open = v], r, "open") /\ [r EXCEPT !.open = v].open = v
           /\ v \in BOOLEAN => [r EXCEPT !.open = v] \in Request
BY DEF Request, SameBut

LEMMA NoneApart == None \notin {"active", "banned"} /\ None \notin BOOLEAN /\ None \notin Row
BY SessionsAssumption

LEMMA NoRequestTyped ==
    /\ NoRequest \in Request /\ NoRequest.op = "idle" /\ NoRequest.todo = <<>>
    /\ NoRequest.set.status = None /\ NoRequest.set.admin = None
    /\ NoFields \in Fields /\ NoFields.status = None /\ NoFields.admin = None
<1>1. NoFields \in Fields /\ NoFields.status = None /\ NoFields.admin = None
  BY DEF NoFields, Fields
<1>2. <<>> \in Seq(Steps)
  OBVIOUS
<1>3. QED
  BY <1>1, <1>2 DEF NoRequest, Request

\* What a request brings with it when it arrives, acc being the row and k
\* pairs being issued.
Prepared(r, acc, k) ==
    /\ r \in Request /\ r.op \in Ops
    /\ r.op \in Logins => r.pf \in Platforms
    /\ r.op = "register" => r.pw \in Passwords
    /\ r.op \in {"refresh", "request"} => r.tok \in 1..k
    /\ r.op \in {"password", "reset"} => r.row \in [pw : Passwords]
    /\ r.op = "request" => acc # None /\ (acc.status = "banned" \/ r.open)
    /\ r.op = "role" => acc # None
    /\ r.op \in {"password", "reset", "role"} => r.set.status = None /\ r.set.admin = None
    /\ r.op = "disable" => r.set.status = "banned" /\ r.set.admin = None
    /\ r.op = "enable" => r.set.status = "active" /\ r.set.admin = None

LEMMA StepsAreKnown == \A op : OpSteps(op) \subseteq Steps
<1> SUFFICES ASSUME NEW op PROVE OpSteps(op) \subseteq Steps
  OBVIOUS
<1>1. CASE op = "register"
  BY <1>1 DEF Steps, OpSteps
<1>2. CASE op \in {"login", "code"}
  BY <1>2 DEF Steps, OpSteps
<1>3. CASE op = "refresh"
  BY <1>3 DEF Steps, OpSteps
<1>4. CASE op = "request"
  BY <1>4 DEF Steps, OpSteps
<1>5. CASE op \in {"password", "reset"}
  BY <1>5 DEF Steps, OpSteps, Late
<1>6. CASE op = "role"
  BY <1>6 DEF Steps, OpSteps
<1>7. CASE op \in {"update", "disable", "enable"}
  BY <1>7 DEF Steps, OpSteps, Late
<1>8. CASE op \notin Ops
  BY <1>8 DEF Steps, OpSteps, Ops, Changes
<1>9. QED
  BY <1>1, <1>2, <1>3, <1>4, <1>5, <1>6, <1>7, <1>8 DEF Ops, Changes

LEMMA BeginFit ==
    ASSUME NEW r, NEW acc, NEW k, Prepared(r, acc, k),
           NEW n, SameBut(n, r, "todo"), n.todo = Calls(r.op)
    PROVE  /\ Fit(n, acc, k) /\ Covered(n, acc)
           /\ n.op \in Changes => Lifted(n, acc)
           /\ n.todo \in Seq(Steps) /\ ~Heads(n.todo, "save")
<1> DEFINE c == Calls(r.op)
<1>1. /\ c \in Seq(OpSteps(r.op)) /\ c # <<>>
      /\ Head(c) \notin {"save", "serve"}
      /\ r.op \in Changes =>
            /\ Sorted(c) /\ Head(c) = IF r.op = "role" THEN "write" ELSE "read"
            /\ Has(c, "cacheBan") => r.op = "disable"
            /\ r.op \in {"password", "reset", "disable"} => Has(c, "del")
            /\ Has(c, "writePassword") => r.op \in {"password", "reset"}
            /\ r.op = "enable" => Has(c, "dropBan")
  BY CallsPlan DEF Prepared
<1>2. n.todo = c /\ n.op = r.op
  BY DEF SameBut
<1> HIDE DEF c
<1>3. c \in Seq(Steps) /\ ~Heads(c, "save") /\ ~Heads(c, "serve")
  BY <1>1, StepsAreKnown DEF Heads
<1>4. n.op \in Changes => Planned(n)
  BY <1>1, <1>2 DEF Planned, SameBut, Prepared
<1>5. Fit(n, acc, k)
  BY <1>1, <1>2, <1>3, <1>4 DEF Fit, SameBut, Prepared, Logins, Changes
<1>6. Covered(n, acc)
  BY <1>1, <1>2, NoneApart DEF Covered, SameBut, Prepared, Heads
<1>7. n.op \in Changes => Lifted(n, acc)
  BY <1>1, <1>2, NoneApart DEF Lifted, SameBut, Prepared, Heads, Early
<1>8. QED
  BY <1>2, <1>3, <1>5, <1>6, <1>7

LEMMA ArrivalPrepared ==
    ASSUME NEW p \in Procs, Arrive(p), TypeOK, Unregistered
    PROVE  \E r : Begin(p, r) /\ Prepared(r, account, Len(issued))
<1> DEFINE Goal == \E r : Begin(p, r) /\ Prepared(r, account, Len(issued))
<1>a. /\ Len(issued) \in Nat /\ DOMAIN issued = 1..Len(issued)
      /\ \A t \in DOMAIN issued : t \in Nat
  BY DEF TypeOK
<1>b. /\ \A t \in DOMAIN issued : account # None
      /\ account # None => account.status \in {"active", "banned"}
  BY DEF TypeOK, Unregistered, Row
<1>c. /\ [NoFields EXCEPT !.status = "banned"] \in Fields
      /\ [NoFields EXCEPT !.status = "banned"].status = "banned"
      /\ [NoFields EXCEPT !.status = "banned"].admin = None
      /\ [NoFields EXCEPT !.status = "active"] \in Fields
      /\ [NoFields EXCEPT !.status = "active"].status = "active"
      /\ [NoFields EXCEPT !.status = "active"].admin = None
  BY DEF NoFields, Fields
<1>d. \A v \in Roles : /\ [NoFields EXCEPT !.role = v] \in Fields
                       /\ [NoFields EXCEPT !.role = v].status = None
                       /\ [NoFields EXCEPT !.role = v].admin = None
  BY DEF NoFields, Fields
<1>e. \A set \in Updates : set \in Fields
  BY SessionsAssumption
<1> DEFINE z == NoRequest
<1>z. z \in Request /\ z.set.status = None /\ z.set.admin = None
  BY NoRequestTyped
<1> HIDE DEF z
<1>1. CASE Register(p)
  <2>1. PICK f \in Platforms, w \in Passwords :
           Begin(p, [NoRequest EXCEPT !.op = "register", !.pf = f, !.pw = w])
    BY <1>1 DEF Register
  <2> DEFINE r1 == [z EXCEPT !.op = "register"]
             r2 == [r1 EXCEPT !.pf = f]
             r3 == [r2 EXCEPT !.pw = w]
  <2>2. Begin(p, r3)
    BY <2>1 DEF z
  <2>3. r1 \in Request /\ SameBut(r1, z, "op") /\ r1.op = "register"
    <3>1. "register" \in Ops
      BY DEF Ops, Changes
    <3>2. QED
      BY <1>z, <3>1, RequestOp
  <2> HIDE DEF r1
  <2>4. r2 \in Request /\ SameBut(r2, r1, "pf") /\ r2.pf = f
    BY <1>a, <2>3, RequestPlatform
  <2> HIDE DEF r2
  <2>5. r3 \in Request /\ SameBut(r3, r2, "pw") /\ r3.pw = w
    BY <1>a, <2>4, RequestPw
  <2> HIDE DEF r3
  <2>6. Prepared(r3, account, Len(issued))
    BY <1>a, <1>b, <1>c, <1>d, <1>z, <1>1, <2>3, <2>4, <2>5 DEF SameBut, Prepared, Ops, Logins, Changes
  <2>7. QED
    BY <2>2, <2>6
<1>2. CASE Login(p)
  <2>1. PICK f \in Platforms, w \in Passwords :
           Begin(p, [NoRequest EXCEPT !.op = "login", !.pf = f, !.pw = w])
    BY <1>2 DEF Login
  <2> DEFINE r1 == [z EXCEPT !.op = "login"]
             r2 == [r1 EXCEPT !.pf = f]
             r3 == [r2 EXCEPT !.pw = w]
  <2>2. Begin(p, r3)
    BY <2>1 DEF z
  <2>3. r1 \in Request /\ SameBut(r1, z, "op") /\ r1.op = "login"
    <3>1. "login" \in Ops
      BY DEF Ops, Changes
    <3>2. QED
      BY <1>z, <3>1, RequestOp
  <2> HIDE DEF r1
  <2>4. r2 \in Request /\ SameBut(r2, r1, "pf") /\ r2.pf = f
    BY <1>a, <2>3, RequestPlatform
  <2> HIDE DEF r2
  <2>5. r3 \in Request /\ SameBut(r3, r2, "pw") /\ r3.pw = w
    BY <1>a, <2>4, RequestPw
  <2> HIDE DEF r3
  <2>6. Prepared(r3, account, Len(issued))
    BY <1>a, <1>b, <1>c, <1>d, <1>z, <1>2, <2>3, <2>4, <2>5 DEF SameBut, Prepared, Ops, Logins, Changes
  <2>7. QED
    BY <2>2, <2>6
<1>3. CASE LoginByCode(p)
  <2>1. PICK f \in Platforms :
           Begin(p, [NoRequest EXCEPT !.op = "code", !.pf = f])
    BY <1>3 DEF LoginByCode
  <2> DEFINE r1 == [z EXCEPT !.op = "code"]
             r2 == [r1 EXCEPT !.pf = f]
  <2>2. Begin(p, r2)
    BY <2>1 DEF z
  <2>3. r1 \in Request /\ SameBut(r1, z, "op") /\ r1.op = "code"
    <3>1. "code" \in Ops
      BY DEF Ops, Changes
    <3>2. QED
      BY <1>z, <3>1, RequestOp
  <2> HIDE DEF r1
  <2>4. r2 \in Request /\ SameBut(r2, r1, "pf") /\ r2.pf = f
    BY <1>a, <2>3, RequestPlatform
  <2> HIDE DEF r2
  <2>5. Prepared(r2, account, Len(issued))
    BY <1>a, <1>b, <1>c, <1>d, <1>z, <1>3, <2>3, <2>4 DEF SameBut, Prepared, Ops, Logins, Changes
  <2>6. QED
    BY <2>2, <2>5
<1>4. CASE Refresh(p)
  <2>1. PICK t \in DOMAIN issued :
           Begin(p, [NoRequest EXCEPT !.op = "refresh", !.tok = t])
    BY <1>4 DEF Refresh
  <2> DEFINE r1 == [z EXCEPT !.op = "refresh"]
             r2 == [r1 EXCEPT !.tok = t]
  <2>2. Begin(p, r2)
    BY <2>1 DEF z
  <2>3. r1 \in Request /\ SameBut(r1, z, "op") /\ r1.op = "refresh"
    <3>1. "refresh" \in Ops
      BY DEF Ops, Changes
    <3>2. QED
      BY <1>z, <3>1, RequestOp
  <2> HIDE DEF r1
  <2>4. r2 \in Request /\ SameBut(r2, r1, "tok") /\ r2.tok = t
    BY <1>a, <2>3, RequestToken
  <2> HIDE DEF r2
  <2>5. Prepared(r2, account, Len(issued))
    BY <1>a, <1>b, <1>c, <1>d, <1>z, <1>4, <2>3, <2>4 DEF SameBut, Prepared, Ops, Logins, Changes
  <2>6. QED
    BY <2>2, <2>5
<1>5. CASE Authorized(p)
  <2>1. PICK t \in DOMAIN issued :
           Begin(p, [NoRequest EXCEPT !.op = "request", !.tok = t, !.open = (account.status = "active")])
    BY <1>5 DEF Authorized
  <2> DEFINE r1 == [z EXCEPT !.op = "request"]
             r2 == [r1 EXCEPT !.tok = t]
             r3 == [r2 EXCEPT !.open = (account.status = "active")]
  <2>2. Begin(p, r3)
    BY <2>1 DEF z
  <2>3. r1 \in Request /\ SameBut(r1, z, "op") /\ r1.op = "request"
    <3>1. "request" \in Ops
      BY DEF Ops, Changes
    <3>2. QED
      BY <1>z, <3>1, RequestOp
  <2> HIDE DEF r1
  <2>4. r2 \in Request /\ SameBut(r2, r1, "tok") /\ r2.tok = t
    BY <1>a, <2>3, RequestToken
  <2> HIDE DEF r2
  <2>5. r3 \in Request /\ SameBut(r3, r2, "open") /\ r3.open = (account.status = "active")
    <3>1. (account.status = "active") \in BOOLEAN
      OBVIOUS
    <3>2. QED
      BY <2>4, <3>1, RequestOpen
  <2> HIDE DEF r3
  <2>6. Prepared(r3, account, Len(issued))
    BY <1>a, <1>b, <1>c, <1>d, <1>z, <1>5, <2>3, <2>4, <2>5 DEF SameBut, Prepared, Ops, Logins, Changes
  <2>7. QED
    BY <2>2, <2>6
<1>6. CASE ChangePassword(p)
  <2>1. PICK w \in Passwords, n \in Passwords :
           Begin(p, [NoRequest EXCEPT !.op = "password", !.pw = w, !.row = [pw |-> n]])
    BY <1>6 DEF ChangePassword
  <2> DEFINE r1 == [z EXCEPT !.op = "password"]
             r2 == [r1 EXCEPT !.pw = w]
             r3 == [r2 EXCEPT !.row = [pw |-> n]]
  <2>2. Begin(p, r3)
    BY <2>1 DEF z
  <2>3. r1 \in Request /\ SameBut(r1, z, "op") /\ r1.op = "password"
    <3>1. "password" \in Ops
      BY DEF Ops, Changes
    <3>2. QED
      BY <1>z, <3>1, RequestOp
  <2> HIDE DEF r1
  <2>4. r2 \in Request /\ SameBut(r2, r1, "pw") /\ r2.pw = w
    BY <1>a, <2>3, RequestPw
  <2> HIDE DEF r2
  <2>5. r3 \in Request /\ SameBut(r3, r2, "row") /\ r3.row = [pw |-> n]
    <3>1. [pw |-> n] \in Row \cup [pw : Passwords]
      OBVIOUS
    <3>2. QED
      BY <2>4, <3>1, RequestRow
  <2> HIDE DEF r3
  <2>6. Prepared(r3, account, Len(issued))
    BY <1>a, <1>b, <1>c, <1>d, <1>z, <1>6, <2>3, <2>4, <2>5 DEF SameBut, Prepared, Ops, Logins, Changes
  <2>7. QED
    BY <2>2, <2>6
<1>7. CASE ResetPassword(p)
  <2>1. PICK n \in Passwords :
           Begin(p, [NoRequest EXCEPT !.op = "reset", !.row = [pw |-> n]])
    BY <1>7 DEF ResetPassword
  <2> DEFINE r1 == [z EXCEPT !.op = "reset"]
             r2 == [r1 EXCEPT !.row = [pw |-> n]]
  <2>2. Begin(p, r2)
    BY <2>1 DEF z
  <2>3. r1 \in Request /\ SameBut(r1, z, "op") /\ r1.op = "reset"
    <3>1. "reset" \in Ops
      BY DEF Ops, Changes
    <3>2. QED
      BY <1>z, <3>1, RequestOp
  <2> HIDE DEF r1
  <2>4. r2 \in Request /\ SameBut(r2, r1, "row") /\ r2.row = [pw |-> n]
    <3>1. [pw |-> n] \in Row \cup [pw : Passwords]
      OBVIOUS
    <3>2. QED
      BY <2>3, <3>1, RequestRow
  <2> HIDE DEF r2
  <2>5. Prepared(r2, account, Len(issued))
    BY <1>a, <1>b, <1>c, <1>d, <1>z, <1>7, <2>3, <2>4 DEF SameBut, Prepared, Ops, Logins, Changes
  <2>6. QED
    BY <2>2, <2>5
<1>8. CASE UpdateRole(p)
  <2>1. PICK v \in Roles :
           Begin(p, [NoRequest EXCEPT !.op = "role", !.set = [NoFields EXCEPT !.role = v]])
    BY <1>8 DEF UpdateRole
  <2> DEFINE r1 == [z EXCEPT !.op = "role"]
             r2 == [r1 EXCEPT !.set = [NoFields EXCEPT !.role = v]]
  <2>2. Begin(p, r2)
    BY <2>1 DEF z
  <2>3. r1 \in Request /\ SameBut(r1, z, "op") /\ r1.op = "role"
    <3>1. "role" \in Ops
      BY DEF Ops, Changes
    <3>2. QED
      BY <1>z, <3>1, RequestOp
  <2> HIDE DEF r1
  <2>4. r2 \in Request /\ SameBut(r2, r1, "set") /\ r2.set = [NoFields EXCEPT !.role = v]
    <3>1. [NoFields EXCEPT !.role = v] \in Fields
      BY <1>c, <1>d, <1>e
    <3>2. QED
      BY <2>3, <3>1, RequestFields
  <2> HIDE DEF r2
  <2>5. Prepared(r2, account, Len(issued))
    BY <1>a, <1>b, <1>c, <1>d, <1>z, <1>8, <2>3, <2>4 DEF SameBut, Prepared, Ops, Logins, Changes, UpdateRole
  <2>6. QED
    BY <2>2, <2>5
<1>9. CASE UpdateUser(p)
  <2>1. PICK set \in Updates :
           Begin(p, [NoRequest EXCEPT !.op = "update", !.set = set])
    BY <1>9 DEF UpdateUser
  <2> DEFINE r1 == [z EXCEPT !.op = "update"]
             r2 == [r1 EXCEPT !.set = set]
  <2>2. Begin(p, r2)
    BY <2>1 DEF z
  <2>3. r1 \in Request /\ SameBut(r1, z, "op") /\ r1.op = "update"
    <3>1. "update" \in Ops
      BY DEF Ops, Changes
    <3>2. QED
      BY <1>z, <3>1, RequestOp
  <2> HIDE DEF r1
  <2>4. r2 \in Request /\ SameBut(r2, r1, "set") /\ r2.set = set
    <3>1. set \in Fields
      BY <1>c, <1>d, <1>e
    <3>2. QED
      BY <2>3, <3>1, RequestFields
  <2> HIDE DEF r2
  <2>5. Prepared(r2, account, Len(issued))
    BY <1>a, <1>b, <1>c, <1>d, <1>z, <1>9, <2>3, <2>4 DEF SameBut, Prepared, Ops, Logins, Changes
  <2>6. QED
    BY <2>2, <2>5
<1>10. CASE DisableUser(p)
  <2> DEFINE r1 == [z EXCEPT !.op = "disable"]
             r2 == [r1 EXCEPT !.set = [NoFields EXCEPT !.status = "banned"]]
  <2>2. Begin(p, r2)
    BY <1>10 DEF z, DisableUser
  <2>3. r1 \in Request /\ SameBut(r1, z, "op") /\ r1.op = "disable"
    <3>1. "disable" \in Ops
      BY DEF Ops, Changes
    <3>2. QED
      BY <1>z, <3>1, RequestOp
  <2> HIDE DEF r1
  <2>4. r2 \in Request /\ SameBut(r2, r1, "set") /\ r2.set = [NoFields EXCEPT !.status = "banned"]
    <3>1. [NoFields EXCEPT !.status = "banned"] \in Fields
      BY <1>c, <1>d, <1>e
    <3>2. QED
      BY <2>3, <3>1, RequestFields
  <2> HIDE DEF r2
  <2>5. Prepared(r2, account, Len(issued))
    BY <1>a, <1>b, <1>c, <1>d, <1>z, <1>10, <2>3, <2>4 DEF SameBut, Prepared, Ops, Logins, Changes
  <2>6. QED
    BY <2>2, <2>5
<1>11. CASE EnableUser(p)
  <2> DEFINE r1 == [z EXCEPT !.op = "enable"]
             r2 == [r1 EXCEPT !.set = [NoFields EXCEPT !.status = "active"]]
  <2>2. Begin(p, r2)
    BY <1>11 DEF z, EnableUser
  <2>3. r1 \in Request /\ SameBut(r1, z, "op") /\ r1.op = "enable"
    <3>1. "enable" \in Ops
      BY DEF Ops, Changes
    <3>2. QED
      BY <1>z, <3>1, RequestOp
  <2> HIDE DEF r1
  <2>4. r2 \in Request /\ SameBut(r2, r1, "set") /\ r2.set = [NoFields EXCEPT !.status = "active"]
    <3>1. [NoFields EXCEPT !.status = "active"] \in Fields
      BY <1>c, <1>d, <1>e
    <3>2. QED
      BY <2>3, <3>1, RequestFields
  <2> HIDE DEF r2
  <2>5. Prepared(r2, account, Len(issued))
    BY <1>a, <1>b, <1>c, <1>d, <1>z, <1>11, <2>3, <2>4 DEF SameBut, Prepared, Ops, Logins, Changes
  <2>6. QED
    BY <2>2, <2>5
<1>12. QED
  BY <1>1, <1>2, <1>3, <1>4, <1>5, <1>6, <1>7, <1>8, <1>9, <1>10, <1>11 DEF Arrive

-----------------------------------------------------------------------------
(* What a step leaves as it was *)

LEMMA FitLater ==
    ASSUME NEW r, NEW acc, NEW k \in Nat, Fit(r, acc, k), NEW acc2, NEW k2 \in Nat, k2 >= k,
           acc # None => acc2 # None /\ acc2.status = acc.status
    PROVE  Fit(r, acc2, k2)
<1>1. r.op \in {"refresh", "request"} => r.tok \in 1..k2
  BY DEF Fit
<1>2. QED
  BY <1>1 DEF Fit

LEMMA FitsKept ==
    ASSUME TypeOK, Fits, NEW p \in Procs, NEW n, req' = [req EXCEPT ![p] = n],
           NEW k \in Nat, k >= Len(issued), Len(issued') = k, Fit(n, account', k),
           account # None => account' # None /\ account'.status = account.status
    PROVE  Fits'
<1>1. Len(issued) \in Nat
  BY DEF TypeOK
<1>2. ASSUME NEW q \in Procs PROVE Fit(req'[q], account', k)
  <2>1. CASE q = p
    BY <2>1 DEF TypeOK
  <2>2. CASE q # p
    <3>1. req'[q] = req[q] /\ Fit(req[q], account, Len(issued))
      BY <2>2 DEF TypeOK, Fits
    <3>2. QED
      BY <1>1, <3>1, FitLater
  <2>3. QED
    BY <2>1, <2>2
<1>3. QED
  BY <1>2 DEF Fits

LEMMA SettledKept ==
    ASSUME TypeOK, Settled, NEW p \in Procs, NEW n, req' = [req EXCEPT ![p] = n],
           account' = account, overlapped \ {p} \subseteq overlapped',
           Heads(n.todo, "save") /\ p \notin overlapped' => Matches(n.row, account)
    PROVE  Settled'
<1>1. req'[p] = n /\ \A q \in Procs \ {p} : req'[q] = req[q]
  BY DEF TypeOK
<1>2. ASSUME NEW q \in Procs, Heads(req'[q].todo, "save"), q \notin overlapped'
      PROVE  Matches(req'[q].row, account)
  BY <1>1, <1>2 DEF Settled
<1>3. QED
  BY <1>2 DEF Settled

LEMMA CurrentKept ==
    ASSUME TypeOK, Current, NEW p \in Procs, NEW n, req' = [req EXCEPT ![p] = n],
           account' = account, failed => failed',
           refresh' \ raced' \subseteq Unraced, \A t \in Unraced : issued'[t] = issued[t],
           ~failed' /\ Revoking(req[p]) => Revoking(n),
           Covered(n, account)
    PROVE  Current'
<1>1. req'[p] = n /\ \A q \in Procs \ {p} : req'[q] = req[q]
  BY DEF TypeOK
<1>2. SUFFICES ASSUME ~failed', refresh' \ raced' # {}, \A q \in Procs : ~Revoking(req'[q])
               PROVE  /\ \A t \in refresh' \ raced' : Matches(issued'[t].row, account')
                      /\ \A q \in Procs : Covered(req'[q], account')
  BY DEF Current, Unraced
<1>3. \A q \in Procs : ~Revoking(req[q])
  BY <1>1, <1>2
<1>4. /\ \A t \in Unraced : Matches(issued[t].row, account)
      /\ \A q \in Procs : Covered(req[q], account)
  BY <1>2, <1>3 DEF Current
<1>5. QED
  BY <1>1, <1>4

LEMMA FlagKept ==
    ASSUME TypeOK, FlagInv, NEW p \in Procs, NEW n, req' = [req EXCEPT ![p] = n],
           account' = account, clash => clash', failed => failed',
           n.op \in Changes /\ ~clash' /\ ~failed' =>
               /\ Changing(p) \/ \A q \in Procs \ {p} : ~Changing(q)
               /\ (Changing(p) => Lifted(req[p], account)) => Lifted(n, account),
           banCached' /\ ~clash' /\ ~failed' =>
               account.status = "banned" \/ (banCached /\ (Lifting(req[p]) => Lifting(n)))
    PROVE  FlagInv'
<1>1. req'[p] = n /\ \A q \in Procs \ {p} : req'[q] = req[q]
  BY DEF TypeOK
<1>2. SUFFICES ASSUME ~clash', ~failed'
               PROVE  /\ \A a, b \in Procs : req'[a].op \in Changes /\ req'[b].op \in Changes => a = b
                      /\ \A a \in Procs : req'[a].op \in Changes => Lifted(req'[a], account)
                      /\ banCached' => account.status = "banned" \/ \E a \in Procs : Lifting(req'[a])
  BY DEF FlagInv, Changing
<1>3. /\ \A a, b \in Procs : Changing(a) /\ Changing(b) => a = b
      /\ \A a \in Procs : Changing(a) => Lifted(req[a], account)
      /\ banCached => account.status = "banned" \/ \E a \in Procs : Lifting(req[a])
  BY <1>2 DEF FlagInv
<1>4. ASSUME NEW a \in Procs, NEW b \in Procs, req'[a].op \in Changes, req'[b].op \in Changes
      PROVE  a = b
  <2>1. CASE a = p
    BY <1>1, <1>2, <1>3, <1>4, <2>1 DEF Changing
  <2>2. CASE b = p
    BY <1>1, <1>2, <1>3, <1>4, <2>2 DEF Changing
  <2>3. CASE a # p /\ b # p
    BY <1>1, <1>3, <1>4, <2>3 DEF Changing
  <2>4. QED
    BY <2>1, <2>2, <2>3
<1>5. ASSUME NEW a \in Procs, req'[a].op \in Changes
      PROVE  Lifted(req'[a], account)
  BY <1>1, <1>2, <1>3, <1>5 DEF Changing
<1>6. ASSUME NEW a \in Procs, Lifting(req[a]), Lifting(req[p]) => Lifting(n)
      PROVE  Lifting(req'[a])
  BY <1>1, <1>6
<1>7. QED
  BY <1>2, <1>3, <1>4, <1>5, <1>6

Plain == UNCHANGED <<account, banCached, platformKey, issued>> /\ refresh' \subseteq refresh /\ raced' = raced

SessionInv == Fits /\ Unregistered /\ Current /\ Settled /\ PerPlatform /\ FlagInv

\* A step of handler p that changes neither the row nor the sessions.
LEMMA PlainStep ==
    ASSUME TypeOK, SessionInv, NEW p \in Procs, NEW n, req' = [req EXCEPT ![p] = n], Plain,
           clash => clash', failed => failed', overlapped \ {p} \subseteq overlapped',
           Fit(n, account, Len(issued)), Covered(n, account),
           Heads(n.todo, "save") /\ p \notin overlapped' => Matches(n.row, account),
           n.op \in Changes /\ ~clash' /\ ~failed' =>
               /\ Changing(p) \/ \A q \in Procs \ {p} : ~Changing(q)
               /\ (Changing(p) => Lifted(req[p], account)) => Lifted(n, account),
           ~failed' /\ Lifting(req[p]) => Lifting(n),
           ~failed' /\ Revoking(req[p]) => Revoking(n)
    PROVE  SessionInv'
<1>1. /\ account' = account /\ banCached' = banCached /\ platformKey' = platformKey
      /\ issued' = issued /\ raced' = raced /\ refresh' \subseteq refresh
  BY DEF Plain
<1>2. Len(issued) \in Nat
  BY DEF TypeOK
<1>3. Fits'
  <2> DEFINE k == Len(issued)
  <2>1. k \in Nat /\ k >= Len(issued) /\ Len(issued') = k /\ Fit(n, account', k)
    BY <1>1, <1>2
  <2> HIDE DEF k
  <2>2. QED
    BY <1>1, <2>1, FitsKept DEF SessionInv
<1>4. Settled'
  BY <1>1, SettledKept DEF SessionInv
<1>5. Current'
  <2>1. refresh' \ raced' \subseteq Unraced /\ \A t \in Unraced : issued'[t] = issued[t]
    BY <1>1 DEF Unraced
  <2>2. QED
    BY <1>1, <2>1, CurrentKept DEF SessionInv
<1>6. FlagInv'
  BY <1>1, FlagKept DEF SessionInv
<1>7. Unregistered' /\ PerPlatform'
  BY <1>1 DEF SessionInv, Unregistered, PerPlatform
<1>8. QED
  BY <1>3, <1>4, <1>5, <1>6, <1>7 DEF SessionInv

-----------------------------------------------------------------------------
(* A handler goes on, or ends *)

LEMMA FitNone ==
    ASSUME NEW acc, NEW k
    PROVE  /\ Fit(NoRequest, acc, k) /\ Covered(NoRequest, acc)
           /\ NoRequest.op \notin Changes /\ ~Heads(NoRequest.todo, "save")
<1>1. NoRequest.op = "idle" /\ NoRequest.todo = <<>>
  BY DEF NoRequest
<1>2. <<>> \in Seq(OpSteps("idle"))
  OBVIOUS
<1>3. "idle" \notin Changes \cup Logins \cup {"register", "refresh", "request", "password", "reset"}
  BY DEF Changes, Logins
<1>4. ~Heads(<<>>, "save")
  BY DEF Heads
<1>5. QED
  BY <1>1, <1>2, <1>3, <1>4 DEF Fit, Covered

\* A handler that ends without touching the row or the sessions.
LEMMA EndStep ==
    ASSUME TypeOK, SessionInv, NEW p \in Procs, End(p), Plain, clash' = clash, failed => failed',
           ~failed' => ~Revoking(req[p]) /\ ~Lifting(req[p])
    PROVE  SessionInv'
<1>1. req' = [req EXCEPT ![p] = NoRequest] /\ overlapped' = overlapped \ {p}
  BY DEF End
<1>2. QED
  BY <1>1, FitNone, PlainStep

\* The rest of the calls of a change once the first is made.
LEMMA RestOf ==
    ASSUME NEW r, r.op \in Changes, Planned(r), r.todo \in Seq(OpSteps(r.op)), r.todo # <<>>,
           NEW n, n.op = r.op, n.set = r.set, n.todo = Tail(r.todo)
    PROVE  /\ Planned(n) /\ n.todo \in Seq(OpSteps(n.op))
           /\ \A x : Has(r.todo, x) <=> x = Head(r.todo) \/ Has(n.todo, x)
           /\ Head(r.todo) = "read" => n.todo # <<>> /\ Head(n.todo) \in {"write", "writePassword"}
           /\ Head(r.todo) # "read" =>
                 /\ n.todo # <<>> => Head(n.todo) \notin Early
                 /\ ~Heads(n.todo, "write")
                 /\ Has(n.todo, "del") => Revoking(n)
                 /\ Has(n.todo, "dropBan") => Lifting(n)
<1> DEFINE s == r.todo
           u == Tail(r.todo)
<1>0. Sorted(s)
  BY DEF Planned
<1>1. /\ u \in Seq(OpSteps(r.op)) /\ Head(s) \in OpSteps(r.op)
      /\ \A x : Has(s, x) <=> x = Head(s) \/ Has(u, x)
  BY HasTail
<1>2. /\ Sorted(u)
      /\ \A e \in Early : Has(u, e) => Head(s) = "read" /\ Heads(u, e) /\ e # "read"
      /\ Head(s) = "read" => u # <<>> /\ Head(u) \in Early \ {"read"}
  BY <1>0, SortedTail
<1>3. n.todo = u
  OBVIOUS
<1> HIDE DEF u
<1>4. u # <<>> => Has(u, Head(u))
  BY <1>1, HasTail
<1>5. Planned(n)
  <2>1. Has(u, "writePassword") => Has(u, "del")
    BY <1>1, <1>2 DEF Planned, Early
  <2>2. r.op = "disable" => (Has(u, "write") => Has(u, "del"))
    BY <1>1, <1>2 DEF Planned, Early
  <2>3. r.op = "enable" => (Has(u, "write") => Has(u, "dropBan"))
    BY <1>1, <1>2 DEF Planned, Early
  <2>4. QED
    BY <1>1, <1>2, <1>3, <2>1, <2>2, <2>3 DEF Planned
<1>6. ASSUME Head(s) # "read"
      PROVE  /\ u # <<>> => Head(u) \notin Early
             /\ ~Heads(u, "write")
             /\ Has(u, "del") => Revoking(n)
             /\ Has(u, "dropBan") => Lifting(n)
  <2>1. u # <<>> => Head(u) \notin Early
    BY <1>2, <1>4, <1>6
  <2>2. ~Heads(u, "write")
    BY <2>1 DEF Heads, Early
  <2>3. ASSUME NEW x, Has(u, x) PROVE u # <<>>
    <3>1. <<>> = <<>> => ~Has(<<>>, x)
      BY DEF Has
    <3>2. QED
      BY <2>3, <3>1
  <2>4. QED
    BY <1>3, <2>1, <2>2, <2>3 DEF Revoking, Lifting
<1>7. QED
  BY <1>1, <1>2, <1>3, <1>5, <1>6 DEF Early

\* Whose calls a call can be.
LEMMA StepOp ==
    ASSUME NEW op, NEW x \in OpSteps(op)
    PROVE  /\ x = "create" => op = "register"
           /\ x = "save" => op \in Logins
           /\ x \in {"rotate", "replay"} => op = "refresh"
           /\ x \in {"cache", "lookup", "serve"} => op = "request"
           /\ x = "write" => op \in {"role", "update", "disable", "enable"}
           /\ x = "writePassword" => op \in {"password", "reset"}
           /\ x = "read" => op \in {"login", "code"} \cup Changes
           /\ x \in Late => op \in Changes
<1>1. CASE op = "register"
  BY <1>1 DEF OpSteps, Late, Logins
<1>2. CASE op \in {"login", "code"}
  BY <1>2 DEF OpSteps, Late, Logins
<1>3. CASE op = "refresh"
  BY <1>3 DEF OpSteps, Late
<1>4. CASE op = "request"
  BY <1>4 DEF OpSteps, Late
<1>5. CASE op \in {"password", "reset"}
  BY <1>5 DEF OpSteps, Late, Changes
<1>6. CASE op = "role"
  BY <1>6 DEF OpSteps, Late, Changes
<1>7. CASE op \in {"update", "disable", "enable"}
  BY <1>7 DEF OpSteps, Late, Changes
<1>8. CASE op \notin Ops
  BY <1>8 DEF OpSteps, Ops, Changes
<1>9. QED
  BY <1>1, <1>2, <1>3, <1>4, <1>5, <1>6, <1>7, <1>8 DEF Ops, Changes

\* What is known of a handler that is about to make a call.
LEMMA AtCall ==
    ASSUME TypeOK, Fits, NEW p \in Procs, NEW x, At(p, x)
    PROVE  /\ req[p] \in Request /\ Fit(req[p], account, Len(issued))
           /\ req[p].todo \in Seq(OpSteps(req[p].op)) /\ req[p].todo # <<>>
           /\ Heads(req[p].todo, x) /\ Head(req[p].todo) = x /\ x \in OpSteps(req[p].op)
           /\ Tail(req[p].todo) \in Seq(OpSteps(req[p].op))
<1>1. /\ req[p] \in Request /\ Fit(req[p], account, Len(issued))
      /\ req[p].todo \in Seq(OpSteps(req[p].op)) /\ req[p].todo # <<>>
      /\ Heads(req[p].todo, x) /\ Head(req[p].todo) = x
  BY DEF TypeOK, Fits, Fit, At, Next1, Heads
<1>2. QED
  BY <1>1, HasTail

LEMMA ArrivalInv ==
    ASSUME TypeOK, SessionInv, NEW p \in Procs, Arrive(p)
    PROVE  TypeOK' /\ SessionInv'
<1>1. PICK r : Begin(p, r) /\ Prepared(r, account, Len(issued))
  BY ArrivalPrepared DEF SessionInv
<1> DEFINE n == [r EXCEPT !.todo = Calls(r.op)]
<1>2. r \in Request
  BY <1>1 DEF Prepared
<1>3. SameBut(n, r, "todo") /\ n.todo = Calls(r.op) /\ (n.todo \in Seq(Steps) => n \in Request)
  BY <1>2, RequestTodo
<1>4. /\ req' = [req EXCEPT ![p] = n] /\ ~Busy(p) /\ budget > 0 /\ budget' = budget - 1
      /\ UNCHANGED <<account, redis, issued, answers, raced, failed>>
      /\ clash' = (clash \/ ((\E q \in {q \in Procs \ {p} : Busy(q)} : Changing(q))
                              /\ r.op \in Changes))
      /\ overlapped \subseteq overlapped' /\ overlapped' \subseteq overlapped \cup Procs
  BY <1>1 DEF Begin
<1> HIDE DEF n
<1>5. /\ Fit(n, account, Len(issued)) /\ Covered(n, account) /\ n \in Request
      /\ n.op \in Changes => Lifted(n, account)
      /\ ~Heads(n.todo, "save") /\ n.op = r.op
  BY <1>1, <1>3, BeginFit DEF SameBut
<1>6. req[p].op = "idle" /\ ~Revoking(req[p]) /\ ~Lifting(req[p])
  BY <1>4 DEF Busy, Revoking, Lifting, Changes
<1>7. n.op \in Changes /\ ~clash' => \A q \in Procs \ {p} : ~Changing(q)
  BY <1>4, <1>5 DEF Changing, Busy, Changes
<1>9. SessionInv'
  <2>1. Plain /\ (clash => clash') /\ (failed => failed') /\ overlapped \ {p} \subseteq overlapped'
    BY <1>4 DEF Plain, redis
  <2>2. n.op \in Changes /\ ~clash' /\ ~failed' =>
               /\ Changing(p) \/ \A q \in Procs \ {p} : ~Changing(q)
               /\ (Changing(p) => Lifted(req[p], account)) => Lifted(n, account)
    BY <1>5, <1>7
  <2>3. QED
    BY <1>4, <1>5, <1>6, <2>1, <2>2, PlainStep
<1>10. TypeOK'
  <2>1. req' \in [Procs -> Request] /\ overlapped' \in SUBSET Procs
    BY <1>4, <1>5 DEF TypeOK
  <2>2. budget' \in 0..MaxRequests
    BY <1>4, SessionsAssumption DEF TypeOK
  <2>3. clash' \in BOOLEAN
    BY <1>4 DEF TypeOK
  <2>4. QED
    BY <1>4, <2>1, <2>2, <2>3 DEF TypeOK, redis
<1>11. QED
  BY <1>9, <1>10

\* Handlers that end without having written anything.
LEMMA AnswerInv ==
    ASSUME TypeOK, SessionInv, NEW p \in Procs, End(p),
           \/ (CreateWithPhone(p) /\ account' = account) \/ ReadUser(p)
           \/ GetRotationReplay(p) \/ AuthStatusCache(p) \/ AuthStatusLookup(p) \/ Serve(p)
           \/ Fail(p)
    PROVE  TypeOK' /\ SessionInv'
<1>1. /\ UNCHANGED <<account, redis, issued, budget, raced, clash>>
      /\ Fail(p) \/ UNCHANGED failed
      /\ GetRotationReplay(p) \/ UNCHANGED answers
  BY DEF CreateWithPhone, ReadUser, GetRotationReplay, AuthStatusCache, AuthStatusLookup, Serve, Fail
<1>2. ~failed' => ~Revoking(req[p]) /\ ~Lifting(req[p])
  <2>1. CASE Fail(p)
    BY <2>1 DEF Fail, Revoking, Lifting, Changing, Next1, Early
  <2>2. CASE ReadUser(p)
    <3>1. At(p, "read")
      BY <2>2 DEF ReadUser
    <3>2. QED
      BY <3>1 DEF At, Next1, Revoking, Lifting, Early
  <2>3. ASSUME NEW x \in {"create", "replay", "cache", "lookup", "serve"}, At(p, x)
        PROVE  ~Revoking(req[p]) /\ ~Lifting(req[p])
    <3>1. x \in OpSteps(req[p].op)
      BY <2>3, AtCall DEF SessionInv
    <3>2. req[p].op \in {"register", "refresh", "request"}
      BY <3>1, StepOp
    <3>3. QED
      BY <3>2 DEF Revoking, Lifting, Changes
  <2>4. QED
    BY <2>1, <2>2, <2>3 DEF CreateWithPhone, GetRotationReplay, AuthStatusCache, AuthStatusLookup, Serve
<1>3. SessionInv'
  <2>1. Plain /\ clash' = clash
    BY <1>1 DEF Plain, redis
  <2>2. failed => failed'
    BY <1>1 DEF Fail
  <2>3. QED
    BY <1>2, <2>1, <2>2, EndStep
<1>4. req' \in [Procs -> Request] /\ overlapped' \in SUBSET Procs
  BY NoRequestTyped DEF TypeOK, End
<1>5. answers' \in [Tokens -> SUBSET Tokens]
  <2>1. CASE UNCHANGED answers
    BY <2>1 DEF TypeOK
  <2>2. CASE GetRotationReplay(p)
    <3> DEFINE t == req[p].tok
    <3>1. At(p, "replay") /\ (UNCHANGED answers \/ (replay[t] # None
              /\ answers' = [answers EXCEPT ![t] = answers[t] \cup {replay[t]}]))
      BY <2>2 DEF GetRotationReplay
    <3>2. Fit(req[p], account, Len(issued)) /\ "replay" \in OpSteps(req[p].op)
      BY <3>1, AtCall DEF SessionInv
    <3>3. req[p].op = "refresh"
      BY <3>2, StepOp
    <3>4. t \in Tokens
      <4>1. t \in 1..Len(issued) /\ Len(issued) \in 0..MaxTokens
        BY <3>2, <3>3 DEF Fit, TypeOK
      <4>2. QED
        BY <4>1, SessionsAssumption DEF Tokens
    <3>5. replay[t] \in Tokens \cup {None}
      BY <3>4 DEF TypeOK
    <3> HIDE DEF t
    <3>6. QED
      BY <3>1, <3>4, <3>5 DEF TypeOK
  <2>3. QED
    BY <1>1, <2>1, <2>2
<1>6. failed' \in BOOLEAN
  BY <1>1 DEF TypeOK, Fail
<1>7. QED
  BY <1>1, <1>3, <1>4, <1>5, <1>6 DEF TypeOK, redis

\* Request n is what is left of r, whose first call is made; what else it
\* holds is the same but for the found keys.
Rest(n, r) ==
    /\ n.op = r.op /\ n.pf = r.pf /\ n.tok = r.tok /\ n.pw = r.pw /\ n.set = r.set
    /\ n.row = r.row /\ n.open = r.open
    /\ n.todo = Tail(r.todo)

\* A handler of a change that goes on.
LEMMA RestFit ==
    ASSUME NEW r, r \in Request, r.op \in Changes, r.todo # <<>>, NEW acc, NEW acc2, NEW k,
           Fit(r, acc, k), NEW n, Rest(n, r), Head(r.todo) = "read" => acc2 # None,
           acc # None => acc2 # None
    PROVE  Fit(n, acc2, k) /\ ~Heads(n.todo, "save")
<1>1. Planned(r) /\ r.todo \in Seq(OpSteps(r.op))
  BY DEF Fit
<1>2. Planned(n) /\ n.todo \in Seq(OpSteps(n.op))
  BY <1>1, RestOf DEF Rest
<1>3. acc2 # None
  BY DEF Fit
<1>4. ~Heads(n.todo, "save")
  <2>1. n.todo # <<>> => Head(n.todo) \in OpSteps(n.op)
    BY <1>2, HasTail
  <2>2. QED
    BY <2>1, StepOp DEF Heads, Rest, Changes, Logins
<1>5. r.op \notin Logins \cup {"register", "refresh", "request"}
  BY DEF Changes, Logins
<1>6. QED
  BY <1>2, <1>3, <1>4, <1>5 DEF Fit, Rest

\* After a call in Redis the handler still has to do what it had to.
LEMMA LateRest ==
    ASSUME NEW r, r \in Request, r.op \in Changes, r.todo # <<>>, Head(r.todo) \in Late,
           NEW acc, NEW k, Fit(r, acc, k), NEW n, Rest(n, r)
    PROVE  /\ Fit(n, acc, k) /\ ~Heads(n.todo, "save") /\ Covered(n, acc)
           /\ Lifted(r, acc) => Lifted(n, acc)
           /\ Head(r.todo) # "del" /\ Revoking(r) => Revoking(n)
           /\ Head(r.todo) # "dropBan" /\ Lifting(r) => Lifting(n)
<1>1. /\ Planned(r) /\ r.todo \in Seq(OpSteps(r.op))
      /\ Head(r.todo) # "read" /\ Head(r.todo) \notin Early
  BY DEF Fit, Late, Early
<1>2. /\ \A x : Has(r.todo, x) <=> x = Head(r.todo) \/ Has(n.todo, x)
      /\ n.todo # <<>> => Head(n.todo) \notin Early
      /\ ~Heads(n.todo, "write")
      /\ Has(n.todo, "del") => Revoking(n)
      /\ Has(n.todo, "dropBan") => Lifting(n)
  BY <1>1, RestOf DEF Rest
<1>3. Fit(n, acc, k) /\ ~Heads(n.todo, "save")
  BY <1>1, RestFit
<1>4. Covered(n, acc)
  BY <1>2 DEF Covered
<1>5. Lifted(r, acc) => Lifted(n, acc)
  BY <1>1, <1>2 DEF Lifted
<1>6. QED
  BY <1>2, <1>3, <1>4, <1>5 DEF Revoking, Lifting

\* A change that has read the row and has its calls fixed.
LEMMA ReadRest ==
    ASSUME NEW r, r \in Request, r.op \in Changes, r.op # "update", r.todo # <<>>,
           Head(r.todo) = "read",
           NEW acc, NEW k, Fit(r, acc, k), acc # None, NEW n, Rest(n, r)
    PROVE  /\ Fit(n, acc, k) /\ ~Heads(n.todo, "save") /\ Covered(n, acc) /\ Lifted(n, acc)
           /\ ~Revoking(r) /\ ~Lifting(r)
<1>1. Planned(r) /\ r.todo \in Seq(OpSteps(r.op)) /\ "read" \in OpSteps(r.op)
  BY HasTail DEF Fit
<1>2. /\ Planned(n) /\ n.todo \in Seq(OpSteps(n.op))
      /\ n.todo # <<>> /\ Head(n.todo) \in {"write", "writePassword"}
  BY <1>1, RestOf DEF Rest
<1>3. Fit(n, acc, k) /\ ~Heads(n.todo, "save")
  BY <1>1, RestFit
<1>4. Head(n.todo) = "write" => Has(n.todo, "write")
  BY <1>2, HasTail
<1>5. n.op # "role"
  BY <1>1 DEF OpSteps, Rest
<1>6. ASSUME Heads(n.todo, "write")
      PROVE  /\ n.op = "disable" => Has(n.todo, "del") /\ n.set.status = "banned"
             /\ n.op = "enable" => /\ Has(n.todo, "dropBan") /\ n.set.admin = None
                                   /\ n.set.status = "active"
             /\ n.op \in {"disable", "enable"}
  <2>1. "write" \in OpSteps(n.op)
    BY <1>2, <1>6, HasTail DEF Heads
  <2>2. n.op \in {"disable", "enable"}
    BY <1>5, <2>1, StepOp DEF Rest
  <2>3. QED
    BY <1>2, <1>4, <1>6, <2>2 DEF Heads, Planned
<1>7. Covered(n, acc)
  BY <1>6 DEF Covered
<1>8. Lifted(n, acc)
  BY <1>2, <1>6 DEF Lifted, Early
<1>9. QED
  BY <1>3, <1>7, <1>8 DEF Revoking, Lifting, Early

\* UpdateUser has read the row: a says what it does after its write.
LEMMA UpdateRest ==
    ASSUME NEW r, r \in Request, r.op = "update", r.todo # <<>>, Head(r.todo) = "read",
           NEW acc, NEW k, Fit(r, acc, k), acc # None,
           NEW m, SameBut(m, r, "todo"), m.todo = r.todo \o AfterUpdate(r.set, acc),
           NEW n, Rest(n, m)
    PROVE  /\ Fit(n, acc, k) /\ ~Heads(n.todo, "save") /\ Covered(n, acc) /\ Lifted(n, acc)
           /\ ~Revoking(r) /\ ~Lifting(r) /\ m.todo \in Seq(OpSteps("update")) /\ m.todo # <<>>
<1> DEFINE a == AfterUpdate(r.set, acc)
           s == r.todo
           S == OpSteps("update")
<1>0. r.op \in Changes /\ Late \subseteq S
  BY DEF Changes, OpSteps
<1>1. /\ a \in Seq(Late)
      /\ Has(a, "cacheBan") => r.set.status = "banned"
      /\ r.set.status = "banned" /\ acc.status # "banned" => Has(a, "del")
      /\ r.set.admin # None /\ r.set.admin # acc.admin => Has(a, "del")
      /\ r.set.status = "active" /\ acc.status = "banned" => Has(a, "dropBan")
  BY AfterUpdatePlan
<1> HIDE DEF a
<1>2. Planned(r) /\ s \in Seq(S)
  BY <1>0 DEF Fit
<1>3. a \in Seq(S)
  BY <1>0, <1>1
<1>4. m.todo = s \o a /\ m.op = "update" /\ m.set = r.set
  BY DEF a, SameBut
<1> HIDE DEF S
<1>5. s \o a \in Seq(S) /\ \A x : Has(s \o a, x) <=> Has(s, x) \/ Has(a, x)
  BY <1>2, <1>3, HasJoin
<1>6. Sorted(s \o a) /\ s \o a # <<>> /\ Head(s \o a) = "read"
  BY <1>1, <1>2, SortedJoin DEF Planned
<1>7. Planned(m)
  <2>1. Has(s, "writePassword") => Has(s, "del")
    BY <1>2 DEF Planned
  <2>2. ~Has(a, "writePassword")
    BY <1>1, HasOne DEF Late
  <2>3. Has(s, "cacheBan") => r.set.status = "banned"
    BY <1>2 DEF Planned
  <2>4. QED
    BY <1>1, <1>4, <1>5, <1>6, <2>1, <2>2, <2>3 DEF Planned
<1>8. Fit(m, acc, k)
  BY <1>0, <1>4, <1>5, <1>6, <1>7 DEF Fit, SameBut, Heads, S, Changes, Logins
<1>9. /\ Planned(n) /\ n.todo \in Seq(OpSteps(n.op))
      /\ n.todo # <<>> /\ Head(n.todo) \in {"write", "writePassword"}
      /\ \A x : Has(m.todo, x) <=> x = Head(m.todo) \/ Has(n.todo, x)
  <2>1. m.op \in Changes /\ m.todo \in Seq(OpSteps(m.op)) /\ m.todo # <<>> /\ Head(m.todo) = "read"
    BY <1>0, <1>4, <1>5, <1>6 DEF S
  <2>2. n.op = m.op /\ n.set = m.set /\ n.todo = Tail(m.todo)
    BY DEF Rest
  <2>3. QED
    BY <1>7, <2>1, <2>2, RestOf
<1>10. ~Heads(n.todo, "save")
  BY <1>9 DEF Heads
<1>11. Fit(n, acc, k)
  BY <1>0, <1>4, <1>8, <1>9 DEF Fit, Rest, Heads, Changes, Logins
<1>12. \A x : Has(a, x) /\ x # "read" => Has(n.todo, x)
  BY <1>4, <1>5, <1>6, <1>9
<1>13. Covered(n, acc)
  BY <1>1, <1>4, <1>12 DEF Covered, Rest
<1>14. Lifted(n, acc)
  BY <1>1, <1>4, <1>9, <1>12 DEF Lifted, Rest, Early
<1>15. ~Revoking(r) /\ ~Lifting(r)
  BY DEF Revoking, Lifting, Early
<1>16. QED
  BY <1>4, <1>5, <1>6, <1>10, <1>11, <1>13, <1>14, <1>15 DEF S

\* A handler that only reads, or gives up on one call for the next.
LEMMA ReadInv ==
    ASSUME TypeOK, SessionInv, NEW p \in Procs, ReadUser(p), ~End(p)
    PROVE  TypeOK' /\ SessionInv'
<1> DEFINE r == req[p]
           a == AfterUpdate(r.set, account)
           u == [r EXCEPT !.row = account]
           m == [r EXCEPT !.todo = r.todo \o a]
           login == [u EXCEPT !.todo = Tail(u.todo)]
           update == [m EXCEPT !.todo = Tail(m.todo)]
           other == [r EXCEPT !.todo = Tail(r.todo)]
<1>1. /\ At(p, "read") /\ account # None
      /\ r.op \in {"login", "code"} => account.status # "banned"
      /\ UNCHANGED <<account, redis, issued, budget, answers, raced, clash, failed, overlapped>>
  BY DEF ReadUser
<1>2. \/ r.op \in {"login", "code"} /\ req' = [req EXCEPT ![p] = login]
      \/ r.op = "update" /\ req' = [req EXCEPT ![p] = update]
      \/ r.op \notin {"login", "code", "update"} /\ req' = [req EXCEPT ![p] = other]
  BY DEF ReadUser, Continue
<1>3. /\ r \in Request /\ Fit(r, account, Len(issued)) /\ r.todo \in Seq(OpSteps(r.op))
      /\ r.todo # <<>> /\ Head(r.todo) = "read" /\ Tail(r.todo) \in Seq(OpSteps(r.op))
      /\ r.op \in {"login", "code"} \cup Changes
  BY <1>1, AtCall, StepOp DEF SessionInv
<1>4. account \in Row
  BY <1>1 DEF TypeOK
<1>5. Plain
  BY <1>1 DEF Plain, redis
<1>6. ASSUME NEW n, n \in Request, req' = [req EXCEPT ![p] = n] PROVE TypeOK'
  BY <1>1, <1>6 DEF TypeOK, redis
<1> HIDE DEF r
<1>7. CASE r.op \in {"login", "code"}
  <2>1. SameBut(u, r, "row") /\ u.row = account /\ u \in Request
    BY <1>3, <1>4, RequestRow
  <2> HIDE DEF u
  <2>2. /\ SameBut(login, u, "todo") /\ login.todo = Tail(r.todo)
        /\ login.todo \in Seq(Steps) => login \in Request
    <3>1. u.todo = r.todo
      BY <2>1 DEF SameBut
    <3>2. /\ SameBut(login, u, "todo") /\ login.todo = Tail(u.todo)
          /\ login.todo \in Seq(Steps) => login \in Request
      BY <2>1, RequestTodo
    <3>3. QED
      BY ONLY <3>1, <3>2
  <2>3. req' = [req EXCEPT ![p] = login]
    BY <1>2, <1>7
  <2> HIDE DEF login
  <2>4. login \in Request /\ login.op = r.op /\ login.row = account /\ login.pf = r.pf
    BY <1>3, <2>1, <2>2, StepsAreKnown DEF SameBut
  <2>5. login.op \notin Changes /\ r.op \notin Changes
    BY <1>7, <2>4 DEF Changes
  <2>6. Fit(login, account, Len(issued))
    <3>1. login.todo \in Seq(OpSteps(login.op)) /\ login.pf \in Platforms
      BY <1>3, <1>7, <2>2, <2>4 DEF Fit, Logins
    <3>2. login.op \in {"login", "code"}
      BY <1>7, <2>4
    <3>3. QED
      BY <1>1, <1>4, <2>4, <2>5, <3>1, <3>2 DEF Fit, Logins
  <2>7. Matches(login.row, account)
    BY <1>1, <1>4, <1>7, <2>4 DEF Matches, Row
  <2>8. Covered(login, account) /\ ~Revoking(r) /\ ~Lifting(r)
    BY <2>5 DEF Covered, Revoking, Lifting
  <2>9. SessionInv'
    BY <1>1, <1>5, <2>3, <2>5, <2>6, <2>7, <2>8, PlainStep DEF r
  <2>10. QED
    BY <1>6, <2>3, <2>4, <2>9
<1>8. CASE r.op = "update"
  <2> DEFINE t == r.todo \o a
  <2>1. SameBut(m, r, "todo") /\ m.todo = t /\ (t \in Seq(Steps) => m \in Request)
    BY <1>3, RequestTodo
  <2> HIDE DEF m
  <2>a. req' = [req EXCEPT ![p] = update]
    BY <1>2, <1>8
  <2>b. Late \subseteq OpSteps("update") /\ OpSteps("update") \subseteq Steps
    BY StepsAreKnown DEF OpSteps
  <2>2. t \in Seq(OpSteps("update")) /\ t # <<>>
    <3>1. a \in Seq(Late)
      BY AfterUpdatePlan
    <3> HIDE DEF a
    <3>2. a \in Seq(OpSteps("update"))
      BY <2>b, <3>1
    <3>3. QED
      BY <1>3, <1>8, <3>2
  <2>3. m \in Request /\ Tail(t) \in Seq(Steps)
    <3>1. Tail(t) \in Seq(OpSteps("update"))
      BY <2>2, HasTail
    <3>2. QED
      BY <2>1, <2>2, <2>b, <3>1
  <2>4. SameBut(update, m, "todo") /\ update.todo = Tail(m.todo) /\ update \in Request
    BY <2>1, <2>3, RequestTodo
  <2> HIDE DEF update, t
  <2>5. Rest(update, m) /\ m.todo = r.todo \o AfterUpdate(r.set, account)
    BY <2>1, <2>4 DEF Rest, SameBut, t
  <2>6. /\ Fit(update, account, Len(issued)) /\ ~Heads(update.todo, "save")
        /\ Covered(update, account) /\ Lifted(update, account) /\ ~Revoking(r) /\ ~Lifting(r)
    BY <1>1, <1>3, <1>8, <2>1, <2>5, UpdateRest
  <2>7. Changing(p)
    BY <1>8 DEF Changing, Changes, r
  <2>8. SessionInv'
    BY <1>1, <1>5, <2>a, <2>6, <2>7, PlainStep DEF r
  <2>9. QED
    BY <1>6, <2>a, <2>4, <2>8
<1>9. CASE r.op \notin {"login", "code", "update"}
  <2>1. /\ SameBut(other, r, "todo") /\ other.todo = Tail(r.todo)
        /\ other.todo \in Seq(Steps) => other \in Request
    BY <1>3, RequestTodo
  <2>2. req' = [req EXCEPT ![p] = other]
    BY <1>2, <1>9
  <2> HIDE DEF other
  <2>3. Rest(other, r) /\ other \in Request
    BY <1>3, <2>1, StepsAreKnown DEF Rest, SameBut
  <2>4. r.op \in Changes
    BY <1>3, <1>9
  <2>5. /\ Fit(other, account, Len(issued)) /\ ~Heads(other.todo, "save")
        /\ Covered(other, account) /\ Lifted(other, account) /\ ~Revoking(r) /\ ~Lifting(r)
    BY <1>1, <1>3, <1>9, <2>3, <2>4, ReadRest
  <2>6. Changing(p)
    BY <2>4 DEF Changing, r
  <2>7. SessionInv'
    BY <1>1, <1>5, <2>2, <2>5, <2>6, PlainStep DEF r
  <2>8. QED
    BY <1>6, <2>2, <2>3, <2>7
<1>10. QED
  BY <1>7, <1>8, <1>9

LEMMA FoundInv ==
    ASSUME TypeOK, SessionInv, RunsInv, NEW p \in Procs, RevokeReadHashes(p) \/ RevokeReadDevices(p)
    PROVE  TypeOK' /\ SessionInv'
<1> DEFINE r == req[p]
           u == [r EXCEPT !.hashes = index]
           v == [r EXCEPT !.devs = devices]
           m == IF RevokeReadHashes(p) THEN u ELSE v
           n == [m EXCEPT !.todo = Tail(m.todo)]
<1>1. PICK x \in {"hashes", "devices"} : At(p, x)
  BY DEF RevokeReadHashes, RevokeReadDevices
<1>2. UNCHANGED <<account, redis, issued, budget, history>>
  BY DEF RevokeReadHashes, RevokeReadDevices
<1>3. req' = [req EXCEPT ![p] = n]
  BY DEF RevokeReadHashes, RevokeReadDevices, Continue
<1>4. /\ r \in Request /\ Fit(r, account, Len(issued)) /\ r.todo \in Seq(OpSteps(r.op))
      /\ r.todo # <<>> /\ Head(r.todo) = x /\ Tail(r.todo) \in Seq(OpSteps(r.op))
      /\ x \in OpSteps(r.op)
  BY <1>1, AtCall DEF SessionInv
<1>5. r.op \in Changes
  BY <1>4, StepOp DEF Late
<1>6. m \in Request /\ m.todo = r.todo /\ (SameBut(m, r, "hashes") \/ SameBut(m, r, "devs"))
  <2>1. index \in SUBSET Tokens /\ devices \in SUBSET Platforms
    BY DEF TypeOK
  <2>2. /\ u \in Request /\ SameBut(u, r, "hashes")
        /\ v \in Request /\ SameBut(v, r, "devs")
    BY <1>4, <2>1, RequestDevs, RequestHashes
  <2> HIDE DEF u, v
  <2>3. QED
    BY <2>2 DEF SameBut
<1> HIDE DEF m
<1>7. /\ SameBut(n, m, "todo") /\ n.todo = Tail(m.todo)
      /\ n.todo \in Seq(Steps) => n \in Request
  BY <1>6, RequestTodo
<1> HIDE DEF n
<1>8. Rest(n, r) /\ n \in Request
  BY <1>4, <1>6, <1>7, StepsAreKnown DEF Rest, SameBut
<1>9. /\ Fit(n, account, Len(issued)) /\ ~Heads(n.todo, "save") /\ Covered(n, account)
      /\ Lifted(r, account) => Lifted(n, account)
      /\ Revoking(r) => Revoking(n)
      /\ Lifting(r) => Lifting(n)
  <2>1. x \in Late /\ x # "del" /\ x # "dropBan"
    BY DEF Late
  <2>2. QED
    BY <1>4, <1>5, <1>8, <2>1, LateRest
<1>10. Changing(p) /\ Plain /\ UNCHANGED <<clash, failed, overlapped>>
  BY <1>2, <1>5 DEF Changing, r, Plain, redis, history
<1> HIDE DEF r
<1>11. SessionInv'
  BY <1>3, <1>9, <1>10, PlainStep DEF r
<1>12. TypeOK'
  BY <1>2, <1>3, <1>8 DEF TypeOK, redis, history
<1>13. QED
  BY <1>11, <1>12

\* A handler that gives up on one call for the next.
LEMMA JumpInv ==
    ASSUME TypeOK, SessionInv, NEW p \in Procs, ~End(p),
           RotateRefused(p) \/ AuthStatusCache(p) \/ AuthStatusLookup(p)
    PROVE  TypeOK' /\ SessionInv'
<1> DEFINE r == req[p]
           S == {"replay", "lookup", "serve"}
<1>1. PICK y \in S, x \in {"rotate", "cache", "lookup"} :
          /\ At(p, x) /\ req' = [req EXCEPT ![p].todo = <<y>>]
          /\ y = "replay" => x = "rotate"
          /\ y = "lookup" => x = "cache"
          /\ y = "serve" => x = "lookup" /\ account.status # "banned"
  <2>1. CASE RotateRefused(p)
    BY <2>1 DEF RotateRefused
  <2>2. CASE AuthStatusCache(p)
    BY <2>2 DEF AuthStatusCache
  <2>3. CASE AuthStatusLookup(p)
    BY <2>3 DEF AuthStatusLookup
  <2>4. QED
    BY <2>1, <2>2, <2>3
<1>2. UNCHANGED <<account, redis, issued, budget, history>>
  BY DEF RotateRefused, AuthStatusCache, AuthStatusLookup, history
<1> DEFINE n == [r EXCEPT !.todo = <<y>>]
<1>3. req' = [req EXCEPT ![p] = n]
  BY <1>1
<1>4. /\ r \in Request /\ Fit(r, account, Len(issued)) /\ x \in OpSteps(r.op)
  BY <1>1, AtCall DEF SessionInv
<1>5. r.op = IF y = "replay" THEN "refresh" ELSE "request"
  BY <1>1, <1>4, StepOp
<1>6. /\ <<y>> \in Seq(OpSteps(r.op)) /\ Head(<<y>>) = y
      /\ OpSteps(r.op) \subseteq Steps
  <2>1. y \in OpSteps(r.op)
    BY <1>1, <1>5 DEF OpSteps
  <2>2. QED
    BY <2>1, One, StepsAreKnown
<1>7. SameBut(n, r, "todo") /\ n.todo = <<y>> /\ (<<y>> \in Seq(Steps) => n \in Request)
  BY <1>4, RequestTodo
<1> HIDE DEF n
<1>8. n \in Request /\ n.op = r.op /\ n.op \in {"refresh", "request"} /\ ~Heads(n.todo, "save")
  BY <1>1, <1>5, <1>6, <1>7 DEF SameBut, Heads
<1>9. n.op \notin Changes /\ r.op \notin Changes
  BY <1>8 DEF Changes
<1>10. Fit(n, account, Len(issued))
  <2>1. Heads(n.todo, "serve") => y = "serve"
    BY <1>6, <1>7 DEF Heads
  <2>2. n.op = "request" => account # None /\ (account.status = "banned" \/ n.open)
    BY <1>4, <1>7, <1>8 DEF Fit, SameBut
  <2>3. n.tok \in 1..Len(issued)
    BY <1>4, <1>7, <1>8 DEF Fit, SameBut
  <2>4. QED
    BY <1>1, <1>6, <1>7, <1>8, <1>9, <2>1, <2>2, <2>3 DEF Fit, Logins
<1>11. Plain /\ UNCHANGED <<clash, failed, overlapped>>
  BY <1>2 DEF Plain, redis, history
<1> HIDE DEF r
<1>12. Covered(n, account) /\ ~Revoking(r) /\ ~Lifting(r)
  BY <1>9 DEF Covered, Revoking, Lifting
<1>13. SessionInv'
  BY <1>3, <1>8, <1>9, <1>10, <1>11, <1>12, PlainStep DEF r
<1>14. TypeOK'
  BY <1>2, <1>3, <1>8 DEF TypeOK, redis, history
<1>15. QED
  BY <1>13, <1>14

-----------------------------------------------------------------------------
(* The calls of a change that write *)

LEMMA LateNext ==
    ASSUME NEW r, r \in Request, r.op \in Changes, r.todo # <<>>, Head(r.todo) \in Late,
           NEW acc, NEW k, Fit(r, acc, k),
           NEW n, Rest(n, r) \/ (n = NoRequest /\ Tail(r.todo) = <<>>)
    PROVE  /\ Fit(n, acc, k) /\ ~Heads(n.todo, "save") /\ Covered(n, acc) /\ acc # None
           /\ Lifted(r, acc) /\ n.op \in Changes => Lifted(n, acc)
           /\ Head(r.todo) # "del" /\ Revoking(r) => Revoking(n)
           /\ Head(r.todo) # "dropBan" /\ Lifting(r) => Lifting(n)
<1>0. acc # None
  BY DEF Fit, Late
<1>1. CASE Rest(n, r)
  BY <1>0, <1>1, LateRest
<1>2. CASE n = NoRequest /\ Tail(r.todo) = <<>>
  <2>1. \A x : Has(r.todo, x) => x = Head(r.todo)
    <3>1. r.todo \in Seq(OpSteps(r.op)) /\ \A x : ~Has(<<>>, x)
      BY DEF Fit, Has
    <3>2. QED
      BY <1>2, <3>1, HasTail
  <2>2. QED
    BY <1>0, <1>2, <2>1, FitNone DEF Revoking, Lifting
<1>3. QED
  BY <1>1, <1>2

\* The handler makes a call and goes on, or answers if that was the last.
LEMMA AdvanceEffect ==
    ASSUME TypeOK, SessionInv, NEW p \in Procs, NEW x, At(p, x),
           NEW m, m \in Request, m.todo = req[p].todo, m.op = req[p].op, m.pf = req[p].pf,
           m.tok = req[p].tok, m.pw = req[p].pw, m.set = req[p].set, m.row = req[p].row,
           m.open = req[p].open, Advance(p, m)
    PROVE  \E n \in Request :
              /\ req' = [req EXCEPT ![p] = n]
              /\ overlapped \ {p} \subseteq overlapped' /\ overlapped' \in SUBSET Procs
              /\ Rest(n, req[p]) \/ (n = NoRequest /\ Tail(req[p].todo) = <<>>)
<1>1. /\ req[p].todo \in Seq(OpSteps(req[p].op)) /\ req[p].todo # <<>>
      /\ Tail(req[p].todo) \in Seq(OpSteps(req[p].op))
  BY AtCall DEF SessionInv
<1>2. CASE Len(m.todo) = 1
  <2>1. req' = [req EXCEPT ![p] = NoRequest] /\ overlapped' = overlapped \ {p}
    BY <1>2 DEF Advance, End
  <2>2. Tail(req[p].todo) = <<>>
    <3> DEFINE S == OpSteps(req[p].op)
               s == req[p].todo
               u == Tail(s)
    <3>1. s # <<>> /\ s \in Seq(S) /\ Len(s) = 1
      BY <1>1, <1>2
    <3> HIDE DEF S, s
    <3>2. u \in Seq(S) /\ Len(u) = 0
      BY <3>1
    <3> HIDE DEF u
    <3>3. u = <<>>
      BY <3>2, Some
    <3>4. QED
      BY <3>3 DEF u, s
  <2>3. QED
    BY <2>1, <2>2, NoRequestTyped DEF TypeOK
<1>3. CASE Len(m.todo) # 1
  <2> DEFINE n == [m EXCEPT !.todo = Tail(m.todo)]
  <2>1. req' = [req EXCEPT ![p] = n] /\ overlapped' = overlapped
    BY <1>3 DEF Advance, Continue
  <2>2. /\ SameBut(n, m, "todo") /\ n.todo = Tail(m.todo)
        /\ n.todo \in Seq(Steps) => n \in Request
    BY RequestTodo
  <2> HIDE DEF n
  <2>3. n \in Request /\ Rest(n, req[p])
    BY <1>1, <2>2, StepsAreKnown DEF SameBut, Rest
  <2>4. QED
    BY <2>1, <2>3 DEF TypeOK
<1>4. QED
  BY <1>2, <1>3

LEMMA FlagWriteInv ==
    ASSUME TypeOK, SessionInv, NEW p \in Procs, CacheBan(p) \/ DropBan(p)
    PROVE  TypeOK' /\ SessionInv'
<1> DEFINE r == req[p]
<1>1. PICK x \in {"cacheBan", "dropBan"} :
          /\ At(p, x) /\ Advance(p, r)
          /\ banCached' = (x = "cacheBan")
  BY DEF CacheBan, DropBan
<1>2. UNCHANGED <<account, refresh, index, devices, platformKey, replay, issued,
                  budget, answers, raced, clash, failed>>
  BY DEF CacheBan, DropBan
<1>3. /\ r \in Request /\ Fit(r, account, Len(issued)) /\ r.todo # <<>> /\ Head(r.todo) = x
      /\ x \in OpSteps(r.op) /\ r.todo \in Seq(OpSteps(r.op))
  BY <1>1, AtCall DEF SessionInv
<1>4. r.op \in Changes /\ x \in Late /\ x # "del"
  BY <1>3, StepOp DEF Late
<1>5. PICK n \in Request :
              /\ req' = [req EXCEPT ![p] = n]
              /\ overlapped \ {p} \subseteq overlapped' /\ overlapped' \in SUBSET Procs
              /\ Rest(n, req[p]) \/ (n = NoRequest /\ Tail(req[p].todo) = <<>>)
  BY <1>1, <1>3, AdvanceEffect
<1>6. /\ Fit(n, account, Len(issued)) /\ ~Heads(n.todo, "save") /\ Covered(n, account)
      /\ account # None
      /\ Lifted(r, account) /\ n.op \in Changes => Lifted(n, account)
      /\ Revoking(r) => Revoking(n)
      /\ x # "dropBan" /\ Lifting(r) => Lifting(n)
  BY <1>3, <1>4, <1>5, LateNext
<1>7. Changing(p)
  BY <1>4 DEF Changing
<1>8. x = "cacheBan" /\ ~clash /\ ~failed => account.status = "banned"
  <2>1. x = "cacheBan" => Has(r.todo, "cacheBan") /\ x \notin Early
    BY <1>3, HasTail DEF Early
  <2>2. QED
    BY <1>3, <1>7, <2>1 DEF SessionInv, FlagInv, Lifted
<1> HIDE DEF r
<1>9. Fits'
  <2> DEFINE k == Len(issued)
  <2>1. k \in Nat /\ k >= Len(issued) /\ Len(issued') = k /\ Fit(n, account', k)
    BY <1>2, <1>6 DEF TypeOK
  <2> HIDE DEF k
  <2>2. QED
    BY <1>2, <1>5, <2>1, FitsKept DEF SessionInv
<1>10. Settled'
  BY <1>2, <1>5, <1>6, SettledKept DEF SessionInv
<1>11. Current'
  <2>1. refresh' \ raced' \subseteq Unraced /\ \A t \in Unraced : issued'[t] = issued[t]
    BY <1>2 DEF Unraced
  <2>2. QED
    BY <1>2, <1>5, <1>6, <2>1, CurrentKept DEF SessionInv, r
<1>12. FlagInv'
  <2>1. banCached' /\ ~clash' /\ ~failed' =>
           account.status = "banned" \/ (banCached /\ (Lifting(req[p]) => Lifting(n)))
    BY <1>1, <1>2, <1>8
  <2>2. QED
    BY <1>2, <1>5, <1>6, <1>7, <2>1, FlagKept DEF SessionInv, r
<1>13. Unregistered' /\ PerPlatform'
  BY <1>2, <1>6 DEF SessionInv, Unregistered, PerPlatform
<1>14. TypeOK'
  BY <1>1, <1>2, <1>5 DEF TypeOK
<1>15. QED
  BY <1>9, <1>10, <1>11, <1>12, <1>13, <1>14 DEF SessionInv

LEMMA DeleteInv ==
    ASSUME TypeOK, SessionInv, LossInv, NEW p \in Procs, RevokeDelete(p)
    PROVE  TypeOK' /\ SessionInv'
<1> DEFINE r == req[p]
           u == [r EXCEPT !.hashes = {}]
           m == [u EXCEPT !.devs = {}]
<1>1. /\ At(p, "del") /\ Advance(p, m)
      /\ refresh' = refresh \ r.hashes
      /\ platformKey' = [f \in Platforms |-> IF f \in r.devs THEN None ELSE platformKey[f]]
      /\ index' = {} /\ devices' = {}
      /\ UNCHANGED <<account, banCached, replay, issued, budget, answers, raced, clash, failed>>
  BY DEF RevokeDelete
<1>2. /\ r \in Request /\ Fit(r, account, Len(issued)) /\ r.todo # <<>> /\ Head(r.todo) = "del"
      /\ "del" \in OpSteps(r.op)
  BY <1>1, AtCall DEF SessionInv
<1>3. r.op \in Changes /\ "del" \in Late
  BY <1>2, StepOp DEF Late
<1>4. SameBut(u, r, "hashes") /\ u \in Request
  BY <1>2, RequestHashes
<1> HIDE DEF u
<1>5. SameBut(m, u, "devs") /\ m \in Request
  BY <1>4, RequestDevs
<1> HIDE DEF m, r
<1>6. PICK n \in Request :
              /\ req' = [req EXCEPT ![p] = n]
              /\ overlapped \ {p} \subseteq overlapped' /\ overlapped' \in SUBSET Procs
              /\ Rest(n, req[p]) \/ (n = NoRequest /\ Tail(req[p].todo) = <<>>)
  BY <1>1, <1>4, <1>5, AdvanceEffect DEF SameBut, r
<1>7. /\ Fit(n, account, Len(issued)) /\ ~Heads(n.todo, "save") /\ account # None
      /\ Lifted(r, account) /\ n.op \in Changes => Lifted(n, account)
      /\ Lifting(r) => Lifting(n)
  BY <1>2, <1>3, <1>6, LateNext DEF r
<1>8. refresh' \subseteq raced
  BY <1>1 DEF LossInv, FoundAll, r
<1>9. Fits'
  <2> DEFINE k == Len(issued)
  <2>1. k \in Nat /\ k >= Len(issued) /\ Len(issued') = k /\ Fit(n, account', k)
    BY <1>1, <1>7 DEF TypeOK
  <2> HIDE DEF k
  <2>2. QED
    BY <1>1, <1>6, <2>1, FitsKept DEF SessionInv
<1>10. Settled'
  BY <1>1, <1>6, <1>7, SettledKept DEF SessionInv
<1>11. Current'
  BY <1>1, <1>8 DEF Current, Unraced
<1>12. FlagInv'
  <2>1. Changing(p)
    BY <1>3 DEF Changing, r
  <2>2. QED
    BY <1>1, <1>6, <1>7, <2>1, FlagKept DEF SessionInv, r
<1>13. Unregistered' /\ PerPlatform'
  BY <1>1, <1>7, <1>8 DEF Unregistered, PerPlatform
<1>14. TypeOK'
  <2>1. refresh' \in SUBSET Tokens /\ index' \in SUBSET Tokens /\ devices' \in SUBSET Platforms
    BY <1>1 DEF TypeOK
  <2>2. platformKey' \in [Platforms -> Tokens \cup {None}]
    BY <1>1 DEF TypeOK
  <2>3. QED
    BY <1>1, <1>6, <2>1, <2>2 DEF TypeOK
<1>15. QED
  BY <1>9, <1>10, <1>11, <1>12, <1>13, <1>14 DEF SessionInv

LEMMA PasswordInv ==
    ASSUME TypeOK, SessionInv, LossInv, NEW p \in Procs, UpdatePassword(p)
    PROVE  TypeOK' /\ SessionInv'
<1> DEFINE r == req[p]
<1>1. /\ At(p, "writePassword") /\ Advance(p, r)
      /\ account' = [account EXCEPT !.pw = r.row.pw]
      /\ UNCHANGED <<redis, issued, budget, answers, raced, clash, failed>>
  BY DEF UpdatePassword
<1>2. /\ r \in Request /\ Fit(r, account, Len(issued)) /\ r.todo # <<>>
      /\ Head(r.todo) = "writePassword" /\ r.todo \in Seq(OpSteps(r.op))
      /\ "writePassword" \in OpSteps(r.op)
  BY <1>1, AtCall DEF SessionInv
<1>3. r.op \in {"password", "reset"} /\ r.op \in Changes
  <2>1. r.op \in {"password", "reset"}
    BY <1>2, StepOp
  <2>2. QED
    BY <2>1 DEF Changes
<1>4. /\ Planned(r) /\ r.row \in [pw : Passwords] /\ account # None
  BY <1>2, <1>3 DEF Fit
<1>5. account \in Row
  BY <1>4 DEF TypeOK
<1>6. /\ account' \in Row /\ account'.status = account.status
  BY <1>1, <1>4, <1>5 DEF Row
<1>7. account' # None
  BY <1>6, SessionsAssumption
<1>8. PICK n \in Request :
              /\ req' = [req EXCEPT ![p] = n]
              /\ overlapped \ {p} \subseteq overlapped' /\ overlapped' \in SUBSET Procs
              /\ Rest(n, req[p]) \/ (n = NoRequest /\ Tail(req[p].todo) = <<>>)
  BY <1>1, <1>2, AdvanceEffect
<1>9. Has(r.todo, "writePassword") /\ Has(r.todo, "del")
  BY <1>2, <1>4, HasTail DEF Planned
<1>10. Has(Tail(r.todo), "del")
  BY <1>2, <1>9, HasTail
<1>11. Rest(n, r)
  <2>1. ~Has(<<>>, "del")
    BY DEF Has
  <2>2. QED
    BY <1>8, <1>10, <2>1
<1>12. /\ Planned(n) /\ n.todo \in Seq(OpSteps(n.op)) /\ Revoking(n)
       /\ n.todo # <<>> => Head(n.todo) \notin Early
       /\ ~Heads(n.todo, "write")
  BY <1>2, <1>3, <1>4, <1>10, <1>11, RestOf DEF Rest
<1>13. Fit(n, account', Len(issued)) /\ ~Heads(n.todo, "save")
  BY <1>2, <1>3, <1>7, <1>11, RestFit
<1> HIDE DEF r
<1>14. req'[p] = n /\ \A q \in Procs \ {p} : req'[q] = req[q]
  BY <1>8 DEF TypeOK
<1>15. Fits'
  <2> DEFINE k == Len(issued)
  <2>1. k \in Nat /\ k >= Len(issued) /\ Len(issued') = k /\ Fit(n, account', k)
    BY <1>1, <1>13 DEF TypeOK
  <2> HIDE DEF k
  <2>2. QED
    BY <1>6, <1>7, <1>8, <2>1, FitsKept DEF SessionInv
<1>16. Settled'
  <2>1. ASSUME NEW q \in Procs, Heads(req'[q].todo, "save") PROVE q \in overlapped'
    <3>1. q # p /\ req'[q] = req[q]
      BY <1>13, <1>14, <2>1
    <3>2. Busy(q)
      <4>1. req[q].op = "idle" => req[q].todo = <<>>
        BY DEF SessionInv, Fits, Fit, OpSteps
      <4>2. QED
        BY <2>1, <3>1, <4>1 DEF Busy, Heads
    <3>3. q \in overlapped
      BY <1>3, <3>1, <3>2 DEF LossInv, RunsInv, AllMeet, Changing, r
    <3>4. QED
      BY <1>8, <3>1, <3>3
  <2>2. QED
    BY <2>1 DEF Settled
<1>17. Current'
  BY <1>12, <1>14 DEF Current
<1>18. FlagInv'
  <2>1. Changing(p)
    BY <1>3 DEF Changing, r
  <2>2. SUFFICES ASSUME ~clash, ~failed
                 PROVE  /\ \A a, b \in Procs : req'[a].op \in Changes /\ req'[b].op \in Changes => a = b
                        /\ \A a \in Procs : req'[a].op \in Changes => Lifted(req'[a], account')
                        /\ banCached => account'.status = "banned" \/ \E a \in Procs : Lifting(req'[a])
    BY <1>1 DEF FlagInv, Changing, redis
  <2>3. /\ \A a, b \in Procs : Changing(a) /\ Changing(b) => a = b
        /\ banCached => account.status = "banned" \/ \E a \in Procs : Lifting(req[a])
    BY <2>2 DEF SessionInv, FlagInv
  <2>4. \A a \in Procs : req'[a].op \in Changes => a = p
    BY <1>14, <2>1, <2>3 DEF Changing
  <2>5. Lifted(n, account')
    <3>1. n.set.status = None
      BY <1>3, <1>4, <1>11 DEF Planned, Rest
    <3>2. ~Has(n.todo, "cacheBan")
      BY <1>12, <3>1, NoneApart DEF Planned
    <3>3. QED
      BY <1>12, <3>2 DEF Lifted
  <2>6. ~\E a \in Procs : Lifting(req[a])
    <3>1. ~Lifting(req[p])
      BY <1>2 DEF Lifting, Early, r
    <3>2. \A a \in Procs : Lifting(req[a]) => Changing(a)
      BY DEF Lifting, Changing
    <3>3. QED
      BY <2>1, <2>3, <3>1, <3>2
  <2>7. QED
    BY <1>6, <1>14, <2>3, <2>4, <2>5, <2>6
<1>19. Unregistered' /\ PerPlatform'
  BY <1>1, <1>7 DEF SessionInv, Unregistered, PerPlatform, redis
<1>20. TypeOK'
  BY <1>1, <1>6, <1>8 DEF TypeOK, redis
<1>21. QED
  BY <1>15, <1>16, <1>17, <1>18, <1>19, <1>20 DEF SessionInv

LEMMA ApplyRow ==
    ASSUME NEW row \in Row, NEW set \in Fields
    PROVE  /\ Apply(row, set) \in Row
           /\ Apply(row, set).status = IF set.status = None THEN row.status ELSE set.status
           /\ Apply(row, set).admin = IF set.admin = None THEN row.admin ELSE set.admin
           /\ Apply(row, set).pw = row.pw
<1> DEFINE s == IF set.status = None THEN row.status ELSE set.status
           a == IF set.admin = None THEN row.admin ELSE set.admin
           o == IF set.role = None THEN row.role ELSE set.role
           r1 == [row EXCEPT !.status = s]
           r2 == [r1 EXCEPT !.admin = a]
           r3 == [r2 EXCEPT !.role = o]
<1>1. s \in {"active", "banned"} /\ a \in BOOLEAN /\ o \in Roles
  BY DEF Row, Fields
<1>2. Apply(row, set) = r3
  BY DEF Apply
<1> HIDE DEF s, a, o
<1>3. /\ r1 \in Row /\ r1.status = s /\ r1.admin = row.admin /\ r1.pw = row.pw
      /\ r1.role = row.role
  BY <1>1 DEF Row
<1> HIDE DEF r1
<1>4. r2 \in Row /\ r2.status = s /\ r2.admin = a /\ r2.pw = row.pw
  BY <1>1, <1>3 DEF Row
<1> HIDE DEF r2
<1>5. r3 \in Row /\ r3.status = s /\ r3.admin = a /\ r3.pw = row.pw
  BY <1>1, <1>4 DEF Row
<1> HIDE DEF r3
<1>6. QED
  BY <1>2, <1>5 DEF s, a

LEMMA WriteInv ==
    ASSUME TypeOK, SessionInv, LossInv, NEW p \in Procs, WriteUser(p)
    PROVE  TypeOK' /\ SessionInv'
<1> DEFINE r == req[p]
           n == IF Len(r.todo) = 1 THEN NoRequest ELSE [r EXCEPT !.todo = Tail(r.todo)]
           k == Len(issued)
           opened(a) == [a EXCEPT !.open = TRUE]
<1>1. /\ At(p, "write") /\ account' = Apply(account, r.set)
      /\ req' = [q \in Procs |->
             IF q = p
             THEN IF Len(r.todo) = 1 THEN NoRequest ELSE [r EXCEPT !.todo = Tail(r.todo)]
             ELSE IF req[q].op = "request" /\ account'.status = "active"
                  THEN [req[q] EXCEPT !.open = TRUE] ELSE req[q]]
      /\ overlapped' = IF Len(r.todo) = 1 THEN overlapped \ {p} ELSE overlapped
      /\ UNCHANGED <<redis, issued, budget, answers, raced, clash, failed>>
  BY DEF WriteUser
<1>2. /\ r \in Request /\ Fit(r, account, k) /\ r.todo # <<>>
      /\ Head(r.todo) = "write" /\ r.todo \in Seq(OpSteps(r.op))
      /\ "write" \in OpSteps(r.op) /\ Tail(r.todo) \in Seq(OpSteps(r.op)) /\ Heads(r.todo, "write")
  BY <1>1, AtCall DEF SessionInv
<1>3. r.op \in Changes
  <2>1. r.op \in {"role", "update", "disable", "enable"}
    BY <1>2, StepOp
  <2>2. QED
    BY <2>1 DEF Changes
<1>4. Planned(r) /\ account # None /\ account \in Row /\ r.set \in Fields
  BY <1>2, <1>3 DEF Fit, TypeOK, Request
<1>5. /\ account' \in Row /\ account' # None
      /\ account'.status = IF r.set.status = None THEN account.status ELSE r.set.status
      /\ account'.admin = IF r.set.admin = None THEN account.admin ELSE r.set.admin
      /\ account'.pw = account.pw
  BY <1>1, <1>4, ApplyRow, SessionsAssumption
<1>6. /\ req' = [q \in Procs |-> req'[q]] /\ req'[p] = n
      /\ \A q \in Procs \ {p} :
            \/ req'[q] = opened(req[q])
            \/ req'[q] = req[q] /\ ~(req[q].op = "request" /\ account'.status = "active")
  BY <1>1
<1>a. \A a \in Request : opened(a) \in Request /\ SameBut(opened(a), a, "open") /\ opened(a).open = TRUE
  BY RequestOpen
<1> HIDE DEF opened
<1>7. ASSUME NEW q \in Procs \ {p}
      PROVE  /\ req'[q] \in Request /\ req'[q].op = req[q].op /\ req'[q].todo = req[q].todo
             /\ req'[q].pf = req[q].pf /\ req'[q].pw = req[q].pw /\ req'[q].tok = req[q].tok
             /\ req'[q].row = req[q].row /\ req'[q].set = req[q].set
             /\ req[q].open => req'[q].open
             /\ req[q].op = "request" /\ account'.status = "active" => req'[q].open
  <2>1. req[q] \in Request
    BY DEF TypeOK
  <2> DEFINE u == opened(req[q])
  <2>2. u \in Request /\ SameBut(u, req[q], "open") /\ u.open = TRUE
    BY <2>1, <1>a
  <2>3. req'[q] = u \/ (req'[q] = req[q] /\ ~(req[q].op = "request" /\ account'.status = "active"))
    BY <1>6
  <2> HIDE DEF u
  <2>4. QED
    BY <2>1, <2>2, <2>3 DEF SameBut
<1>8. n \in Request /\ (Rest(n, r) \/ (n = NoRequest /\ Tail(r.todo) = <<>>))
  <2>1. CASE Len(r.todo) = 1
    <3> DEFINE S == OpSteps(r.op)
               s == r.todo
               u == Tail(s)
    <3>1. s # <<>> /\ s \in Seq(S) /\ Len(s) = 1
      BY <1>2, <2>1
    <3> HIDE DEF S, s
    <3>2. u \in Seq(S) /\ Len(u) = 0
      BY <3>1
    <3> HIDE DEF u
    <3>3. u = <<>>
      BY <3>2, Some
    <3>4. QED
      BY <2>1, <3>3, NoRequestTyped DEF u, s
  <2>2. CASE Len(r.todo) # 1
    <3> DEFINE m == [r EXCEPT !.todo = Tail(r.todo)]
    <3>1. SameBut(m, r, "todo") /\ m.todo = Tail(r.todo) /\ (m.todo \in Seq(Steps) => m \in Request)
      BY <1>2, RequestTodo
    <3>2. n = m
      BY <2>2
    <3> HIDE DEF m
    <3>3. Tail(r.todo) \in Seq(Steps)
      BY <1>2, StepsAreKnown
    <3> DEFINE n1 == n
    <3>4. n1 = m
      BY <3>2
    <3> HIDE DEF n1
    <3>5. n1 \in Request /\ Rest(n1, r)
      BY <3>1, <3>3, <3>4 DEF SameBut, Rest
    <3>6. QED
      BY <3>5 DEF n1
  <2>3. QED
    BY <2>1, <2>2
<1> HIDE DEF n
<1>9. /\ Fit(n, account', k) /\ ~Heads(n.todo, "save") /\ ~Heads(n.todo, "write")
      /\ Has(r.todo, "del") => Revoking(n)
      /\ Has(r.todo, "dropBan") => Lifting(n)
      /\ n.op \in Changes => n.todo \in Seq(OpSteps(n.op)) /\ Planned(n) /\ n.set = r.set
  <2>1. CASE Rest(n, r)
    <3>1. /\ Planned(n) /\ n.todo \in Seq(OpSteps(n.op))
          /\ ~Heads(n.todo, "write")
          /\ \A x : Has(r.todo, x) => x = "write" \/ Has(n.todo, x)
          /\ Has(n.todo, "del") => Revoking(n)
          /\ Has(n.todo, "dropBan") => Lifting(n)
      <4>1. n.op = r.op /\ n.set = r.set /\ n.todo = Tail(r.todo)
        BY <2>1 DEF Rest
      <4>2. QED
        BY <1>2, <1>3, <1>4, <4>1, RestOf
    <3>2. Fit(n, account', k) /\ ~Heads(n.todo, "save")
      BY <1>2, <1>3, <1>5, <2>1, RestFit
    <3>3. QED
      BY <2>1, <3>1, <3>2 DEF Rest
  <2>2. CASE n = NoRequest /\ Tail(r.todo) = <<>>
    <3>1. \A x : Has(r.todo, x) => x = "write"
      <4>1. \A x : ~Has(<<>>, x)
        BY DEF Has
      <4>2. QED
        BY <1>2, <2>2, <4>1, HasTail
    <3>2. Fit(n, account', k) /\ ~Heads(n.todo, "save") /\ n.op \notin Changes
      BY <2>2, FitNone
    <3>3. ~Heads(n.todo, "write")
      BY <2>2, NoRequestTyped DEF Heads
    <3>4. QED
      BY <3>1, <3>2, <3>3
  <2>3. QED
    BY <1>8, <2>1, <2>2
<1>10. n.op \in Changes => Lifted(n, account')
  <2>1. n.op \in Changes /\ Has(n.todo, "cacheBan") => account'.status = "banned"
    BY <1>5, <1>9, NoneApart DEF Planned
  <2>2. QED
    BY <1>9, <2>1 DEF Lifted
<1> HIDE DEF r
<1>11. Fits'
  <2>1. ASSUME NEW q \in Procs PROVE Fit(req'[q], account', k)
    <3>1. CASE q = p
      BY <1>6, <1>9, <3>1
    <3>2. CASE q # p
      <4>1. Fit(req[q], account, k)
        BY DEF SessionInv, Fits
      <4>2. q \in Procs \ {p}
        BY <3>2
      <4> DEFINE a == req[q]
                 b == req'[q]
      <4>3. /\ b.op = a.op /\ b.todo = a.todo /\ b.pf = a.pf /\ b.pw = a.pw /\ b.tok = a.tok
            /\ b.row = a.row /\ b.set = a.set /\ (a.open => b.open)
            /\ a.op = "request" /\ account'.status = "active" => b.open
        BY <1>7, <4>2
      <4>4. account'.status \in {"active", "banned"}
        BY <1>5 DEF Row
      <4> HIDE DEF a, b
      <4>5. Fit(a, account, k)
        BY <4>1 DEF a
      <4>6. Planned(a) => Planned(b)
        BY <4>3 DEF Planned
      <4>7. Fit(b, account', k)
        BY <1>5, <4>3, <4>4, <4>5, <4>6 DEF Fit
      <4>8. QED
        BY <4>7 DEF b
    <3>3. QED
      BY <3>1, <3>2
  <2>2. Len(issued') = k
    BY <1>1
  <2>3. QED
    BY <2>1, <2>2 DEF Fits
<1>12. Settled'
  <2>1. ASSUME NEW q \in Procs, Heads(req'[q].todo, "save") PROVE q \in overlapped'
    <3>1. q # p /\ Heads(req[q].todo, "save")
      BY <1>6, <1>7, <1>9, <2>1
    <3>2. Busy(q)
      <4>1. req[q].op = "idle" => req[q].todo = <<>>
        BY DEF SessionInv, Fits, Fit, OpSteps
      <4>2. QED
        BY <3>1, <4>1 DEF Busy, Heads
    <3>3. q \in overlapped
      BY <1>3, <3>1, <3>2 DEF LossInv, RunsInv, AllMeet, Changing, r
    <3>4. QED
      BY <1>1, <3>1, <3>3
  <2>2. QED
    BY <2>1 DEF Settled
<1>13. Current'
  <2>1. UNCHANGED <<failed, refresh, raced, issued>>
    BY <1>1 DEF redis
  <2>2. SUFFICES ASSUME ~failed, Unraced # {}, \A q \in Procs : ~Revoking(req'[q])
                 PROVE  /\ \A t \in Unraced : Matches(issued[t].row, account')
                        /\ \A q \in Procs : Covered(req'[q], account')
    BY <2>1 DEF Current, Unraced
  <2>3. ~Has(r.todo, "del")
    BY <1>6, <1>9, <2>2
  <2>4. \A q \in Procs : ~Revoking(req[q])
    <3>1. ~Revoking(req[p])
      BY <1>2 DEF Revoking, Early, r
    <3>2. \A q \in Procs \ {p} : Revoking(req[q]) => Revoking(req'[q])
      BY <1>7 DEF Revoking
    <3>3. QED
      BY <2>2, <3>1, <3>2
  <2>5. /\ \A t \in Unraced : Matches(issued[t].row, account)
        /\ \A q \in Procs : Covered(req[q], account)
    BY <2>2, <2>4 DEF SessionInv, Current
  <2>6. r.set.admin \in {None, account.admin} /\ (r.set.status = "banned" => account.status = "banned")
    BY <1>2, <1>3, <2>3, <2>5 DEF Covered, r
  <2>7. account.status = "active"
    BY <2>2, <2>5 DEF Matches
  <2>8. account'.status = "active" /\ account'.admin = account.admin /\ account'.pw = account.pw
    BY <1>4, <1>5, <2>6, <2>7 DEF Fields
  <2>9. \A t \in Unraced : Matches(issued[t].row, account')
    BY <1>5, <2>5, <2>8 DEF Matches
  <2>10. ASSUME NEW q \in Procs PROVE Covered(req'[q], account')
    <3>1. CASE q = p
      BY <1>6, <1>9, <3>1 DEF Covered
    <3>2. CASE q # p
      <4>1. Covered(req[q], account)
        BY <2>5
      <4>2. req'[q].op = req[q].op /\ req'[q].todo = req[q].todo /\ req'[q].set = req[q].set
        BY <1>7, <3>2
      <4>3. QED
        BY <2>7, <2>8, <4>1, <4>2 DEF Covered
    <3>3. QED
      BY <3>1, <3>2
  <2>11. QED
    BY <2>9, <2>10
<1>14. FlagInv'
  <2>1. Changing(p)
    BY <1>3 DEF Changing, r
  <2>2. SUFFICES ASSUME ~clash, ~failed
                 PROVE  /\ \A a, b \in Procs : req'[a].op \in Changes /\ req'[b].op \in Changes => a = b
                        /\ \A a \in Procs : req'[a].op \in Changes => Lifted(req'[a], account')
                        /\ banCached => account'.status = "banned" \/ \E a \in Procs : Lifting(req'[a])
    BY <1>1 DEF FlagInv, Changing, redis
  <2>3. /\ \A a, b \in Procs : Changing(a) /\ Changing(b) => a = b
        /\ Lifted(req[p], account)
        /\ banCached => account.status = "banned" \/ \E a \in Procs : Lifting(req[a])
    BY <2>1, <2>2 DEF SessionInv, FlagInv
  <2>4. \A a \in Procs : req'[a].op \in Changes => a = p
    BY <1>7, <2>1, <2>3 DEF Changing
  <2>5. ~\E a \in Procs : Lifting(req[a])
    <3>1. ~Lifting(req[p])
      BY <1>2 DEF Lifting, Early, r
    <3>2. \A a \in Procs : Lifting(req[a]) => Changing(a)
      BY DEF Lifting, Changing
    <3>3. QED
      BY <2>1, <2>3, <3>1, <3>2
  <2>6. ASSUME banCached, account'.status # "banned" PROVE Lifting(n)
    <3>1. account.status = "banned"
      BY <2>3, <2>5, <2>6
    <3>2. r.set.status = "active"
      BY <1>4, <1>5, <2>6, <3>1 DEF Fields
    <3>3. QED
      BY <1>2, <1>9, <2>3, <3>1, <3>2 DEF Lifted, r
  <2>7. QED
    BY <1>6, <1>10, <2>4, <2>6
<1>15. Unregistered' /\ PerPlatform'
  BY <1>1, <1>5 DEF SessionInv, Unregistered, PerPlatform, redis
<1>16. TypeOK'
  <2>1. req' \in [Procs -> Request]
    <3>1. \A q \in Procs : req'[q] \in Request
      BY <1>6, <1>7, <1>8
    <3>2. QED
      BY <1>6, <3>1
  <2>2. overlapped' \in SUBSET Procs
    BY <1>1 DEF TypeOK
  <2>3. QED
    BY <1>1, <1>5, <2>1, <2>2 DEF TypeOK, redis
<1>17. QED
  BY <1>11, <1>12, <1>13, <1>14, <1>15, <1>16 DEF SessionInv

-----------------------------------------------------------------------------
(* The sessions *)

LEMMA ItemTyped ==
    ASSUME NEW S, NEW s \in Seq(S), NEW i \in 1..Len(s)
    PROVE  s[i] \in S
OBVIOUS

LEMMA CallsKnown ==
    ASSUME NEW op, NEW s \in Seq(OpSteps(op))
    PROVE  s \in Seq(Steps)
<1>1. OpSteps(op) \subseteq Steps
  BY StepsAreKnown
<1>2. QED
  BY <1>1

LEMMA CreateInv ==
    ASSUME TypeOK, SessionInv, NEW p \in Procs, CreateWithPhone(p), account = None
    PROVE  TypeOK' /\ SessionInv'
<1> DEFINE r == req[p]
           a == [status |-> "active", pw |-> r.pw, admin |-> FALSE, role |-> "user"]
           u == [r EXCEPT !.row = a]
           n == [u EXCEPT !.todo = Tail(u.todo)]
           k == Len(issued)
<1>1. /\ At(p, "create") /\ account' = a /\ req' = [req EXCEPT ![p] = n]
      /\ UNCHANGED <<redis, issued, budget, answers, raced, clash, failed, overlapped>>
  BY DEF CreateWithPhone, Continue
<1>2. /\ r \in Request /\ Fit(r, account, k) /\ Tail(r.todo) \in Seq(OpSteps(r.op))
      /\ "create" \in OpSteps(r.op)
  BY <1>1, AtCall DEF SessionInv
<1>3. r.op = "register" /\ r.pw \in Passwords /\ r.pf \in Platforms
  <2>1. r.op = "register"
    BY <1>2, StepOp
  <2>2. QED
    BY <1>2, <2>1 DEF Fit, Logins
<1>4. a \in Row /\ a.status = "active"
  BY <1>3, SessionsAssumption DEF Row
<1>5. a # None
  BY <1>4, SessionsAssumption
<1>6. refresh = {} /\ issued = <<>> /\ banCached = FALSE
  BY DEF SessionInv, Unregistered, TypeOK
<1> HIDE DEF r, a
<1>7. SameBut(u, r, "row") /\ u.row = a /\ u \in Request
  BY <1>2, <1>4, RequestRow
<1> HIDE DEF u
<1>8. SameBut(n, u, "todo") /\ n.todo = Tail(u.todo) /\ (n.todo \in Seq(Steps) => n \in Request)
  BY <1>7, RequestTodo
<1> HIDE DEF n
<1>9. /\ n.op = "register" /\ n.pf \in Platforms /\ n.pw \in Passwords /\ n.row = a
      /\ n.todo \in Seq(OpSteps(n.op)) /\ n \in Request
  <2>1. u.op = r.op /\ u.pf = r.pf /\ u.pw = r.pw /\ u.todo = r.todo
    BY <1>7 DEF SameBut
  <2>2. n.op = u.op /\ n.pf = u.pf /\ n.pw = u.pw /\ n.row = u.row /\ n.todo = Tail(u.todo)
    BY <1>8 DEF SameBut
  <2>3. Tail(r.todo) \in Seq(Steps)
    BY <1>2, CallsKnown
  <2>4. QED
    BY <1>2, <1>3, <1>7, <1>8, <2>1, <2>2, <2>3
<1>10. Fit(n, a, k) /\ n.op \notin Changes
  <2>1. n.op \notin Changes \cup {"refresh", "request", "password", "reset"}
    BY <1>9 DEF Changes
  <2>2. QED
    BY <1>4, <1>5, <1>9, <2>1 DEF Fit
<1>11. req'[p] = n /\ \A q \in Procs \ {p} : req'[q] = req[q]
  BY <1>1 DEF TypeOK
<1>12. Fits'
  <2>1. k \in Nat /\ k >= Len(issued) /\ Len(issued') = k /\ Fit(n, account', k)
    BY <1>1, <1>10 DEF TypeOK
  <2> HIDE DEF k
  <2>2. QED
    BY <1>1, <2>1, FitsKept DEF SessionInv
<1>13. Settled'
  <2>1. ASSUME NEW q \in Procs, Heads(req'[q].todo, "save") PROVE q = p
    <3>1. q # p => Fit(req[q], None, k) /\ Heads(req[q].todo, "save")
      BY <1>11, <2>1 DEF SessionInv, Fits
    <3>2. QED
      BY <3>1 DEF Fit
  <2>2. Matches(a, a)
    BY <1>4, <1>5 DEF Matches
  <2>3. QED
    BY <1>1, <1>9, <1>11, <2>1, <2>2 DEF Settled
<1>14. FlagInv'
  <2>1. SUFFICES ASSUME ~clash, ~failed
                 PROVE  /\ \A b, c \in Procs : req'[b].op \in Changes /\ req'[c].op \in Changes => b = c
                        /\ \A b \in Procs : req'[b].op \in Changes => Lifted(req'[b], account')
    BY <1>1, <1>6 DEF FlagInv, Changing, redis
  <2>2. \A b, c \in Procs : Changing(b) /\ Changing(c) => b = c
    BY <2>1 DEF SessionInv, FlagInv
  <2>3. \A b \in Procs : req'[b].op \in Changes => b # p /\ Changing(b) /\ req'[b] = req[b]
    BY <1>10, <1>11 DEF Changing
  <2>4. ASSUME NEW b \in Procs, req'[b].op \in Changes PROVE Lifted(req'[b], account')
    <3>1. Fit(req[b], None, k) /\ req[b].op \in Changes /\ req'[b] = req[b]
      BY <2>3, <2>4 DEF SessionInv, Fits, Changing
    <3>2. req[b].todo # <<>> => Head(req[b].todo) = "read"
      BY <3>1 DEF Fit
    <3>3. ~Heads(req[b].todo, "write")
      BY <3>2 DEF Heads
    <3>4. QED
      BY <3>1, <3>2, <3>3 DEF Lifted, Early
  <2>5. QED
    BY <2>2, <2>3, <2>4
<1>15. Unregistered' /\ PerPlatform' /\ Current'
  BY <1>1, <1>5, <1>6 DEF Unregistered, PerPlatform, Current, Unraced, redis
<1>16. TypeOK'
  BY <1>1, <1>4, <1>9 DEF TypeOK, redis
<1>17. QED
  BY <1>12, <1>13, <1>14, <1>15, <1>16 DEF SessionInv

\* Tokens that expire leave the rest as it is.
LEMMA ExpireInv ==
    ASSUME TypeOK, SessionInv, LiveAreIssued, NEW t \in Tokens, Expire(t)
    PROVE  TypeOK' /\ SessionInv'
<1>1. /\ refresh' = refresh \ {t}
      /\ platformKey' = [f \in Platforms |-> IF platformKey[f] = t THEN None ELSE platformKey[f]]
      /\ UNCHANGED <<account, banCached, index, devices, replay, issued, req, budget, history>>
  BY DEF Expire
<1>2. TypeOK'
  <2>1. refresh' \in SUBSET Tokens /\ platformKey' \in [Platforms -> Tokens \cup {None}]
    BY <1>1 DEF TypeOK
  <2>2. QED
    BY <1>1, <2>1 DEF TypeOK, history
<1>3. Fits' /\ Settled'
  BY <1>1 DEF SessionInv, Fits, Settled, history
<1>4. Unregistered'
  BY <1>1 DEF SessionInv, Unregistered
<1>5. Current'
  <2>1. \A v \in refresh' \ raced' : v \in Unraced
    BY <1>1 DEF Unraced, history
  <2>2. QED
    BY <1>1, <2>1 DEF SessionInv, Current, Unraced, history
<1>6. PerPlatform'
  <2>1. SUFFICES ASSUME raced = {}, NEW v \in refresh \ {t} PROVE platformKey'[issued[v].pf] = v
    BY <1>1 DEF PerPlatform, history
  <2>2. platformKey[issued[v].pf] = v
    BY <2>1 DEF SessionInv, PerPlatform
  <2>3. issued[v].pf \in Platforms
    <3>1. v \in 1..Len(issued)
      BY <2>1 DEF LiveAreIssued
    <3>2. issued[v] \in [pf : Platforms, row : Row]
      BY <3>1, ItemTyped DEF TypeOK
    <3>3. QED
      BY <3>2
  <2>4. QED
    BY <1>1, <2>1, <2>2, <2>3
<1>7. FlagInv'
  <2>1. UNCHANGED <<account, banCached, req, clash, failed>>
    BY <1>1 DEF history
  <2>2. QED
    BY <2>1 DEF SessionInv, FlagInv, Changing
<1>8. QED
  BY <1>2, <1>3, <1>4, <1>5, <1>6, <1>7 DEF SessionInv

LEMMA QuietInv ==
    ASSUME TypeOK, SessionInv, (\E t \in Tokens : ExpireReplay(t)) \/ UNCHANGED vars
    PROVE  TypeOK' /\ SessionInv'
<1>1. /\ UNCHANGED <<account, banCached, refresh, index, devices, platformKey, issued, req,
                     budget, history>>
      /\ replay' \in [Tokens -> Tokens \cup {None}]
  <2>1. CASE UNCHANGED vars
    BY <2>1 DEF vars, redis, TypeOK
  <2>2. ASSUME NEW t \in Tokens, ExpireReplay(t)
        PROVE  /\ UNCHANGED <<account, banCached, refresh, index, devices, platformKey, issued, req,
                     budget, history>>
               /\ replay' \in [Tokens -> Tokens \cup {None}]
    BY <2>2 DEF ExpireReplay, TypeOK
  <2>3. QED
    BY <2>1, <2>2
<1>2. TypeOK'
  BY <1>1 DEF TypeOK, history
<1>3. Fits' /\ Settled' /\ Unregistered' /\ PerPlatform'
  BY <1>1 DEF SessionInv, Fits, Settled, Unregistered, PerPlatform, history
<1>4. Current'
  BY <1>1 DEF SessionInv, Current, Unraced, history
<1>5. FlagInv'
  <2>1. UNCHANGED <<account, banCached, req, clash, failed>>
    BY <1>1 DEF history
  <2>2. QED
    BY <2>1 DEF SessionInv, FlagInv, Changing
<1>6. QED
  BY <1>2, <1>3, <1>4, <1>5 DEF SessionInv

\* Both scripts: handler p stores a token with claims w for platform f, in place of old.
LEMMA StoreInv ==
    ASSUME TypeOK, SessionInv, RunsInv, LiveAreIssued, NEW p \in Procs, Busy(p), ~Changing(p),
           NEW f \in Platforms, NEW w \in Row, NEW old, account # None,
           Issue(f, w), StoreToken(p, f),
           refresh' = (refresh \ {old}) \cup {Fresh}, index' = (index \ {old}) \cup {Fresh},
           raced = {} => \A t \in refresh : issued[t].pf = f => t = old,
           \/ raced' = raced \cup {Fresh}
           \/ /\ raced' = raced /\ p \notin overlapped
              /\ ~failed /\ (\A q \in Procs : ~Revoking(req[q])) => Matches(w, account),
           replay' \in [Tokens -> Tokens \cup {None}], answers' \in [Tokens -> SUBSET Tokens]
    PROVE  TypeOK' /\ SessionInv'
<1> DEFINE k == Len(issued)
           e == [pf |-> f, row |-> w]
           E == [pf : Platforms, row : Row]
<1>1. /\ k \in Nat /\ k + 1 \in Tokens /\ issued' = Append(issued, e)
      /\ devices' = devices \cup {f} /\ platformKey' = [platformKey EXCEPT ![f] = k + 1]
      /\ req' = [req EXCEPT ![p] = NoRequest] /\ overlapped' = overlapped \ {p}
      /\ UNCHANGED <<account, banCached, budget, clash, failed>>
      /\ refresh' = (refresh \ {old}) \cup {k + 1} /\ index' = (index \ {old}) \cup {k + 1}
      /\ \/ raced' = raced \cup {k + 1}
         \/ /\ raced' = raced /\ p \notin overlapped
            /\ ~failed /\ (\A q \in Procs : ~Revoking(req[q])) => Matches(w, account)
  BY DEF Issue, StoreToken, End, Fresh, TypeOK
<1>2. e \in E /\ issued \in Seq(E) /\ refresh \subseteq 1..k /\ e.pf = f /\ e.row = w
  BY DEF TypeOK, LiveAreIssued
<1> HIDE DEF e, E
<1>3. /\ issued' \in Seq(E) /\ Len(issued') = k + 1 /\ issued'[k + 1] = e
      /\ \A i \in 1..k : issued'[i] = issued[i]
  BY <1>1, <1>2
<1> HIDE DEF k
<1>4. TypeOK'
  <2>1. k + 1 \in 0..MaxTokens
    BY <1>1 DEF Tokens
  <2>2. platformKey' \in [Platforms -> Tokens \cup {None}]
    BY <1>1 DEF TypeOK
  <2>3. req' \in [Procs -> Request]
    BY <1>1, NoRequestTyped DEF TypeOK
  <2>4. refresh' \in SUBSET Tokens /\ index' \in SUBSET Tokens /\ raced' \in SUBSET Tokens
    BY <1>1 DEF TypeOK
  <2>5. QED
    BY <1>1, <1>3, <2>1, <2>2, <2>3, <2>4 DEF TypeOK, E
<1>5. Fits'
  <2> DEFINE m == k + 1
  <2>1. m \in Nat /\ m >= Len(issued) /\ Len(issued') = m /\ Fit(NoRequest, account', m)
    BY <1>1, <1>3, FitNone DEF k
  <2> HIDE DEF m
  <2>2. QED
    BY <1>1, <2>1, FitsKept DEF SessionInv
<1>6. Settled'
  BY <1>1, FitNone, SettledKept DEF SessionInv
<1>7. FlagInv'
  <2>1. ~Lifting(req[p])
    BY DEF Lifting, Changing
  <2>2. QED
    BY <1>1, <2>1, FitNone, FlagKept DEF SessionInv
<1>8. Unregistered'
  BY <1>1 DEF Unregistered
<1>9. PerPlatform'
  <2>1. SUFFICES ASSUME raced' = {}, NEW t \in refresh' PROVE platformKey'[issued'[t].pf] = t
    BY DEF PerPlatform
  <2>2. raced = {}
    BY <1>1, <2>1
  <2>3. CASE t = k + 1
    BY <1>1, <1>2, <1>3, <2>3 DEF TypeOK
  <2>4. CASE t # k + 1
    <3>1. t \in refresh /\ t # old /\ t \in 1..k
      BY <1>1, <1>2, <2>1, <2>4
    <3>2. issued'[t] = issued[t] /\ issued[t].pf # f /\ platformKey[issued[t].pf] = t
      BY <1>3, <2>2, <3>1 DEF SessionInv, PerPlatform
    <3>3. issued[t] \in E
      BY <1>2, <3>1, ItemTyped DEF k
    <3>4. issued[t].pf \in Platforms
      BY <3>3 DEF E
    <3>5. QED
      BY <1>1, <3>2, <3>4 DEF TypeOK
  <2>5. QED
    BY <2>3, <2>4
<1>10. ~Revoking(req[p])
  BY DEF Revoking, Changing
<1>11. \A t \in Unraced : issued'[t] = issued[t]
  BY <1>2, <1>3 DEF Unraced
<1>12. Current'
  <2>1. CASE raced' = raced \cup {k + 1}
    <3>1. refresh' \ raced' \subseteq Unraced
      BY <1>1, <2>1 DEF Unraced
    <3>2. QED
      BY <1>1, <1>10, <1>11, <3>1, FitNone, CurrentKept DEF SessionInv
  <2>2. CASE raced' # raced \cup {k + 1}
    <3>1. /\ raced' = raced /\ p \notin overlapped
          /\ ~failed /\ (\A q \in Procs : ~Revoking(req[q])) => Matches(w, account)
      BY <1>1, <2>2
    <3>2. \A q \in Procs : ~Changing(q)
      BY <3>1 DEF RunsInv, AllMeet
    <3>3. \A q \in Procs : ~Revoking(req[q])
      BY <3>2 DEF Revoking, Changing
    <3>4. \A q \in Procs : req'[q].op \notin Changes
      BY <1>1, <3>2, FitNone DEF TypeOK, Changing
    <3>5. SUFFICES ASSUME ~failed
                   PROVE  \A t \in refresh' \ raced' : Matches(issued'[t].row, account)
      BY <1>1, <3>4 DEF Current, Unraced, Covered
    <3>6. Matches(w, account) /\ \A t \in Unraced : Matches(issued[t].row, account)
      BY <3>1, <3>3, <3>5 DEF SessionInv, Current
    <3>7. \A t \in refresh' \ raced' : t = k + 1 \/ t \in Unraced
      BY <1>1, <3>1 DEF Unraced
    <3>8. QED
      BY <1>2, <1>3, <1>11, <3>6, <3>7
  <2>3. QED
    BY <2>1, <2>2
<1>13. QED
  BY <1>4, <1>5, <1>6, <1>7, <1>8, <1>9, <1>12 DEF SessionInv

LEMMA SaveInv ==
    ASSUME TypeOK, SessionInv, RunsInv, LiveAreIssued, NEW p \in Procs, Save(p)
    PROVE  TypeOK' /\ SessionInv'
<1> DEFINE r == req[p]
           old == platformKey[r.pf]
<1>1. /\ At(p, "save") /\ Issue(r.pf, r.row) /\ StoreToken(p, r.pf)
      /\ refresh' = (refresh \ {old}) \cup {Fresh} /\ index' = (index \ {old}) \cup {Fresh}
      /\ raced' = IF p \in overlapped THEN raced \cup {Fresh} ELSE raced
      /\ UNCHANGED <<replay, answers>>
  BY DEF Save, Taint
<1>2. /\ Fit(r, account, Len(issued)) /\ Heads(r.todo, "save") /\ "save" \in OpSteps(r.op)
  BY <1>1, AtCall DEF SessionInv
<1>3. r.op \in Logins
  BY <1>2, StepOp
<1>4. r.pf \in Platforms /\ r.row \in Row /\ account # None /\ Busy(p) /\ ~Changing(p)
  BY <1>1, <1>2, <1>3 DEF Fit, At, Changing, Changes, Logins
<1>5. p \notin overlapped => Matches(r.row, account)
  BY <1>2 DEF SessionInv, Settled
<1> HIDE DEF r
<1>6. raced = {} => \A t \in refresh : issued[t].pf = r.pf => t = old
  BY DEF SessionInv, PerPlatform
<1>7. replay' \in [Tokens -> Tokens \cup {None}] /\ answers' \in [Tokens -> SUBSET Tokens]
  BY <1>1 DEF TypeOK
<1> HIDE DEF old
<1>8. QED
  BY <1>1, <1>4, <1>5, <1>6, <1>7, StoreInv

LEMMA RotateInv ==
    ASSUME TypeOK, SessionInv, RunsInv, LiveAreIssued, NEW p \in Procs, RotateSingleUse(p)
    PROVE  TypeOK' /\ SessionInv'
<1> DEFINE old == req[p].tok
           f == issued[old].pf
           w == issued[old].row
<1>1. /\ At(p, "rotate") /\ old \in refresh /\ Issue(f, w) /\ StoreToken(p, f)
      /\ refresh' = (refresh \ {old}) \cup {Fresh} /\ index' = (index \ {old}) \cup {Fresh}
      /\ raced' = IF p \in overlapped \/ old \in raced THEN raced \cup {Fresh} ELSE raced
      /\ replay' = [replay EXCEPT ![old] = Fresh]
      /\ answers' = [answers EXCEPT ![old] = answers[old] \cup {Fresh}]
  BY DEF RotateSingleUse, Taint
<1>2. "rotate" \in OpSteps(req[p].op)
  BY <1>1, AtCall DEF SessionInv
<1>3. Busy(p) /\ ~Changing(p)
  <2>1. req[p].op = "refresh"
    BY <1>2, StepOp
  <2>2. QED
    BY <1>1, <2>1 DEF At, Changing, Changes
<1> HIDE DEF old
<1>4. old \in 1..Len(issued) /\ account # None
  BY <1>1 DEF LiveAreIssued, SessionInv, Unregistered
<1>5. issued[old] \in [pf : Platforms, row : Row]
  BY <1>4, ItemTyped DEF TypeOK
<1>6. f \in Platforms /\ w \in Row
  BY <1>5
<1>7. raced = {} => \A t \in refresh : issued[t].pf = f => t = old
  BY <1>1 DEF SessionInv, PerPlatform
<1>8. old \notin raced /\ ~failed /\ (\A q \in Procs : ~Revoking(req[q])) => Matches(w, account)
  BY <1>1 DEF SessionInv, Current, Unraced
<1>9. replay' \in [Tokens -> Tokens \cup {None}] /\ answers' \in [Tokens -> SUBSET Tokens]
  <2>1. Fresh \in Tokens /\ old \in Tokens
    BY <1>1 DEF Issue, TypeOK
  <2>2. QED
    BY <1>1, <2>1 DEF TypeOK
<1> HIDE DEF f, w
<1>10. QED
  BY <1>1, <1>3, <1>4, <1>6, <1>7, <1>8, <1>9, StoreInv

LEMMA SessionInit == Init => TypeOK /\ SessionInv
<1> SUFFICES ASSUME Init PROVE TypeOK /\ SessionInv
  OBVIOUS
<1> DEFINE E == [pf : Platforms, row : Row]
<1>1. /\ banCached = FALSE /\ replay = [t \in Tokens |-> None] /\ req = [p \in Procs |-> NoRequest]
      /\ budget = MaxRequests /\ answers = [t \in Tokens |-> {}]
      /\ overlapped = {} /\ raced = {} /\ clash = FALSE /\ failed = FALSE
  BY DEF Init
<1>2. /\ account \in Row \cup {None} /\ refresh \in SUBSET Tokens /\ index \in SUBSET Tokens
      /\ devices \in SUBSET Platforms /\ platformKey \in [Platforms -> Tokens \cup {None}]
      /\ issued \in Seq(E) /\ Len(issued) \in 0..MaxTokens
      /\ account = None => refresh = {} /\ issued = <<>>
      /\ \A t \in refresh : Matches(issued[t].row, account) /\ platformKey[issued[t].pf] = t
  <2>1. CASE NoAccount
    <3>1. Len(<<>>) = 0 /\ <<>> \in Seq(E) /\ 0 \in 0..MaxTokens
      BY SessionsAssumption
    <3>2. QED
      BY <2>1, <3>1 DEF NoAccount
  <2>2. CASE OneSession
    <3>1. PICK f \in Platforms, w \in Passwords, a \in BOOLEAN :
        /\ account = [status |-> "active", pw |-> w, admin |-> a, role |-> "user"]
        /\ issued = <<[pf |-> f, row |-> account]>>
        /\ refresh = {1} /\ index = {1} /\ devices = {f}
        /\ platformKey = [g \in Platforms |-> IF g = f THEN 1 ELSE None]
      BY <2>2 DEF OneSession
    <3>2. account \in Row /\ account.status = "active"
      BY <3>1, SessionsAssumption DEF Row
    <3>3. account # None
      BY <3>2, SessionsAssumption
    <3> DEFINE e == [pf |-> f, row |-> account]
    <3>4. e \in E /\ e.pf = f /\ e.row = account
      BY <3>2
    <3> HIDE DEF e, E
    <3>5. <<e>> \in Seq(E) /\ Len(<<e>>) = 1 /\ <<e>>[1] = e
      BY <3>4
    <3>6. issued = <<e>>
      BY <3>1 DEF e
    <3>7. 1 \in Tokens /\ 1 \in 0..MaxTokens
      BY SessionsAssumption DEF Tokens
    <3>8. platformKey \in [Platforms -> Tokens \cup {None}] /\ platformKey[f] = 1
      BY <3>1, <3>7
    <3>9. Matches(account, account)
      BY <3>2, <3>3 DEF Matches
    <3>10. \A t \in refresh : Matches(issued[t].row, account) /\ platformKey[issued[t].pf] = t
      BY <3>1, <3>4, <3>5, <3>6, <3>8, <3>9
    <3>11. QED
      BY <3>1, <3>2, <3>3, <3>5, <3>6, <3>7, <3>8, <3>10
  <2>3. QED
    BY <2>1, <2>2 DEF Init
<1>3. TypeOK
  <2>1. req \in [Procs -> Request] /\ budget \in 0..MaxRequests
    BY <1>1, NoRequestTyped, SessionsAssumption
  <2>2. QED
    BY <1>1, <1>2, <2>1 DEF TypeOK
<1> HIDE DEF E
<1>4. \A p \in Procs : req[p] = NoRequest
  BY <1>1
<1>5. Fits /\ Settled
  BY <1>4, FitNone DEF Fits, Settled
<1>6. Unregistered /\ PerPlatform
  BY <1>1, <1>2 DEF Unregistered, PerPlatform
<1>7. Current
  BY <1>2, <1>4, FitNone DEF Current, Unraced
<1>8. FlagInv
  BY <1>1, <1>4, FitNone DEF FlagInv, Changing
<1>9. QED
  BY <1>3, <1>5, <1>6, <1>7, <1>8 DEF SessionInv

LEMMA SessionStep ==
    ASSUME TypeOK, SessionInv, LossInv, LiveAreIssued, [Next]_vars
    PROVE  TypeOK' /\ SessionInv'
<1>1. ASSUME NEW p \in Procs, Arrive(p) PROVE TypeOK' /\ SessionInv'
  BY <1>1, ArrivalInv
<1>2. ASSUME NEW p \in Procs, Handle(p) PROVE TypeOK' /\ SessionInv'
  <2>1. CASE CreateWithPhone(p)
    <3>1. CASE account = None
      BY <2>1, <3>1, CreateInv
    <3>2. CASE account # None
      <4>1. End(p) /\ account' = account
        BY <2>1, <3>2 DEF CreateWithPhone
      <4>2. QED
        BY <2>1, <4>1, AnswerInv
    <3>3. QED
      BY <3>1, <3>2
  <2>2. CASE ReadUser(p)
    <3>1. CASE End(p)
      BY <2>2, <3>1, AnswerInv
    <3>2. CASE ~End(p)
      BY <2>2, <3>2, ReadInv
    <3>3. QED
      BY <3>1, <3>2
  <2>3. CASE UpdatePassword(p)
    BY <2>3, PasswordInv
  <2>4. CASE WriteUser(p)
    BY <2>4, WriteInv
  <2>5. CASE Save(p)
    BY <2>5, SaveInv DEF LossInv
  <2>6. CASE RotateSingleUse(p)
    BY <2>6, RotateInv DEF LossInv
  <2>7. CASE GetRotationReplay(p) \/ Serve(p) \/ Fail(p)
    <3>1. End(p)
      BY <2>7 DEF GetRotationReplay, Serve, Fail
    <3>2. QED
      BY <2>7, <3>1, AnswerInv
  <2>8. CASE RotateRefused(p) \/ AuthStatusCache(p) \/ AuthStatusLookup(p)
    <3>1. CASE ~End(p)
      BY <2>8, <3>1, JumpInv
    <3>2. CASE End(p)
      <4>1. CASE RotateRefused(p)
        <5>1. End(p) => FALSE
          <6>1. At(p, "rotate") /\ req' = [req EXCEPT ![p].todo = <<"replay">>]
            BY <4>1 DEF RotateRefused
          <6>2. req[p] \in Request /\ req[p].op # "idle"
            BY <6>1 DEF TypeOK, At, Busy
          <6>3. req'[p] = [req[p] EXCEPT !.todo = <<"replay">>]
            BY <6>1 DEF TypeOK
          <6>4. req'[p].op = req[p].op
            BY <6>2, <6>3, RequestTodo DEF SameBut
          <6>5. End(p) => req'[p] = NoRequest
            BY DEF End, TypeOK
          <6>6. QED
            BY <6>2, <6>4, <6>5, NoRequestTyped
        <5>2. QED
          BY <3>2, <5>1
      <4>2. QED
        BY <2>8, <3>2, <4>1, AnswerInv
    <3>3. QED
      BY <3>1, <3>2
  <2>9. CASE RevokeReadHashes(p) \/ RevokeReadDevices(p)
    BY <2>9, FoundInv DEF LossInv
  <2>10. CASE RevokeDelete(p)
    BY <2>10, DeleteInv
  <2>11. CASE CacheBan(p) \/ DropBan(p)
    BY <2>11, FlagWriteInv
  <2>12. QED
    BY <1>2, <2>1, <2>2, <2>3, <2>4, <2>5, <2>6, <2>7, <2>8, <2>9, <2>10, <2>11 DEF Handle
<1>3. ASSUME NEW t \in Tokens, Expire(t) PROVE TypeOK' /\ SessionInv'
  BY <1>3, ExpireInv
<1>4. ASSUME (\E t \in Tokens : ExpireReplay(t)) \/ UNCHANGED vars PROVE TypeOK' /\ SessionInv'
  BY <1>4, QuietInv
<1>5. QED
  BY <1>1, <1>2, <1>3, <1>4 DEF Next

IndInv == TypeOK /\ SessionInv /\ LossInv /\ SuccessorInv

LEMMA Inductive == Spec => []IndInv
<1>1. Init => IndInv
  BY SessionInit, LossInit, SuccessorInit DEF IndInv
<1>2. IndInv /\ [Next]_vars => IndInv'
  <2> SUFFICES ASSUME IndInv, [Next]_vars PROVE IndInv'
    OBVIOUS
  <2>1. TypeOK /\ SessionInv /\ LossInv /\ SuccessorInv /\ LiveAreIssued
    BY DEF IndInv, SuccessorInv
  <2>2. TypeOK' /\ SessionInv'
    BY <2>1, SessionStep
  <2>3. LossInv' /\ SuccessorInv'
    BY <2>1, LossStep, SuccessorStep
  <2>4. QED
    BY <2>2, <2>3 DEF IndInv
<1>3. QED
  BY <1>1, <1>2, PTL DEF Spec

\* At rest every session that raced no change of the account carries its
\* present privilege and password, none is left to a banned account, and a
\* platform has one session, unless a change failed half way (RevokeUserSessions
\* after the row's write, and the two scripts that replace a platform's token).
THEOREM SoundSessions == Spec => []SessionsAreSound
<1>1. IndInv => SessionsAreSound
  <2> SUFFICES ASSUME IndInv PROVE SessionsAreSound
    OBVIOUS
  <2>1. TypeOK /\ Current /\ PerPlatform
    BY DEF IndInv, SessionInv
  <2>2. OneSessionPerPlatform
    <3>1. SUFFICES ASSUME raced = {}, NEW t \in refresh, NEW u \in refresh,
                          issued[t].pf = issued[u].pf
                   PROVE  t = u
      BY DEF OneSessionPerPlatform
    <3>2. platformKey[issued[t].pf] = t /\ platformKey[issued[u].pf] = u
      BY <2>1, <3>1 DEF PerPlatform
    <3>3. QED
      BY <3>1, <3>2
  <2>3. SessionsAreCurrent
    <3>1. SUFFICES ASSUME ~failed, \A p \in Procs : ~Changing(p), NEW t \in Unraced
                   PROVE  /\ issued[t].row.admin = account.admin
                          /\ issued[t].row.pw = account.pw
                          /\ account.status = "active"
      BY DEF SessionsAreCurrent, Unraced
    <3>2. \A p \in Procs : ~Revoking(req[p])
      BY <3>1 DEF Revoking, Changing
    <3>3. Matches(issued[t].row, account)
      BY <2>1, <3>1, <3>2 DEF Current
    <3>4. QED
      BY <3>3 DEF Matches
  <2>4. QED
    BY <2>1, <2>2, <2>3 DEF SessionsAreSound
<1>2. QED
  BY <1>1, Inductive, PTL

\* A request is served only if the account was active at some moment since it
\* arrived, and an active account is kept out by the cached flag only after two
\* changes overlapped or one failed (auth_status.go, UpdateUser and DisableUser).
THEOREM ExactBans == Spec => []BansAreExact
<1>1. IndInv => BansAreExact
  <2> SUFFICES ASSUME IndInv PROVE BansAreExact
    OBVIOUS
  <2>1. TypeOK /\ Fits /\ FlagInv
    BY DEF IndInv, SessionInv
  <2>2. BannedStaysOut
    <3>1. SUFFICES ASSUME NEW p \in Procs, At(p, "serve") PROVE req[p].open
      BY DEF BannedStaysOut
    <3>2. /\ Fit(req[p], account, Len(issued)) /\ Heads(req[p].todo, "serve")
          /\ "serve" \in OpSteps(req[p].op)
      BY <2>1, <3>1, AtCall
    <3>3. req[p].op = "request"
      BY <3>2, StepOp
    <3>4. QED
      BY <3>2, <3>3 DEF Fit
  <2>3. LockoutNeedsClash
    <3>1. SUFFICES ASSUME banCached, account.status = "active", \A p \in Procs : ~Changing(p),
                          ~clash, ~failed
                   PROVE  FALSE
      BY DEF LockoutNeedsClash
    <3>2. \E p \in Procs : Lifting(req[p])
      BY <2>1, <3>1 DEF FlagInv
    <3>3. QED
      BY <3>1, <3>2 DEF Lifting, Changing
  <2>4. QED
    BY <2>2, <2>3 DEF BansAreExact
<1>2. QED
  BY <1>1, Inductive, PTL

===============================================================================
