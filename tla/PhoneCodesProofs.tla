--------------------------- MODULE PhoneCodesProofs ---------------------------
(***************************************************************************)
(* Proofs about PhoneCodes, for any number of handlers, accounts, codes,   *)
(* days and failures, and any limits.                                      *)
(*                                                                         *)
(* Two handlers that run at the same time have disturbed the codes they    *)
(* work with.  So whoever holds an undisturbed code is alone, and what it  *)
(* found in a key is still there, but for keys that expired.               *)
(***************************************************************************)
EXTENDS PhoneCodes, FiniteSetTheorems, TLAPS

-----------------------------------------------------------------------------
(* Handlers *)

Request == [pc : Steps, send : BOOLEAN, scene : Scenes, user : Users \cup {None},
            code : 0..MaxCodes, saved : 0..MaxCodes, day : Days,
            undo : SUBSET {"code", "cooldown", "attempts"}, met : BOOLEAN]

\* Where a sender has a code, has put it under its key, has set the cooldown.
Slot   == {"reserve", "expireDay", "code", "mark", "reset", "sms", "undo", "release"}
Placed == {"mark", "reset", "sms", "undo"}
Marked == {"reset", "sms"}

\* Where a verifier has read a code, and has still to act on it.
Reading  == {"wrong", "ttl", "exhaust", "consume", "create", "bind"}
Guessing == {"ttl", "exhaust"}


\* What a handler has does not change; another may turn up beside it.
Has(q) ==
    /\ req'[q].send = req[q].send /\ req'[q].scene = req[q].scene
    /\ req'[q].code = req[q].code /\ req'[q].saved = req[q].saved
    /\ req[q].met => req'[q].met

Others(p) == /\ req' \in [Procs -> Request]
             /\ \A q \in Procs \ {p} : /\ Has(q) /\ req'[q].pc = req[q].pc
                                     /\ req'[q].day = req[q].day

\* Handler p goes on to another call, or ends; a request arrives.
Moves(p, pc) == /\ Others(p) /\ Has(p)
                /\ req'[p].pc = pc /\ req'[p].day = req[p].day
Ends(p)      == Others(p) /\ req'[p].pc = "idle" /\ ~req'[p].send
Arrives(p)   == /\ Others(p) /\ ~Busy(p) /\ req'[p].pc \in {"eligible", "limit"}
                /\ \A q \in Procs \ {p} : Busy(q) => req'[p].met /\ req'[q].met

LEMMA SetMoves ==
    ASSUME req \in [Procs -> Request], NEW p \in Procs, NEW r \in Request,
           req' = [req EXCEPT ![p] = r]
    PROVE  Others(p) /\ req'[p] = r
BY DEF Others, Has

LEMMA GotoMoves ==
    ASSUME req \in [Procs -> Request], NEW p \in Procs, NEW pc \in Steps, Goto(p, pc)
    PROVE  Moves(p, pc)
<1> DEFINE r == [req[p] EXCEPT !.pc = pc]
<1>1. r \in Request /\ r.pc = pc /\ r.send = req[p].send /\ r.scene = req[p].scene
      /\ r.code = req[p].code /\ r.saved = req[p].saved /\ r.day = req[p].day
      /\ r.met = req[p].met
  BY DEF Request
<1>2. req' = [req EXCEPT ![p] = r]
  BY DEF Goto
<1> HIDE DEF r
<1>3. req'[p] = r /\ Others(p)
  BY <1>1, <1>2, SetMoves
<1>4. QED
  BY <1>1, <1>3 DEF Moves, Has

LEMMA EndEnds ==
    ASSUME req \in [Procs -> Request], NEW p \in Procs, End(p)
    PROVE  Ends(p)
<1>1. NoRequest \in Request /\ NoRequest.pc = "idle" /\ ~NoRequest.send
  BY PhoneCodesAssumption DEF NoRequest, Request, Steps, Scenes, Days, PhoneCodesAssumption
<1>2. QED
  BY <1>1, SetMoves DEF End, Ends

LEMMA BeginArrives ==
    ASSUME req \in [Procs -> Request], NEW p \in Procs, NEW r \in Request, Begin(p, r)
    PROVE  Arrives(p)
<1> DEFINE others == {q \in Procs \ {p} : Busy(q)}
           m == [r EXCEPT !.met = (others # {})]
           n == [m EXCEPT !.pc = IF r.scene = "bind" THEN "eligible" ELSE "limit"]
           k(q) == [req[q] EXCEPT !.met = @ \/ q \in others]
<1>1. m \in Request /\ m.met = (others # {})
  BY DEF Request
<1>2. n \in Request /\ n.met = m.met /\ n.pc \in {"eligible", "limit"}
  <2> HIDE DEF m
  <2> QED
    BY <1>1 DEF Request, Steps
<1>3. ASSUME NEW q \in Procs \ {p}
      PROVE  /\ k(q) \in Request /\ k(q).met = (req[q].met \/ q \in others)
             /\ k(q).pc = req[q].pc
             /\ k(q).send = req[q].send /\ k(q).scene = req[q].scene
             /\ k(q).code = req[q].code /\ k(q).saved = req[q].saved
             /\ k(q).day = req[q].day
  <2>1. req[q] \in Request
    OBVIOUS
  <2> HIDE DEF others
  <2> QED
    BY <2>1 DEF Request
<1>4. req' = [q \in Procs |-> IF q = p THEN n ELSE k(q)] /\ ~Busy(p)
  BY Zenon DEF Begin
<1>5. \A q \in Procs \ {p} : Busy(q) => q \in others /\ others # {}
  OBVIOUS
<1> HIDE DEF n, k, others
<1>6. req' \in [Procs -> Request] /\ req'[p] = n /\ \A q \in Procs \ {p} : req'[q] = k(q)
  BY <1>2, <1>3, <1>4
<1>7. Others(p)
  BY <1>3, <1>6 DEF Others, Has
<1>8. QED
  BY <1>1, <1>2, <1>3, <1>4, <1>5, <1>6, <1>7 DEF Arrives

\* The steps that change more of a handler than its position.
Takes(p, pc) == /\ Others(p) /\ req'[p].pc = pc /\ req'[p].send = req[p].send
                 /\ req'[p].scene = req[p].scene /\ req'[p].met = req[p].met

LEMMA DrawFields ==
    ASSUME req \in [Procs -> Request], NEW p \in Procs, NEW c \in 0..MaxCodes,
           req' = [req EXCEPT ![p].pc = "reserve", ![p].code = c]
    PROVE  Takes(p, "reserve") /\ req'[p].code = c
<1> DEFINE m == [req[p] EXCEPT !.pc = "reserve"]
           n == [m EXCEPT !.code = c]
<1>1. m \in Request /\ m.pc = "reserve" /\ m.send = req[p].send /\ m.scene = req[p].scene
      /\ m.met = req[p].met
  BY DEF Request, Steps
<1>2. n \in Request /\ n.pc = m.pc /\ n.send = m.send /\ n.scene = m.scene /\ n.met = m.met
      /\ n.code = c
  <2> HIDE DEF m
  <2> QED
    BY <1>1 DEF Request
<1>3. req' = [req EXCEPT ![p] = n]
  OBVIOUS
<1> HIDE DEF m, n
<1>4. QED
  BY <1>1, <1>2, <1>3, SetMoves DEF Takes

LEMMA ReadFields ==
    ASSUME req \in [Procs -> Request], NEW p \in Procs, NEW c \in 0..MaxCodes,
           NEW pc \in Steps, req' = [req EXCEPT ![p].saved = c, ![p].pc = pc]
    PROVE  Takes(p, pc) /\ req'[p].saved = c
<1> DEFINE m == [req[p] EXCEPT !.saved = c]
           n == [m EXCEPT !.pc = pc]
<1>1. m \in Request /\ m.saved = c /\ m.send = req[p].send /\ m.scene = req[p].scene
      /\ m.met = req[p].met
  BY DEF Request
<1>2. n \in Request /\ n.saved = m.saved /\ n.send = m.send /\ n.scene = m.scene
      /\ n.met = m.met /\ n.pc = pc
  <2> HIDE DEF m
  <2> QED
    BY <1>1 DEF Request
<1>3. req' = [req EXCEPT ![p] = n]
  OBVIOUS
<1> HIDE DEF m, n
<1>4. QED
  BY <1>1, <1>2, <1>3, SetMoves DEF Takes

LEMMA ReserveFields ==
    ASSUME req \in [Procs -> Request], NEW p \in Procs, NEW d \in Days,
           NEW pc \in Steps, req' = [req EXCEPT ![p].day = d, ![p].pc = pc]
    PROVE  Takes(p, pc) /\ req'[p].code = req[p].code /\ req'[p].saved = req[p].saved
           /\ req'[p].day = d
<1> DEFINE m == [req[p] EXCEPT !.day = d]
           n == [m EXCEPT !.pc = pc]
<1>1. m \in Request /\ m.saved = req[p].saved /\ m.code = req[p].code /\ m.day = d
      /\ m.send = req[p].send /\ m.scene = req[p].scene /\ m.met = req[p].met
  BY DEF Request
<1>2. n \in Request /\ n.saved = m.saved /\ n.code = m.code /\ n.day = m.day
      /\ n.send = m.send /\ n.scene = m.scene /\ n.met = m.met /\ n.pc = pc
  <2> HIDE DEF m
  <2> QED
    BY <1>1 DEF Request
<1>3. req' = [req EXCEPT ![p] = n]
  OBVIOUS
<1> HIDE DEF m, n
<1>4. QED
  BY <1>1, <1>2, <1>3, SetMoves DEF Takes

LEMMA FailMoves ==
    ASSUME req \in [Procs -> Request], NEW p \in Procs, NEW pc \in Steps,
           NEW u \in SUBSET {"code", "cooldown", "attempts"},
           req' = [req EXCEPT ![p].pc = pc, ![p].undo = u]
    PROVE  Moves(p, pc)
<1> DEFINE m == [req[p] EXCEPT !.pc = pc]
           n == [m EXCEPT !.undo = u]
<1>1. m \in Request /\ m.pc = pc /\ m.saved = req[p].saved /\ m.code = req[p].code
      /\ m.day = req[p].day /\ m.send = req[p].send /\ m.scene = req[p].scene
      /\ m.met = req[p].met
  BY DEF Request
<1>2. n \in Request /\ n.pc = m.pc /\ n.saved = m.saved /\ n.code = m.code
      /\ n.day = m.day /\ n.send = m.send /\ n.scene = m.scene /\ n.met = m.met
  <2> HIDE DEF m
  <2> QED
    BY <1>1 DEF Request
<1>3. req' = [req EXCEPT ![p] = n]
  OBVIOUS
<1> HIDE DEF m, n
<1>4. QED
  BY <1>1, <1>2, <1>3, SetMoves DEF Moves, Has

-----------------------------------------------------------------------------
(* Who works with what *)

Typed ==
    /\ owner \in Users \cup {None}
    /\ code \in [Scenes -> Codes \cup {None}]
    /\ attempts \in [Scenes -> Nat]
    /\ attemptsFor \in [Scenes -> Codes \cup {None}]
    /\ cooldown \in BOOLEAN
    /\ day \in Days
    /\ hits \in Nat /\ hitsExpire \in BOOLEAN
    /\ generated \in 0..MaxCodes
    /\ req \in [Procs -> Request]
    /\ budget \in 0..MaxEvents /\ faults \in 0..MaxFaults
    /\ sceneOf \in [Codes -> Scenes \cup {None}]
    /\ delivered \in SUBSET Codes /\ window \in SUBSET Codes /\ gone \in SUBSET Codes
    /\ uses \in [Codes -> [Scenes -> Nat]]
    /\ wrong \in [Codes -> Nat]
    /\ disturbed \in SUBSET Codes
    /\ leak \in BOOLEAN /\ lostExpire \in BOOLEAN

\* What a handler has is a code of its scene; a sender's was not delivered.
Handler(p) ==
    /\ req[p].pc \in Slot \cup {"cooldown"} => req[p].send
    /\ req[p].pc \in Slot => /\ req[p].code \in 1..generated
                             /\ sceneOf[req[p].code] = req[p].scene
                             /\ req[p].code \notin delivered
    /\ req[p].pc \in Reading => /\ req[p].saved \in 1..generated
                                /\ sceneOf[req[p].saved] = req[p].scene

\* Two handlers at once know of each other, have disturbed what they work with,
\* and do not send the same code.
Together(p, q) ==
    Busy(p) /\ Busy(q) =>
       /\ req[p].met
       /\ req[p].pc \in Slot => req[p].code \in disturbed
       /\ req[p].pc \in Reading => req[p].saved \in disturbed
       /\ req[p].pc \in Slot /\ req[q].pc \in Slot => req[p].code # req[q].code

\* Keys hold codes of their scene; codes yet to come have no history.
Keyed ==
    /\ \A s \in Scenes : code[s] # None => code[s] \in 1..generated /\ sceneOf[code[s]] = s
    /\ delivered \subseteq 1..generated
    /\ \A c \in Codes : c > generated => wrong[c] = 0 /\ \A s \in Scenes : uses[c][s] = 0

Base ==
    /\ Typed /\ Keyed
    /\ \A p \in Procs : Handler(p)
    /\ \A p, q \in Procs : p # q => Together(p, q)

LEMMA OwnCodes ==
    ASSUME Base, NEW p \in Procs
    PROVE  /\ req[p].pc \in Slot => req[p].code \in Codes
           /\ req[p].pc \in Reading => req[p].saved \in Codes
BY PhoneCodesAssumption DEF Base, Typed, Handler, Codes, PhoneCodesAssumption

\* A handler goes on with what it has, or ends.
LEMMA GoOnKeeps ==
    ASSUME Base, NEW p \in Procs, Others(p), Busy(p),
           UNCHANGED <<generated, sceneOf>>, disturbed \subseteq disturbed',
           \/ /\ Has(p) /\ delivered' = delivered
              /\ req'[p].pc \in Slot => req[p].pc \in Slot
              /\ req'[p].pc \in Reading => req[p].pc \in Reading
              /\ req'[p].pc = "cooldown" => req[p].send
           \/ /\ req'[p].pc = "idle"
              /\ delivered' = delivered
                 \/ (req[p].pc \in Slot /\ delivered' = delivered \cup {req[p].code})
    PROVE  /\ \A q \in Procs : Handler(q)'
           /\ \A x, y \in Procs : x # y => Together(x, y)'
<1>1. \A q \in Procs \ {p} : Handler(q) /\ Together(p, q) /\ Together(q, p)
  BY DEF Base
<1>2. \A q \in Procs \ {p} : Handler(q)'
  BY <1>1 DEF Others, Has, Handler, Together, Busy, Slot, Reading
<1>3. Handler(p)'
  BY DEF Base, Handler, Has, Slot, Reading
<1>4. \A x, y \in Procs \ {p} : x # y => Together(x, y)'
  BY DEF Base, Others, Has, Together, Busy
<1>5. \A x \in Procs \ {p} : Together(x, p)' /\ Together(p, x)'
  BY <1>1 DEF Others, Has, Together, Busy, Slot, Reading
<1>6. QED
  BY <1>2, <1>3, <1>4, <1>5

\* Nobody moves.
LEMMA RestKeeps ==
    ASSUME Base, UNCHANGED <<req, generated, sceneOf, delivered>>,
           disturbed \subseteq disturbed'
    PROVE  /\ \A q \in Procs : Handler(q)'
           /\ \A x, y \in Procs : x # y => Together(x, y)'
BY DEF Base, Handler, Together, Busy

LEMMA ArriveKeeps ==
    ASSUME Base, NEW p \in Procs, Arrives(p),
           UNCHANGED <<generated, sceneOf, delivered>>,
           disturbed' = disturbed \cup UNION {Touches(q) : q \in {x \in Procs \ {p} : Busy(x)}}
    PROVE  /\ \A q \in Procs : Handler(q)'
           /\ \A x, y \in Procs : x # y => Together(x, y)'
<1>1. \A q \in Procs : Handler(q)'
  BY DEF Base, Arrives, Others, Has, Handler, Slot, Reading
<1>2. \A x, y \in Procs \ {p} : x # y => Together(x, y)'
  BY DEF Base, Arrives, Others, Has, Together, Busy
<1>3. ASSUME NEW x \in Procs \ {p}
      PROVE  Together(x, p)' /\ Together(p, x)'
  <2>1. Busy(x) => Touches(x) \subseteq disturbed'
    OBVIOUS
  <2>2. req[x].pc \in Slot => req[x].code \in Codes
    BY PhoneCodesAssumption DEF Base, Typed, Handler, Codes, PhoneCodesAssumption
  <2>3. req[x].pc \in Reading => req[x].saved \in Codes
    BY PhoneCodesAssumption DEF Base, Typed, Handler, Codes, PhoneCodesAssumption
  <2>4. QED
    BY <2>1, <2>2, <2>3 DEF Arrives, Others, Has, Together, Busy, Slot, Reading, Touches
<1>4. QED
  BY <1>1, <1>2, <1>3

\* Handler p goes on with what it has, or gives up, and sends nothing.
Walks(p) ==
    /\ Others(p) /\ Busy(p)
    /\ UNCHANGED <<generated, sceneOf, delivered>>
    /\ disturbed \subseteq disturbed'
    /\ \/ /\ Has(p)
          /\ req'[p].pc \in Slot => req[p].pc \in Slot
          /\ req'[p].pc \in Reading => req[p].pc \in Reading
          /\ req'[p].pc = "cooldown" => req[p].send
       \/ req'[p].pc = "idle"

LEMMA GoesOn ==
    ASSUME req \in [Procs -> Request], NEW p \in Procs, NEW pc \in Steps, Busy(p),
           UNCHANGED <<generated, sceneOf, delivered>>, disturbed \subseteq disturbed',
           pc \in Slot => req[p].pc \in Slot, pc \in Reading => req[p].pc \in Reading,
           pc = "cooldown" => req[p].send,
           Goto(p, pc)
    PROVE  Walks(p) /\ Moves(p, pc)
BY GotoMoves DEF Walks, Moves

LEMMA GivesUp ==
    ASSUME req \in [Procs -> Request], NEW p \in Procs, Busy(p),
           UNCHANGED <<generated, sceneOf, delivered>>, disturbed \subseteq disturbed',
           End(p)
    PROVE  Walks(p) /\ Ends(p)
BY EndEnds DEF Walks, Ends

Walk(p) ==
    \/ Limit(p) \/ ExpireHits(p) \/ CheckEligibility(p)
    \/ ReserveDailySendSlot(p) \/ ExpireDay(p) \/ SetCode(p) \/ SetCooldown(p)
    \/ ResetAttempts(p) \/ SendFails(p) \/ Undo(p) \/ UndoFails(p) \/ Release(p)
    \/ WrongGuess(p) \/ AttemptsTTL(p) \/ Exhaust(p) \/ Consume(p)
    \/ CreateWithPhone(p) \/ UpdatePhone(p) \/ Fault(p)

LEMMA WalkWalks ==
    ASSUME req \in [Procs -> Request], day \in Days, NEW p \in Procs, Walk(p)
    PROVE  Walks(p)
<1> USE DEF At, Busy, Slot, Reading, Steps, history, bounds
<1>1. CASE Limit(p)
  BY <1>1, GoesOn, GivesUp DEF Limit
<1>2. CASE ExpireHits(p)
  BY <1>2, GoesOn, GivesUp DEF ExpireHits
<1>3. CASE CheckEligibility(p)
  BY <1>3, GoesOn, GivesUp DEF CheckEligibility
<1>4. CASE ReserveDailySendSlot(p)
  <2> DEFINE pc == IF daily[day] + 1 = 1 THEN "expireDay"
                   ELSE IF daily[day] + 1 > DailyLimit THEN "release" ELSE "code"
  <2>1. pc \in Steps /\ pc \in Slot
    OBVIOUS
  <2>2. req' = [req EXCEPT ![p].day = day, ![p].pc = pc]
    BY <1>4 DEF ReserveDailySendSlot
  <2> HIDE DEF pc
  <2>3. Takes(p, pc) /\ req'[p].code = req[p].code /\ req'[p].saved = req[p].saved
    BY <2>1, <2>2, ReserveFields
  <2>4. req[p].pc = "reserve" /\ UNCHANGED <<generated, sceneOf, delivered, disturbed>>
    BY <1>4 DEF ReserveDailySendSlot
  <2>5. QED
    BY <2>1, <2>3, <2>4 DEF Walks, Takes, Has
<1>5. CASE ExpireDay(p)
  BY <1>5, GoesOn, GivesUp DEF ExpireDay
<1>6. CASE SetCode(p)
  BY <1>6, GoesOn, GivesUp DEF SetCode
<1>7. CASE SetCooldown(p)
  BY <1>7, GoesOn, GivesUp DEF SetCooldown
<1>8. CASE ResetAttempts(p)
  BY <1>8, GoesOn, GivesUp DEF ResetAttempts
<1>9. CASE SendFails(p)
  <2>1. /\ OnError(req[p].pc).pc \in {"release", "undo"}
        /\ OnError(req[p].pc).undo \in SUBSET {"code", "cooldown", "attempts"}
    BY <1>9 DEF SendFails, OnError
  <2>2. Moves(p, OnError(req[p].pc).pc)
    BY <1>9, <2>1, FailMoves DEF SendFails
  <2>3. QED
    BY <1>9, <2>1, <2>2 DEF SendFails, Moves, Walks
<1>10. CASE Undo(p)
  BY <1>10, GoesOn, GivesUp DEF Undo
<1>11. CASE UndoFails(p)
  BY <1>11, GoesOn, GivesUp DEF UndoFails
<1>12. CASE Release(p)
  BY <1>12, GoesOn, GivesUp DEF Release
<1>13. CASE WrongGuess(p)
  BY <1>13, GoesOn, GivesUp DEF WrongGuess
<1>14. CASE AttemptsTTL(p)
  BY <1>14, GoesOn, GivesUp DEF AttemptsTTL
<1>15. CASE Exhaust(p)
  BY <1>15, GoesOn, GivesUp DEF Exhaust
<1>16. CASE Consume(p)
  BY <1>16, GoesOn, GivesUp DEF Consume
<1>17. CASE CreateWithPhone(p)
  BY <1>17, GoesOn, GivesUp DEF CreateWithPhone
<1>18. CASE UpdatePhone(p)
  BY <1>18, GoesOn, GivesUp DEF UpdatePhone
<1>19. CASE Fault(p)
  BY <1>19, GoesOn, GivesUp DEF Fault
<1>20. QED
  BY <1>1, <1>2, <1>3, <1>4, <1>5, <1>6, <1>7, <1>8, <1>9, <1>10, <1>11, <1>12, <1>13,
     <1>14, <1>15, <1>16, <1>17, <1>18, <1>19 DEF Walk

\* A walk leaves keys and history of their types.
LEMMA WalkTypes ==
    ASSUME Base, NEW p \in Procs, Walk(p), req' \in [Procs -> Request]
    PROVE  Typed'
<1>0. /\ Typed
      /\ req[p] \in Request /\ req[p].scene \in Scenes /\ req[p].user \in Users \cup {None}
      /\ req[p].pc \in Slot => req[p].code \in Codes
      /\ req[p].pc \in Reading => req[p].saved \in Codes
  BY OwnCodes DEF Base, Typed, Request
<1>a. \A s \in Scenes : code[s] \in Codes \cup {None}
  BY DEF Base, Typed
<1>b. faults > 0 => faults - 1 \in 0..MaxFaults
  BY PhoneCodesAssumption DEF Base, Typed, PhoneCodesAssumption
<1> USE <1>0 DEF Typed, At, Busy, history, keys, bounds, Slot, Reading, DropAttempts
<1>1. CASE Limit(p)
  BY <1>1 DEF Limit
<1>2. CASE ExpireHits(p)
  BY <1>2 DEF ExpireHits
<1>3. CASE CheckEligibility(p)
  BY <1>3 DEF CheckEligibility
<1>4. CASE ReserveDailySendSlot(p)
  BY <1>4 DEF ReserveDailySendSlot
<1>5. CASE ExpireDay(p)
  BY <1>5 DEF ExpireDay
<1>6. CASE SetCode(p)
  BY <1>a, <1>6 DEF SetCode
<1>7. CASE SetCooldown(p)
  BY <1>7 DEF SetCooldown
<1>8. CASE ResetAttempts(p)
  BY <1>8 DEF ResetAttempts
<1>9. CASE SendFails(p)
  <2>1. faults' \in 0..MaxFaults
    BY <1>9, <1>b DEF SendFails
  <2>2. UNCHANGED <<owner, keys, day, generated, budget, history>>
    BY <1>9 DEF SendFails
  <2>3. QED
    BY <2>1, <2>2 DEF Request
<1>10. CASE Undo(p)
  <2>1. cooldown' \in BOOLEAN
    BY <1>10, Zenon DEF Undo
  <2>2. /\ attempts' \in [Scenes -> Nat]
        /\ attemptsFor' \in [Scenes -> Codes \cup {None}]
        /\ code' \in [Scenes -> Codes \cup {None}]
    <3>1. \/ DropAttempts(req[p].scene)
          \/ UNCHANGED <<attempts, attemptsFor>>
      BY <1>10, Zenon DEF Undo
    <3>2. code' = [code EXCEPT ![req[p].scene] = None]
      BY <1>10 DEF Undo
    <3>3. code' \in [Scenes -> Codes \cup {None}]
      BY <3>2
    <3>4. attempts' \in [Scenes -> Nat]
      BY <3>1
    <3>5. attemptsFor' \in [Scenes -> Codes \cup {None}]
      BY <3>1
    <3>6. QED
      BY <3>3, <3>4, <3>5
  <2>3. UNCHANGED <<owner, daily, hits, hitsExpire, bounds, history>>
    BY <1>10 DEF Undo
  <2>4. QED
    BY <2>1, <2>2, <2>3
<1>11. CASE UndoFails(p)
  BY <1>11 DEF UndoFails, Touches
<1>12. CASE Release(p)
  BY <1>12 DEF Release
<1>13. CASE WrongGuess(p)
  BY <1>13 DEF WrongGuess
<1>14. CASE AttemptsTTL(p)
  BY <1>a, <1>14 DEF AttemptsTTL
<1>15. CASE Exhaust(p)
  BY <1>15 DEF Exhaust
<1>16. CASE Consume(p)
  BY <1>16 DEF Consume
<1>17. CASE CreateWithPhone(p)
  BY <1>17 DEF CreateWithPhone
<1>18. CASE UpdatePhone(p)
  BY <1>18 DEF UpdatePhone
<1>19. CASE Fault(p)
  BY <1>b, <1>19 DEF Fault, Touches
<1>20. QED
  BY <1>1, <1>2, <1>3, <1>4, <1>5, <1>6, <1>7, <1>8, <1>9, <1>10, <1>11, <1>12, <1>13,
     <1>14, <1>15, <1>16, <1>17, <1>18, <1>19 DEF Walk

\* What a walk puts under a key is its own code; what it counts, the one it read.
LEMMA WalkKeyed ==
    ASSUME Base, NEW p \in Procs, Walk(p)
    PROVE  Keyed'
<1> USE PhoneCodesAssumption DEF PhoneCodesAssumption, Base, Typed, Keyed, At, Busy,
        history, keys, bounds, Codes, Handler, Slot, Reading
<1>0. Handler(p) /\ req[p] \in Request /\ req[p].scene \in Scenes
  BY DEF Request
<1>1. CASE SetCode(p)
  <2>1. /\ req[p].pc = "code" /\ code' = [code EXCEPT ![req[p].scene] = req[p].code]
        /\ UNCHANGED <<generated, sceneOf, delivered, wrong, uses>>
    BY <1>1 DEF SetCode
  <2>2. req[p].code \in 1..generated /\ sceneOf[req[p].code] = req[p].scene
    BY <1>0, <2>1
  <2>3. \A s \in Scenes : code'[s] = IF s = req[p].scene THEN req[p].code ELSE code[s]
    BY <1>0, <2>1
  <2>4. \A s \in Scenes : code'[s] # None => code'[s] \in 1..generated /\ sceneOf[code'[s]] = s
    BY <2>2, <2>3
  <2>5. QED
    BY <2>1, <2>4
<1>2. CASE Undo(p)
  <2>1. /\ code' = [code EXCEPT ![req[p].scene] = None]
        /\ UNCHANGED <<generated, sceneOf, delivered, wrong, uses>>
    BY <1>2 DEF Undo
  <2>2. \A s \in Scenes : code'[s] = None \/ code'[s] = code[s]
    BY <2>1
  <2>3. QED
    BY <2>1, <2>2
<1>3. CASE WrongGuess(p)
  <2>1. /\ req[p].pc = "wrong" /\ UNCHANGED <<generated, sceneOf, delivered, code, uses>>
        /\ wrong' = [wrong EXCEPT ![req[p].saved] = @ + 1]
    BY <1>3 DEF WrongGuess
  <2>2. req[p].saved \in 1..generated
    BY <1>0, <2>1 DEF Handler
  <2>3. \A c \in Codes : c > generated => wrong'[c] = wrong[c]
    BY <2>1, <2>2
  <2>4. QED
    BY <2>1, <2>3
<1>4. CASE Exhaust(p)
  BY <1>0, <1>4 DEF Exhaust
<1>5. CASE Consume(p)
  BY <1>0, <1>5 DEF Consume
<1>6. CASE ~(SetCode(p) \/ Undo(p) \/ WrongGuess(p) \/ Exhaust(p) \/ Consume(p))
  <2>1. UNCHANGED <<code, generated, sceneOf, delivered, wrong, uses>>
    BY <1>6 DEF Walk, Limit, ExpireHits, CheckEligibility, ReserveDailySendSlot, ExpireDay,
                SetCooldown, ResetAttempts, SendFails, UndoFails, Release, AttemptsTTL,
                CreateWithPhone, UpdatePhone, Fault
  <2>2. QED
    BY <2>1
<1>7. QED
  BY <1>1, <1>2, <1>3, <1>4, <1>5, <1>6

LEMMA WalkKeeps ==
    ASSUME Base, NEW p \in Procs, Walk(p)
    PROVE  Base' /\ Walks(p)
<1>1. Walks(p)
  BY WalkWalks DEF Base, Typed
<1>2. Typed' /\ Keyed'
  BY <1>1, WalkTypes, WalkKeyed DEF Walks, Others
<1>3. QED
  BY <1>1, <1>2, GoOnKeeps DEF Walks, Base

\* A request arrives; those that run see it, and disturb what they work with.
Meets(p) == disturbed' = disturbed \cup
                UNION {Touches(q) : q \in {x \in Procs \ {p} : Busy(x)}}

LEMMA ArrivalKeeps ==
    ASSUME Base, NEW p \in Procs, Arrive(p)
    PROVE  Base' /\ Arrives(p) /\ Meets(p)
<1>1. PICK r \in Request : Begin(p, r)
  <2>0. /\ NoRequest \in Request /\ Presented \subseteq 0..MaxCodes
        /\ \A u \in Users : u \in Users \cup {None}
    BY PhoneCodesAssumption DEF NoRequest, Request, Steps, Scenes, Days, Presented, Base,
       Typed, Codes, PhoneCodesAssumption
  <2>1. ASSUME NEW s \in {"register", "login"}
        PROVE  [NoRequest EXCEPT !.send = TRUE, !.scene = s] \in Request
    BY <2>0 DEF NoRequest, Request, Steps, Scenes
  <2>2. ASSUME NEW u \in Users
        PROVE  [NoRequest EXCEPT !.send = TRUE, !.scene = "bind", !.user = u] \in Request
    BY <2>0 DEF NoRequest, Request, Steps, Scenes
  <2>3. ASSUME NEW u \in Users, NEW c \in Presented
        PROVE  /\ [NoRequest EXCEPT !.scene = "register", !.user = u, !.code = c] \in Request
               /\ [NoRequest EXCEPT !.scene = "bind", !.user = u, !.code = c] \in Request
    BY <2>0 DEF NoRequest, Request, Steps, Scenes
  <2>4. ASSUME NEW c \in Presented
        PROVE  [NoRequest EXCEPT !.code = c] \in Request
    BY <2>0 DEF NoRequest, Request, Steps, Scenes
  <2>5. QED
    BY <2>1, <2>2, <2>3, <2>4 DEF Arrive, SendAuthCode, SendPhoneVerificationCode,
       RegisterByPhone, LoginByCode, VerifyPhoneCode
<1>2. Arrives(p)
  BY <1>1, BeginArrives DEF Base, Typed
<1>3. /\ Meets(p)
      /\ budget > 0 /\ budget' = budget - 1
      /\ UNCHANGED <<owner, code, attempts, attemptsFor, cooldown, hits, hitsExpire, day,
                     generated, faults, sceneOf, delivered, window, gone, uses, wrong, leak,
                     lostExpire>>
  BY <1>1 DEF Begin, Meets, keys
<1>4. budget' \in 0..MaxEvents
  BY <1>3, PhoneCodesAssumption DEF Base, Typed, PhoneCodesAssumption
<1>5. disturbed' \in SUBSET Codes
  BY <1>3 DEF Meets, Touches, Base, Typed
<1>6. req' \in [Procs -> Request]
  BY <1>2 DEF Arrives, Others
<1>7. Typed'
  BY <1>3, <1>4, <1>5, <1>6 DEF Base, Typed
<1>8. Keyed'
  BY <1>3 DEF Base, Keyed
<1>9. QED
  BY <1>2, <1>3, <1>7, <1>8, ArriveKeeps DEF Base, Meets

\* A code is drawn: a new one, disturbed if another handler has been seen.
Draws(p) ==
    /\ Others(p) /\ req[p].pc = "cooldown" /\ ~cooldown /\ req'[p].pc = "reserve"
    /\ req'[p].scene = req[p].scene /\ req'[p].send = req[p].send /\ req'[p].met = req[p].met
    /\ req'[p].code = generated' /\ generated' = generated + 1
    /\ generated' \in Codes
    /\ sceneOf' = [sceneOf EXCEPT ![generated'] = req[p].scene]
    /\ disturbed' = IF req[p].met THEN disturbed \cup {generated'} ELSE disturbed
    /\ UNCHANGED <<code, attempts, attemptsFor, cooldown, daily, holds, delivered,
                   window, gone, uses, wrong>>

LEMMA DrawKeeps ==
    ASSUME Base, NEW p \in Procs, CheckCooldown(p)
    PROVE  Base' /\ (Draws(p) \/ (Walks(p) /\ Ends(p) /\ cooldown
                                  /\ UNCHANGED <<keys, bounds, history>>))
<1> USE DEF keys, bounds, history
<1>1. CASE cooldown
  <2>1. End(p) /\ UNCHANGED <<owner, keys, bounds, history>> /\ Busy(p)
    BY <1>1 DEF CheckCooldown, At, Busy
  <2>2. Walks(p) /\ Ends(p) /\ req' \in [Procs -> Request]
    BY <2>1, GivesUp DEF Base, Typed, Walks, Others
  <2>3. Typed' /\ Keyed'
    BY <2>1, <2>2 DEF Base, Typed, Keyed
  <2>4. QED
    BY <1>1, <2>1, <2>2, <2>3, GoOnKeeps DEF Base, Walks
<1>2. CASE ~cooldown
  <2>0. generated' \in Codes /\ generated' \in 0..MaxCodes /\ generated' = generated + 1
        /\ generated \in Nat
    BY <1>2, PhoneCodesAssumption DEF CheckCooldown, Base, Typed, Codes, PhoneCodesAssumption
  <2>1. Takes(p, "reserve") /\ req'[p].code = generated'
    BY <1>2, <2>0, DrawFields DEF CheckCooldown, Base, Typed
  <2>2. Draws(p)
    BY <1>2, <2>0, <2>1 DEF CheckCooldown, Draws, Takes, At
  <2>3. Typed'
    <3>1. disturbed' \in SUBSET Codes /\ sceneOf' \in [Codes -> Scenes \cup {None}]
          /\ req' \in [Procs -> Request]
      BY <2>0, <2>2 DEF Draws, Others, Base, Typed, Request
    <3>2. UNCHANGED <<owner, keys, day, budget, faults, delivered, window, gone, uses, wrong,
                      leak, lostExpire>>
      BY DEF CheckCooldown
    <3>3. QED
      BY <2>0, <3>1, <3>2 DEF Base, Typed
  <2>4. \A c \in 1..generated : c \in 1..generated' /\ sceneOf'[c] = sceneOf[c] /\ c # generated'
    BY <2>0, <2>2 DEF Draws, Base, Typed, Codes
  <2>5. Keyed'
    <3>1. \A s \in Scenes : code[s] # None => code[s] \in 1..generated' /\ sceneOf'[code[s]] = s
      BY <2>4 DEF Base, Keyed
    <3>2. delivered \subseteq 1..generated'
      BY <2>4 DEF Base, Keyed
    <3>3. \A c \in Codes : c > generated' => c > generated
      BY <2>0 DEF Codes
    <3>4. QED
      BY <2>2, <3>1, <3>2, <3>3 DEF Draws, Base, Keyed
  <2>6. Handler(p)'
    <3>1. sceneOf'[generated'] = req[p].scene /\ generated' \in 1..generated'
      BY <2>0, <2>2 DEF Draws, Base, Typed
    <3>2. req[p].send
      BY <2>2 DEF Draws, Base, Handler
    <3>3. generated' \notin delivered
      BY <2>0 DEF Base, Keyed
    <3>4. QED
      BY <2>2, <3>1, <3>2, <3>3 DEF Draws, Handler, Slot, Reading
  <2>7. \A q \in Procs \ {p} : Handler(q)'
    BY <2>2, <2>4 DEF Draws, Others, Has, Base, Handler, Slot, Reading
  <2>8. \A x, y \in Procs \ {p} : x # y => Together(x, y)'
    BY <2>2 DEF Draws, Others, Has, Base, Together, Busy
  <2>9. ASSUME NEW x \in Procs \ {p}
        PROVE  Together(x, p)' /\ Together(p, x)'
    <3>1. Together(x, p) /\ Together(p, x) /\ Handler(x) /\ Busy(p)
      BY <2>2 DEF Base, Draws, Busy
    <3>2. req[x].pc \in Slot => req[x].code # generated'
      BY <2>4, <3>1 DEF Handler
    <3>3. QED
      BY <2>2, <3>1, <3>2 DEF Draws, Others, Has, Together, Busy, Slot, Reading
  <2>10. QED
    BY <2>2, <2>3, <2>5, <2>6, <2>7, <2>8, <2>9 DEF Base
<1>3. QED
  BY <1>1, <1>2

\* A code is read, and disturbed if another handler has been seen.
Reads(p) ==
    LET c == code[req[p].scene] IN
    /\ Others(p) /\ req[p].pc = "get" /\ c \in Codes
    /\ req'[p].pc \in {"wrong", "bind", "consume"}
    /\ req'[p].scene = req[p].scene /\ req'[p].send = req[p].send /\ req'[p].met = req[p].met
    /\ req'[p].saved = c
    /\ disturbed' = IF req[p].met THEN disturbed \cup {c} ELSE disturbed
    /\ UNCHANGED <<keys, generated, sceneOf, holds, delivered, window, gone, uses, wrong>>

LEMMA ReadKeeps ==
    ASSUME Base, NEW p \in Procs, GetCode(p)
    PROVE  Base' /\ (Reads(p) \/ (Walks(p) /\ Ends(p) /\ UNCHANGED <<keys, bounds, history>>))
<1> DEFINE c == code[req[p].scene]
<1>0. c \in Codes \cup {None} /\ req[p].pc = "get" /\ Busy(p)
      /\ UNCHANGED <<owner, keys, bounds, sceneOf, holds, delivered, window, gone, uses,
                     wrong, leak, lostExpire>>
      /\ disturbed' = IF req[p].met /\ c # None THEN disturbed \cup {c} ELSE disturbed
  BY DEF GetCode, At, Base, Typed, Request, Busy
<1>1. CASE c = None
  <2>1. End(p) /\ UNCHANGED <<owner, keys, bounds, history>>
    BY <1>0, <1>1 DEF GetCode, history
  <2>2. Walks(p) /\ Ends(p) /\ req' \in [Procs -> Request]
    BY <1>0, <2>1, GivesUp DEF Base, Typed, Walks, Others, bounds, history
  <2>3. Typed' /\ Keyed'
    BY <2>1, <2>2 DEF Base, Typed, Keyed, keys, bounds, history
  <2>4. QED
    BY <2>1, <2>2, <2>3, GoOnKeeps DEF Base, Walks
<1>2. CASE c # None
  <2> DEFINE pc == IF c # req[p].code THEN "wrong"
                   ELSE IF req[p].scene = "bind" THEN "bind" ELSE "consume"
  <2>0. c \in Codes /\ c \in 0..MaxCodes /\ pc \in Steps /\ pc \in {"wrong", "bind", "consume"}
    BY <1>0, <1>2, PhoneCodesAssumption DEF Codes, Steps, PhoneCodesAssumption
  <2>1. req' = [req EXCEPT ![p].saved = c, ![p].pc = pc]
    BY <1>2 DEF GetCode
  <2> HIDE DEF pc
  <2>2. Takes(p, pc) /\ req'[p].saved = c
    <3> HIDE DEF c
    <3> QED
      BY <2>0, <2>1, ReadFields DEF Base, Typed
  <2>3. Reads(p)
    BY <1>0, <1>2, <2>0, <2>2 DEF Reads, Takes, bounds
  <2>4. Typed'
    <3>1. disturbed' \in SUBSET Codes /\ req' \in [Procs -> Request]
      BY <2>0, <2>3 DEF Reads, Others, Base, Typed
    <3>2. QED
      BY <1>0, <3>1 DEF Base, Typed, keys, bounds
  <2>5. Keyed'
    BY <1>0 DEF Base, Keyed, keys, bounds
  <2>6. Handler(p)'
    <3>1. c \in 1..generated /\ sceneOf[c] = req[p].scene
      BY <1>2 DEF Base, Keyed, Typed, Request
    <3>2. UNCHANGED <<generated, sceneOf>>
      BY <2>3 DEF Reads
    <3>3. QED
      BY <2>3, <3>1, <3>2 DEF Reads, Handler, Slot, Reading
  <2>7. \A q \in Procs \ {p} : Handler(q)'
    BY <2>3 DEF Reads, Others, Has, Base, Handler, Slot, Reading
  <2>8. \A x, y \in Procs \ {p} : x # y => Together(x, y)'
    BY <2>3 DEF Reads, Others, Has, Base, Together, Busy
  <2>9. ASSUME NEW x \in Procs \ {p}
        PROVE  Together(x, p)' /\ Together(p, x)'
    <3>1. Together(x, p) /\ Together(p, x)
      BY DEF Base
    <3>2. QED
      BY <1>0, <2>3, <3>1 DEF Reads, Others, Has, Together, Busy, Slot, Reading
  <2>10. QED
    BY <2>3, <2>4, <2>5, <2>6, <2>7, <2>8, <2>9 DEF Base
<1>3. QED
  BY <1>1, <1>2

\* The gateway takes a sender's code.
Delivers(p) ==
    /\ Ends(p) /\ req[p].pc = "sms"
    /\ delivered' = delivered \cup {req[p].code}
    /\ UNCHANGED <<keys, generated, sceneOf, holds, window, gone, uses, wrong, disturbed>>

LEMMA DeliverKeeps ==
    ASSUME Base, NEW p \in Procs, SendSMS(p)
    PROVE  Base' /\ Delivers(p)
<1>1. /\ End(p) /\ req[p].pc = "sms" /\ delivered' = delivered \cup {req[p].code}
      /\ UNCHANGED <<owner, keys, bounds, sceneOf, holds, window, gone, uses, wrong,
                     disturbed, leak, lostExpire>>
  BY DEF SendSMS, At
<1>2. Ends(p)
  BY <1>1, EndEnds DEF Base, Typed
<1>3. req[p].code \in Codes /\ req[p].code \in 1..generated
  BY <1>1, OwnCodes DEF Base, Handler, Slot
<1>4. Delivers(p)
  BY <1>1, <1>2 DEF Delivers, bounds
<1>5. Typed'
  BY <1>1, <1>2, <1>3 DEF Base, Typed, keys, bounds, Ends, Others
<1>6. Keyed'
  BY <1>1, <1>3 DEF Base, Keyed, keys, bounds
<1>7. QED
  <2>1. Busy(p) /\ req[p].pc \in Slot /\ Others(p) /\ req'[p].pc = "idle"
        /\ UNCHANGED <<generated, sceneOf, disturbed>>
    BY <1>1, <1>2 DEF Busy, Slot, Ends, bounds
  <2>2. QED
    BY <1>1, <1>4, <1>5, <1>6, <2>1, GoOnKeeps DEF Base

\* Keys expire, days pass and numbers move while nobody moves.
Passes ==
    \/ \E s \in Scenes : ExpireCode(s) \/ ExpireAttempts(s)
    \/ ExpireCooldown \/ WindowEnds \/ Midnight \/ MoveAway

LEMMA PassKeeps ==
    ASSUME Base, Passes
    PROVE  Base'
<1>1. UNCHANGED <<req, generated, sceneOf, delivered, disturbed, wrong, uses>>
      /\ \A s \in Scenes : code'[s] \in {code[s], None}
  BY DEF Passes, ExpireCode, ExpireAttempts, ExpireCooldown, WindowEnds, Midnight, MoveAway,
         bounds, history, keys, Base, Typed
<1>2. Keyed'
  BY <1>1 DEF Base, Keyed
<1>3. Typed'
  <2> USE DEF Base, Typed, keys, bounds, history, Days
  <2>1. ASSUME NEW s \in Scenes, ExpireCode(s)
        PROVE  Typed'
    BY <2>1 DEF ExpireCode
  <2>2. ASSUME NEW s \in Scenes, ExpireAttempts(s)
        PROVE  Typed'
    BY <2>2 DEF ExpireAttempts, DropAttempts
  <2>3. CASE ExpireCooldown
    BY <2>3 DEF ExpireCooldown
  <2>6. CASE WindowEnds
    BY <2>6 DEF WindowEnds
  <2>4. CASE Midnight
    BY <2>4, PhoneCodesAssumption DEF Midnight, PhoneCodesAssumption
  <2>5. CASE MoveAway
    BY <2>5, PhoneCodesAssumption DEF MoveAway, PhoneCodesAssumption
  <2>7. QED
    BY <2>1, <2>2, <2>3, <2>4, <2>5, <2>6 DEF Passes
<1>4. QED
  BY <1>1, <1>2, <1>3, RestKeeps DEF Base

LEMMA BaseInit ==
    ASSUME Init
    PROVE  Base
<1>1. PICK n \in {0, 1} :
         /\ generated = n /\ n \in 0..MaxCodes
         /\ delivered \in SUBSET Codes /\ delivered \subseteq 1..n /\ window \in SUBSET Codes
         /\ code \in [Scenes -> Codes \cup {None}]
         /\ sceneOf \in [Codes -> Scenes \cup {None}]
         /\ \A s \in Scenes : code[s] # None => code[s] = 1 /\ n = 1 /\ sceneOf[1] = s
         /\ cooldown \in BOOLEAN
  <2>0. 0 \in 0..MaxCodes /\ 1 \in 0..MaxCodes /\ 1 \in Codes /\ None # 1
    BY PhoneCodesAssumption DEF Codes, PhoneCodesAssumption
  <2>1. CASE NoCode
    <3>1. delivered = {} /\ window = {} /\ generated = 0 /\ cooldown = FALSE
          /\ code = [s \in Scenes |-> None] /\ sceneOf = [c \in Codes |-> None]
      BY <2>1 DEF NoCode
    <3>2. QED
      BY <2>0, <3>1
  <2>2. CASE OneCode
    <3>1. PICK s \in Scenes :
            /\ code = [[t \in Scenes |-> None] EXCEPT ![s] = 1]
            /\ sceneOf = [[c \in Codes |-> None] EXCEPT ![1] = s]
            /\ delivered = {1} /\ window = {1} /\ generated = 1 /\ cooldown = TRUE
      BY <2>2 DEF OneCode
    <3>2. QED
      BY <2>0, <3>1
  <2>3. QED
    BY <2>1, <2>2 DEF Init
<1>2. NoRequest \in Request /\ NoRequest.pc = "idle"
  BY PhoneCodesAssumption DEF NoRequest, Request, Steps, Scenes, Days, PhoneCodesAssumption
<1>3. req \in [Procs -> Request] /\ \A p \in Procs : req[p].pc = "idle"
  BY <1>2 DEF Init
<1>4. Typed
  <2>1. /\ attempts \in [Scenes -> Nat] /\ attemptsFor \in [Scenes -> Codes \cup {None}]
        /\ owner \in Users \cup {None} /\ hits \in Nat /\ hitsExpire \in BOOLEAN
        /\ gone \in SUBSET Codes /\ disturbed \in SUBSET Codes
        /\ leak \in BOOLEAN /\ lostExpire \in BOOLEAN
    BY DEF Init
  <2>2. uses \in [Codes -> [Scenes -> Nat]] /\ wrong \in [Codes -> Nat]
    BY DEF Init
  <2>3. day \in Days /\ budget \in 0..MaxEvents /\ faults \in 0..MaxFaults
    BY PhoneCodesAssumption DEF Init, Days, PhoneCodesAssumption
  <2>4. QED
    BY <1>1, <1>3, <2>1, <2>2, <2>3 DEF Typed
<1>5. Keyed
  BY <1>1 DEF Init, Keyed
<1>6. \A p \in Procs : Handler(p)
  BY <1>3 DEF Handler, Slot, Reading
<1>7. \A p, q \in Procs : p # q => Together(p, q)
  BY <1>3 DEF Together, Busy
<1>8. QED
  BY <1>4, <1>5, <1>6, <1>7 DEF Base

LEMMA Cases ==
    ASSUME Next
    PROVE  \/ \E p \in Procs : \/ Arrive(p) \/ Walk(p) \/ CheckCooldown(p) \/ GetCode(p)
                               \/ SendSMS(p)
           \/ Passes
BY DEF Next, Walk, Send, Verify, Passes

LEMMA BaseStep ==
    ASSUME Base, [Next]_vars
    PROVE  Base'
<1>1. CASE UNCHANGED vars
  BY <1>1 DEF vars, keys, bounds, history, Base, Typed, Keyed, Handler, Together, Busy
<1>2. CASE Next
  BY <1>2, Cases, ArrivalKeeps, WalkKeeps, DrawKeeps, ReadKeeps, DeliverKeeps, PassKeeps
<1>3. QED
  BY <1>1, <1>2

THEOREM Handlers == Spec => []Base
<1>1. Init => Base
  BY BaseInit
<1>2. Base /\ [Next]_vars => Base'
  BY BaseStep
<1>3. QED
  BY <1>1, <1>2, PTL DEF Spec

-----------------------------------------------------------------------------
(* The rate limiter *)

LEMMA LimiterStep ==
    ASSUME Base, StuckLimiterLostExpire, [Next]_vars
    PROVE  StuckLimiterLostExpire'
<1> USE DEF StuckLimiterLostExpire, At
<1>0. hits \in Nat /\ req \in [Procs -> Request]
  BY DEF Base, Typed
<1>1. ASSUME NEW p \in Procs, Limit(p)
      PROVE  StuckLimiterLostExpire'
  <2>1. Others(p) /\ req[p].pc = "limit"
    BY <1>1, WalkKeeps DEF Limit, Walk, Walks
  <2>2. hits' = hits + 1 /\ UNCHANGED <<hitsExpire, lostExpire>>
    BY <1>1 DEF Limit, history
  <2>3. CASE hits = 0
    <3>1. Goto(p, "expireHits")
      BY <2>2, <2>3, <1>1 DEF Limit
    <3>2. req'[p].pc = "expireHits"
      BY <3>1, <1>0, GotoMoves DEF Moves, Steps
    <3>3. QED
      BY <3>2
  <2>4. CASE hits > 0
    BY <2>1, <2>2, <2>4 DEF Others
  <2>5. QED
    BY <1>0, <2>3, <2>4
<1>2. ASSUME NEW p \in Procs, ExpireHits(p)
      PROVE  StuckLimiterLostExpire'
  BY <1>0, <1>2 DEF ExpireHits
<1>3. ASSUME NEW p \in Procs, Fault(p)
      PROVE  StuckLimiterLostExpire'
  <2>1. Others(p)
    BY <1>3, WalkKeeps DEF Walk, Walks
  <2>2. UNCHANGED <<hits, hitsExpire>> /\ (lostExpire' = (lostExpire \/ req[p].pc = "expireHits"))
    BY <1>3 DEF Fault, keys
  <2>3. QED
    BY <2>1, <2>2 DEF Others
<1>4. ASSUME UNCHANGED <<hits, hitsExpire, lostExpire>>,
             \A q \in Procs : req[q].pc = "expireHits" => req'[q].pc = "expireHits"
      PROVE  StuckLimiterLostExpire'
  BY <1>4
<1>5. ASSUME NEW p \in Procs, Walk(p), ~Limit(p), ~ExpireHits(p), ~Fault(p)
      PROVE  StuckLimiterLostExpire'
  <2>1. Others(p) /\ req[p].pc # "expireHits"
    BY <1>5, WalkKeeps DEF Walks, Walk, At, CheckEligibility, ReserveDailySendSlot, ExpireDay,
       SetCode, SetCooldown, ResetAttempts, SendFails, Undo, UndoFails, Release, WrongGuess,
       AttemptsTTL, Exhaust, Consume, CreateWithPhone, UpdatePhone
  <2>2. UNCHANGED <<hits, hitsExpire, lostExpire>>
    BY <1>5 DEF Walk, keys, bounds, history, CheckEligibility, ReserveDailySendSlot, ExpireDay,
       SetCode, SetCooldown, ResetAttempts, SendFails, Undo, UndoFails, Release, WrongGuess,
       AttemptsTTL, Exhaust, Consume, CreateWithPhone, UpdatePhone
  <2>3. QED
    BY <1>4, <2>1, <2>2 DEF Others
<1>6. ASSUME NEW p \in Procs, Arrive(p)
      PROVE  StuckLimiterLostExpire'
  <2>1. Arrives(p)
    BY <1>6, ArrivalKeeps
  <2>2. UNCHANGED <<hits, hitsExpire, lostExpire>>
    BY <1>6 DEF Arrive, SendAuthCode, SendPhoneVerificationCode, RegisterByPhone, LoginByCode,
       VerifyPhoneCode, Begin, keys
  <2>3. QED
    BY <1>4, <2>1, <2>2 DEF Arrives, Others, Busy
<1>7. ASSUME NEW p \in Procs, CheckCooldown(p) \/ GetCode(p) \/ SendSMS(p)
      PROVE  StuckLimiterLostExpire'
  <2>1. Others(p)
    BY <1>7, DrawKeeps, ReadKeeps, DeliverKeeps DEF Draws, Reads, Delivers, Walks, Ends
  <2>2. UNCHANGED <<hits, hitsExpire, lostExpire>> /\ req[p].pc # "expireHits"
    BY <1>7 DEF CheckCooldown, GetCode, SendSMS, keys
  <2>3. QED
    BY <1>4, <2>1, <2>2 DEF Others
<1>8. CASE Passes
  <2>1. CASE WindowEnds
    BY <2>1 DEF WindowEnds
  <2>2. CASE ~WindowEnds
    <3>1. UNCHANGED <<hits, hitsExpire, lostExpire, req>>
      BY <1>8, <2>2 DEF Passes, ExpireCode, ExpireAttempts, ExpireCooldown, Midnight, MoveAway,
         keys, bounds, history
    <3>2. QED
      BY <1>4, <3>1
  <2>3. QED
    BY <2>1, <2>2
<1>9. CASE UNCHANGED vars
  BY <1>9 DEF vars, keys, history
<1>10. QED
  BY <1>1, <1>2, <1>3, <1>5, <1>6, <1>7, <1>8, <1>9, Cases

-----------------------------------------------------------------------------
(* The daily quota *)

\* Where a sender has a slot of the day; where its message may still go out.
Holding == Slot \ {"reserve"}
Sending == {"expireDay", "code", "mark", "reset", "sms"}

Sender(c, d, S) == \E p \in Procs : req[p].pc \in S /\ req[p].code = c /\ req[p].day = d

\* The slots of a day that have a message, or may still get one.
Spent(d) == {c \in holds[d] : c \in delivered \/ Sender(c, d, Sending)}

Holder(p) ==
    /\ req[p].pc = "reserve" => \A d \in Days : req[p].code \notin holds[d]
    /\ req[p].pc \in Holding => req[p].code \in holds[req[p].day]

\* The counters count the slots; a slot is spent, or somebody has to give it back.
Quota ==
    /\ holds \in [Days -> SUBSET Codes] /\ daily \in [Days -> Nat]
    /\ \A d \in Days : daily[d] = Cardinality(holds[d]) /\ holds[d] \subseteq 1..generated
    /\ \A d, e \in Days : d # e => holds[d] \cap holds[e] = {}
    /\ \A p \in Procs : Holder(p)
    /\ \A d \in Days : Cardinality(Spent(d)) <= DailyLimit
    /\ ~leak => \A d \in Days : \A c \in holds[d] : c \in delivered \/ Sender(c, d, Holding)

LEMMA FiniteSlots ==
    ASSUME NEW S, S \subseteq Codes
    PROVE  IsFiniteSet(S) /\ Cardinality(S) \in Nat
<1>1. IsFiniteSet(Codes)
  BY FS_Interval, PhoneCodesAssumption DEF Codes, PhoneCodesAssumption
<1>2. IsFiniteSet(S)
  BY <1>1, FS_Subset
<1>3. QED
  BY <1>2, FS_CardinalityType

LEMMA FewerSlots ==
    ASSUME NEW S, NEW R, S \subseteq Codes, R \subseteq S
    PROVE  Cardinality(R) <= Cardinality(S)
<1>1. IsFiniteSet(S)
  BY FiniteSlots
<1>2. QED
  BY <1>1, FS_Subset

\* A handler keeps its slot, or has none.
LEMMA SlotsRest ==
    ASSUME Base, Quota, NEW p \in Procs, Others(p),
           UNCHANGED <<daily, holds>>,
           generated' \in Nat, generated <= generated',
           leak => leak',
           delivered' = delivered \/ (req[p].pc = "sms" /\ delivered' = delivered \cup {req[p].code}),
           \/ /\ Has(p) /\ req'[p].day = req[p].day
              /\ req'[p].pc = "reserve" => req[p].pc = "reserve"
              /\ req'[p].pc \in Holding <=> req[p].pc \in Holding
              /\ req'[p].pc \in Sending => req[p].pc \in Sending
           \/ /\ req'[p].pc \notin Slot
              /\ req[p].pc \in Holding => leak' \/ req[p].code \in delivered'
           \/ req'[p].pc = "reserve" /\ req[p].pc \notin Slot
              /\ req'[p].code \notin 1..generated
    PROVE  Quota'
<1> USE DEF Holding
<1>1. \A q \in Procs : Holder(q)'
  <2>1. \A q \in Procs \ {p} : Holder(q)'
    BY DEF Quota, Holder, Others, Has
  <2>2. Holder(p)'
    BY DEF Quota, Holder, Others, Has, Slot
  <2>3. QED
    BY <2>1, <2>2
<1>2. ASSUME NEW d \in Days
      PROVE  Cardinality(Spent(d)') <= DailyLimit
  <2>1. ASSUME NEW c, Sender(c, d, Sending)'
        PROVE  Sender(c, d, Sending)
    <3>1. PICK q \in Procs : req'[q].pc \in Sending /\ req'[q].code = c /\ req'[q].day = d
      BY <2>1 DEF Sender
    <3>2. req[q].pc \in Sending /\ req[q].code = c /\ req[q].day = d
      BY <3>1 DEF Others, Has, Sending, Slot
    <3>3. QED
      BY <3>2 DEF Sender
  <2>2. ASSUME NEW c \in holds[d], c \in delivered'
        PROVE  c \in Spent(d)
    <3>1. CASE c \in delivered
      BY <3>1 DEF Spent
    <3>2. CASE c \notin delivered
      <4>1. req[p].pc = "sms" /\ c = req[p].code
        BY <2>2, <3>2
      <4>2. req[p].pc \in Sending /\ req[p].pc \in Holding /\ req[p].day \in Days
        BY <4>1 DEF Sending, Slot, Base, Typed, Request
      <4>3. req[p].day = d
        BY <4>1, <4>2 DEF Quota, Holder
      <4>4. QED
        BY <4>1, <4>2, <4>3 DEF Spent, Sender
    <3>3. QED
      BY <3>1, <3>2
  <2>3. Spent(d)' \subseteq Spent(d)
    BY <2>1, <2>2 DEF Spent
  <2>4. Spent(d) \subseteq Codes /\ Cardinality(Spent(d)) <= DailyLimit /\ DailyLimit \in Nat
    BY PhoneCodesAssumption DEF Quota, Spent, PhoneCodesAssumption
  <2>5. Cardinality(Spent(d)') <= Cardinality(Spent(d))
    BY <2>3, <2>4, FewerSlots
  <2>6. Cardinality(Spent(d)') \in Nat /\ Cardinality(Spent(d)) \in Nat
    BY <2>3, <2>4, FiniteSlots
  <2>7. QED
    BY <2>4, <2>5, <2>6
<1>3. ASSUME ~leak', NEW d \in Days, NEW c \in holds[d]
      PROVE  c \in delivered' \/ Sender(c, d, Holding)'
  <2>1. c \in delivered \/ Sender(c, d, Holding)
    BY <1>3 DEF Quota
  <2>2. CASE c \in delivered
    BY <2>2
  <2>3. CASE Sender(c, d, Holding)
    <3>1. PICK q \in Procs : req[q].pc \in Holding /\ req[q].code = c /\ req[q].day = d
      BY <2>3 DEF Sender
    <3>2. CASE q # p
      BY <3>1, <3>2 DEF Sender, Others, Has
    <3>3. CASE q = p
      BY <1>3, <3>1, <3>3 DEF Sender, Others, Has, Slot
    <3>4. QED
      BY <3>2, <3>3
  <2>4. QED
    BY <2>1, <2>2, <2>3
<1>4. holds' = holds /\ daily' = daily /\ 1..generated \subseteq 1..generated'
  BY DEF Base, Typed
<1>5. QED
  BY <1>1, <1>2, <1>3, <1>4 DEF Quota

LEMMA ReserveQuota ==
    ASSUME Base, Quota, NEW p \in Procs, ReserveDailySendSlot(p)
    PROVE  Quota'
<1> DEFINE c == req[p].code
           n == daily[day]
           pc == IF n + 1 = 1 THEN "expireDay"
                 ELSE IF n + 1 > DailyLimit THEN "release" ELSE "code"
<1>0. /\ req[p].pc = "reserve" /\ day \in Days /\ n \in Nat
      /\ UNCHANGED <<generated, delivered, leak>>
      /\ daily' = [daily EXCEPT ![day] = n + 1]
      /\ holds' = [holds EXCEPT ![day] = @ \cup {c}]
      /\ req' = [req EXCEPT ![p].day = day, ![p].pc = pc]
      /\ DailyLimit \in Nat \ {0} /\ req \in [Procs -> Request] /\ pc \in Steps
  BY PhoneCodesAssumption DEF ReserveDailySendSlot, At, bounds, Base, Typed, Quota, Steps,
     PhoneCodesAssumption
<1>1. c \in Codes /\ c \in 1..generated /\ c \notin delivered
  BY <1>0, OwnCodes DEF Base, Handler, Slot
<1>2. \A d \in Days : c \notin holds[d]
  BY <1>0 DEF Quota, Holder
<1>3. \A q \in Procs \ {p} : req[q].pc \in Slot => req[q].code # c
  BY <1>0 DEF Base, Together, Busy, Slot
<1>4. /\ Others(p) /\ req'[p].pc = pc /\ req'[p].code = c /\ req'[p].day = day
  <2> HIDE DEF pc
  <2>1. Takes(p, pc) /\ req'[p].code = req[p].code /\ req'[p].day = day
    BY <1>0, ReserveFields
  <2>2. QED
    BY <2>1 DEF Takes
<1>5. /\ holds' \in [Days -> SUBSET Codes] /\ daily' \in [Days -> Nat]
      /\ holds'[day] = holds[day] \cup {c} /\ daily'[day] = n + 1
      /\ \A d \in Days : d # day => holds'[d] = holds[d] /\ daily'[d] = daily[d]
      /\ \A d \in Days : holds[d] \subseteq Codes /\ holds[d] \subseteq 1..generated
                         /\ daily[d] = Cardinality(holds[d])
      /\ \A d, e \in Days : d # e => holds[d] \cap holds[e] = {}
  <2>1. /\ holds \in [Days -> SUBSET Codes] /\ daily \in [Days -> Nat]
        /\ \A d \in Days : holds[d] \subseteq 1..generated /\ daily[d] = Cardinality(holds[d])
        /\ \A d, e \in Days : d # e => holds[d] \cap holds[e] = {}
    BY <1>0 DEF Quota
  <2>2. day \in Days /\ n \in Nat /\ n = daily[day]
    BY <1>0, <2>1
  <2>3. holds' \in [Days -> SUBSET Codes] /\ holds'[day] = holds[day] \cup {c}
        /\ \A d \in Days : d # day => holds'[d] = holds[d]
    BY <1>0, <1>1, <2>1, <2>2
  <2>4. daily' \in [Days -> Nat] /\ daily'[day] = n + 1
        /\ \A d \in Days : d # day => daily'[d] = daily[d]
    BY <1>0, <2>1, <2>2
  <2>5. QED
    BY <2>1, <2>3, <2>4
<1>6. Cardinality(holds'[day]) = n + 1
  <2>1. IsFiniteSet(holds[day])
    BY <1>0, <1>5, FiniteSlots
  <2>2. c \notin holds[day]
    BY <1>0, <1>2
  <2>3. Cardinality(holds[day] \cup {c}) = Cardinality(holds[day]) + 1
    BY <2>1, <2>2, FS_AddElement
  <2>4. Cardinality(holds[day]) = n /\ holds'[day] = holds[day] \cup {c}
    BY <1>0, <1>5
  <2>5. QED
    BY <2>3, <2>4
<1>7. pc \in {"expireDay", "code", "release"} /\ (pc # "release" => n + 1 <= DailyLimit)
  BY <1>0
<1> HIDE DEF c, n, pc
<1>8. \A q \in Procs : Holder(q)'
  <2>1. \A q \in Procs \ {p} : Holder(q)'
    <3>1. ASSUME NEW q \in Procs \ {p}
          PROVE  /\ Holder(q) /\ req[q].day \in Days
                 /\ req'[q].pc = req[q].pc /\ req'[q].code = req[q].code
                 /\ req'[q].day = req[q].day
                 /\ req[q].pc \in Slot => req[q].code # c
      BY <1>3, <1>4 DEF Quota, Others, Has, Base, Typed, Request
    <3>2. \A d \in Days : \A x \in Codes : x # c => (x \in holds'[d] <=> x \in holds[d])
      BY <1>5
    <3>3. ASSUME NEW q \in Procs \ {p}
          PROVE  req[q].pc \in Slot => req[q].code \in Codes
      BY OwnCodes
    <3>4. QED
      BY <3>1, <3>2, <3>3 DEF Holder, Holding, Slot
  <2>2. Holder(p)'
    BY <1>4, <1>5, <1>7 DEF Holder
  <2>3. QED
    BY <2>1, <2>2
<1>9. ASSUME NEW d \in Days
      PROVE  Cardinality(Spent(d)') <= DailyLimit
  <2>0. Spent(d) \subseteq Codes /\ Cardinality(Spent(d)) <= DailyLimit
    BY DEF Quota, Spent
  <2>1. CASE d # day \/ pc = "release"
    <3>1. ASSUME NEW x, Sender(x, d, Sending)'
          PROVE  Sender(x, d, Sending) /\ (d = day => x # c)
      <4>1. PICK q \in Procs : req'[q].pc \in Sending /\ req'[q].code = x /\ req'[q].day = d
        BY <3>1 DEF Sender
      <4>2. q # p
        BY <1>4, <2>1, <4>1 DEF Sending
      <4>3. req[q].pc \in Sending /\ req[q].code = x /\ req[q].day = d
        BY <1>4, <4>1, <4>2 DEF Others, Has
      <4>4. QED
        BY <1>3, <4>2, <4>3 DEF Sender, Sending, Slot
    <3>2. Spent(d)' \subseteq Spent(d)
      BY <1>0, <1>1, <1>5, <3>1 DEF Spent
    <3>3. Cardinality(Spent(d)') <= Cardinality(Spent(d))
      BY <2>0, <3>2, FewerSlots
    <3>4. Cardinality(Spent(d)') \in Nat /\ Cardinality(Spent(d)) \in Nat
      BY <2>0, <3>2, FiniteSlots
    <3>5. QED
      BY <1>0, <2>0, <3>3, <3>4
  <2>2. CASE d = day /\ pc # "release"
    <3>1. Spent(d)' \subseteq holds'[day] /\ holds'[day] \subseteq Codes
      BY <1>0, <1>5, <2>2 DEF Spent
    <3>2. Cardinality(Spent(d)') <= Cardinality(holds'[day])
      BY <3>1, FewerSlots
    <3>3. Cardinality(Spent(d)') \in Nat
      BY <3>1, FiniteSlots
    <3>4. QED
      BY <1>0, <1>6, <1>7, <2>2, <3>2, <3>3
  <2>3. QED
    BY <2>1, <2>2
<1>10. ASSUME ~leak', NEW d \in Days, NEW x \in holds'[d]
       PROVE  x \in delivered' \/ Sender(x, d, Holding)'
  <2>1. CASE x \in holds[d] /\ x \in delivered
    BY <1>0, <2>1
  <2>2. CASE x \in holds[d] /\ Sender(x, d, Holding)
    <3>1. PICK q \in Procs : req[q].pc \in Holding /\ req[q].code = x /\ req[q].day = d
      BY <2>2 DEF Sender
    <3>2. q # p
      BY <1>0, <3>1 DEF Holding
    <3>3. QED
      BY <1>4, <3>1, <3>2 DEF Sender, Others, Has
  <2>3. CASE x = c /\ d = day
    <3>1. req'[p].pc \in Holding
      BY <1>4, <1>7 DEF Holding, Slot
    <3>2. QED
      BY <1>4, <2>3, <3>1 DEF Sender
  <2>4. QED
    BY <1>0, <1>5, <1>10, <2>1, <2>2, <2>3 DEF Quota
<1>11. \A d \in Days : daily'[d] = Cardinality(holds'[d]) /\ holds'[d] \subseteq 1..generated'
  BY <1>0, <1>1, <1>5, <1>6
<1>12. \A d, e \in Days : d # e => holds'[d] \cap holds'[e] = {}
  BY <1>2, <1>5
<1>13. QED
  BY <1>5, <1>8, <1>9, <1>10, <1>11, <1>12 DEF Quota

LEMMA ReleaseQuota ==
    ASSUME Base, Quota, NEW p \in Procs, Release(p)
    PROVE  Quota'
<1> DEFINE c == req[p].code
           e == req[p].day
<1>0. /\ req[p].pc = "release" /\ e \in Days /\ req \in [Procs -> Request] /\ End(p)
      /\ UNCHANGED <<generated, delivered, leak>>
      /\ daily' = [daily EXCEPT ![e] = @ - 1]
      /\ holds' = [holds EXCEPT ![e] = @ \ {c}]
  BY DEF Release, At, bounds, Base, Typed, Request
<1>1. Others(p) /\ req'[p].pc = "idle"
  BY <1>0, EndEnds DEF Ends
<1>2. c \in holds[e]
  BY <1>0 DEF Quota, Holder, Holding, Slot
<1>3. \A q \in Procs \ {p} : req[q].pc \in Slot => req[q].code # c
  BY <1>0 DEF Base, Together, Busy, Slot
<1>5. /\ holds' \in [Days -> SUBSET Codes]
      /\ holds'[e] = holds[e] \ {c} /\ daily'[e] = daily[e] - 1
      /\ \A d \in Days : d # e => holds'[d] = holds[d] /\ daily'[d] = daily[d]
      /\ \A d \in Days : holds[d] \subseteq Codes /\ holds[d] \subseteq 1..generated
                         /\ daily[d] = Cardinality(holds[d]) /\ daily[d] \in Nat
      /\ \A d, f \in Days : d # f => holds[d] \cap holds[f] = {}
      /\ daily' = [d \in Days |-> daily'[d]]
  BY <1>0 DEF Quota
<1>6. Cardinality(holds'[e]) = daily'[e] /\ daily'[e] \in Nat
  <2>1. IsFiniteSet(holds[e])
    BY <1>0, <1>5, FiniteSlots
  <2>2. Cardinality(holds'[e]) = daily'[e]
    <3>1. Cardinality(holds[e] \ {c}) = Cardinality(holds[e]) - 1
      BY <1>2, <2>1, FS_RemoveElement
    <3>2. Cardinality(holds[e]) = daily[e] /\ holds'[e] = holds[e] \ {c}
          /\ daily'[e] = daily[e] - 1
      BY <1>0, <1>5
    <3>3. QED
      BY <3>1, <3>2
  <2>3. Cardinality(holds'[e]) \in Nat
    BY <1>0, <1>5, FiniteSlots
  <2>4. QED
    BY <2>2, <2>3
<1> HIDE DEF c, e
<1>8. \A q \in Procs : Holder(q)'
  <2>1. \A q \in Procs \ {p} : Holder(q)'
    <3>1. ASSUME NEW q \in Procs \ {p}
          PROVE  /\ Holder(q) /\ req[q].day \in Days
                 /\ req'[q].pc = req[q].pc /\ req'[q].code = req[q].code
                 /\ req'[q].day = req[q].day
                 /\ req[q].pc \in Slot => req[q].code # c
      BY <1>3, <1>1 DEF Quota, Others, Has, Base, Typed, Request
    <3>2. \A d \in Days : \A x \in Codes : x # c => (x \in holds'[d] <=> x \in holds[d])
      BY <1>5
    <3>3. ASSUME NEW q \in Procs \ {p}
          PROVE  req[q].pc \in Slot => req[q].code \in Codes
      BY OwnCodes
    <3>4. QED
      BY <3>1, <3>2, <3>3 DEF Holder, Holding, Slot
  <2>2. Holder(p)'
    BY <1>1 DEF Holder, Holding, Slot
  <2>3. QED
    BY <2>1, <2>2
<1>9. ASSUME NEW d \in Days
      PROVE  Cardinality(Spent(d)') <= DailyLimit
  <2>0. Spent(d) \subseteq Codes /\ Cardinality(Spent(d)) <= DailyLimit
    BY DEF Quota, Spent
  <2>1. ASSUME NEW x, Sender(x, d, Sending)'
        PROVE  Sender(x, d, Sending)
    BY <1>1, <2>1 DEF Sender, Sending, Others, Has
  <2>2. Spent(d)' \subseteq Spent(d)
    BY <1>0, <1>5, <2>1 DEF Spent
  <2>3. Cardinality(Spent(d)') <= Cardinality(Spent(d))
    BY <2>0, <2>2, FewerSlots
  <2>4. Cardinality(Spent(d)') \in Nat /\ Cardinality(Spent(d)) \in Nat
    BY <2>0, <2>2, FiniteSlots
  <2>5. QED
    BY <2>0, <2>3, <2>4, PhoneCodesAssumption DEF PhoneCodesAssumption
<1>10. ASSUME ~leak', NEW d \in Days, NEW x \in holds'[d]
       PROVE  x \in delivered' \/ Sender(x, d, Holding)'
  <2>1. x \in holds[d] /\ x # c
    BY <1>0, <1>2, <1>5, <1>10
  <2>2. CASE x \in delivered
    BY <1>0, <2>2
  <2>3. CASE Sender(x, d, Holding)
    <3>1. PICK q \in Procs : req[q].pc \in Holding /\ req[q].code = x /\ req[q].day = d
      BY <2>3 DEF Sender
    <3>2. q # p
      BY <2>1, <3>1 DEF c
    <3>3. QED
      BY <1>1, <3>1, <3>2 DEF Sender, Others, Has
  <2>4. QED
    BY <1>0, <1>10, <2>1, <2>2, <2>3 DEF Quota
<1>11. \A d \in Days : daily'[d] = Cardinality(holds'[d]) /\ holds'[d] \subseteq 1..generated'
  BY <1>0, <1>5, <1>6
<1>12. \A d, f \in Days : d # f => holds'[d] \cap holds'[f] = {}
  BY <1>5
<1>13. daily' \in [Days -> Nat]
  BY <1>5, <1>6
<1>14. QED
  BY <1>5, <1>8, <1>9, <1>10, <1>11, <1>12, <1>13 DEF Quota

\* A sender goes from one call to the next, and keeps its slot.
LEMMA SenderSteps ==
    ASSUME Base, NEW p \in Procs,
           \/ ExpireDay(p) \/ SetCode(p) \/ SetCooldown(p) \/ ResetAttempts(p)
           \/ SendFails(p) \/ Undo(p) \/ UndoFails(p)
    PROVE  \E pc \in Holding : /\ Moves(p, pc) /\ req[p].pc \in Holding
                               /\ pc \in Sending => req[p].pc \in Sending
                               /\ UNCHANGED <<daily, holds, leak>>
<1> USE DEF At, Holding, Sending, Slot, Steps, history, keys
<1>0. req \in [Procs -> Request]
  BY DEF Base, Typed
<1>1. CASE ExpireDay(p)
  BY <1>0, <1>1, GotoMoves DEF ExpireDay
<1>2. CASE SetCode(p)
  BY <1>0, <1>2, GotoMoves DEF SetCode
<1>3. CASE SetCooldown(p)
  BY <1>0, <1>3, GotoMoves DEF SetCooldown
<1>4. CASE ResetAttempts(p)
  BY <1>0, <1>4, GotoMoves DEF ResetAttempts
<1>5. CASE SendFails(p)
  <2>1. /\ OnError(req[p].pc).pc \in {"release", "undo"}
        /\ OnError(req[p].pc).undo \in SUBSET {"code", "cooldown", "attempts"}
    BY <1>5 DEF SendFails, OnError
  <2>2. Moves(p, OnError(req[p].pc).pc)
    BY <1>0, <1>5, <2>1, FailMoves DEF SendFails
  <2>3. QED
    BY <1>5, <2>1, <2>2 DEF SendFails
<1>6. CASE Undo(p)
  BY <1>0, <1>6, GotoMoves DEF Undo
<1>7. CASE UndoFails(p)
  BY <1>0, <1>7, GotoMoves DEF UndoFails
<1>8. QED
  BY <1>1, <1>2, <1>3, <1>4, <1>5, <1>6, <1>7

LEMMA WalkQuota ==
    ASSUME Base, Quota, NEW p \in Procs, Walk(p)
    PROVE  Quota'
<1> DEFINE Sends == \/ ExpireDay(p) \/ SetCode(p) \/ SetCooldown(p) \/ ResetAttempts(p)
                    \/ SendFails(p) \/ Undo(p) \/ UndoFails(p)
<1>0. /\ Others(p) /\ UNCHANGED <<delivered, generated>> /\ generated \in Nat
      /\ req[p].pc \notin Slot => req'[p].pc \notin Slot
  BY WalkKeeps DEF Walks, Has, Base, Typed, Slot
<1>1. CASE ReserveDailySendSlot(p) \/ Release(p)
  BY <1>1, ReserveQuota, ReleaseQuota
<1>2. CASE Sends
  <2>1. PICK pc \in Holding : /\ Moves(p, pc) /\ req[p].pc \in Holding
                              /\ pc \in Sending => req[p].pc \in Sending
                              /\ UNCHANGED <<daily, holds, leak>>
    BY <1>2, SenderSteps
  <2>2. /\ Has(p) /\ req'[p].day = req[p].day
        /\ req'[p].pc = "reserve" => req[p].pc = "reserve"
        /\ req'[p].pc \in Holding <=> req[p].pc \in Holding
        /\ req'[p].pc \in Sending => req[p].pc \in Sending
    BY <2>1 DEF Moves, Holding
  <2>3. QED
    BY <1>0, <2>1, <2>2, SlotsRest
<1>3. CASE Fault(p)
  <2>1. UNCHANGED <<daily, holds>> /\ (leak => leak')
    BY <1>3 DEF Fault, keys
  <2>2. req[p].pc \in Slot => req'[p].pc = "idle"
    <3>1. CASE End(p)
      BY <3>1, EndEnds DEF Ends, Base, Typed
    <3>2. CASE ~End(p)
      BY <1>3, <3>2 DEF Fault, Slot
    <3>3. QED
      BY <3>1, <3>2
  <2>3. req[p].pc \in Holding => leak'
    <3>1. ASSUME req[p].pc \in Holding
          PROVE  req[p].send /\ req[p].code \in holds[req[p].day]
      BY <3>1 DEF Quota, Holder, Base, Handler, Holding
    <3>2. leak' = (leak \/ (req[p].send /\ req[p].code \in holds[req[p].day]))
      BY <1>3 DEF Fault
    <3>3. QED
      BY <3>1, <3>2
  <2>4. req'[p].pc \notin Slot
    BY <1>0, <2>2 DEF Slot
  <2>5. QED
    BY <1>0, <2>1, <2>3, <2>4, SlotsRest
<1>4. CASE \/ Limit(p) \/ ExpireHits(p) \/ CheckEligibility(p) \/ WrongGuess(p)
           \/ AttemptsTTL(p) \/ Exhaust(p) \/ Consume(p) \/ CreateWithPhone(p) \/ UpdatePhone(p)
  <2>1. UNCHANGED <<daily, holds, leak>> /\ req[p].pc \notin Slot
    BY <1>4 DEF Limit, ExpireHits, CheckEligibility, WrongGuess, AttemptsTTL, Exhaust,
       Consume, CreateWithPhone, UpdatePhone, At, Slot, keys, history
  <2>2. QED
    BY <1>0, <2>1, SlotsRest DEF Holding
<1>5. QED
  BY <1>1, <1>2, <1>3, <1>4 DEF Walk

LEMMA QuotaStep ==
    ASSUME Base, Quota, [Next]_vars
    PROVE  Quota'
<1>0. generated \in Nat /\ req \in [Procs -> Request]
  BY DEF Base, Typed
<1>1. ASSUME UNCHANGED <<daily, holds, req, delivered, generated, leak>>
      PROVE  Quota'
  BY <1>1 DEF Quota, Holder, Spent, Sender
<1>2. ASSUME NEW p \in Procs, Arrive(p)
      PROVE  Quota'
  <2>1. Arrives(p)
    BY <1>2, ArrivalKeeps
  <2>2. UNCHANGED <<daily, holds, delivered, generated, leak>>
    BY <1>2 DEF Arrive, SendAuthCode, SendPhoneVerificationCode, RegisterByPhone, LoginByCode,
       VerifyPhoneCode, Begin, keys
  <2>3. Others(p) /\ req'[p].pc \notin Slot /\ req[p].pc \notin Holding
    BY <2>1 DEF Arrives, Busy, Slot, Holding
  <2>4. QED
    BY <1>0, <2>2, <2>3, SlotsRest
<1>3. ASSUME NEW p \in Procs, CheckCooldown(p)
      PROVE  Quota'
  <2>1. CASE Draws(p)
    <3>1. UNCHANGED leak /\ req[p].pc \notin Slot
      BY <1>3 DEF CheckCooldown, At, Slot
    <3>2. QED
      BY <1>0, <2>1, <3>1, SlotsRest DEF Draws
  <2>2. CASE Walks(p) /\ Ends(p) /\ UNCHANGED <<keys, bounds, history>>
    <3>1. req[p].pc \notin Slot
      BY <1>3 DEF CheckCooldown, At, Slot
    <3>2. QED
      BY <1>0, <2>2, <3>1, SlotsRest DEF Ends, Slot, Holding, keys, bounds, history
  <2>3. QED
    BY <1>3, <2>1, <2>2, DrawKeeps
<1>4. ASSUME NEW p \in Procs, GetCode(p)
      PROVE  Quota'
  <2>1. Others(p) /\ req'[p].pc \notin Slot
    BY <1>4, ReadKeeps DEF Reads, Walks, Ends, Slot
  <2>2. req[p].pc \notin Slot /\ UNCHANGED <<daily, holds, delivered, generated, leak>>
    BY <1>4 DEF GetCode, At, Slot, keys, bounds
  <2>3. QED
    BY <1>0, <2>1, <2>2, SlotsRest DEF Holding
<1>5. ASSUME NEW p \in Procs, SendSMS(p)
      PROVE  Quota'
  <2>1. Others(p) /\ req'[p].pc \notin Slot /\ delivered' = delivered \cup {req[p].code}
        /\ req[p].pc = "sms" /\ UNCHANGED <<daily, holds, generated>>
    BY <1>5, DeliverKeeps DEF Delivers, Ends, Slot, keys
  <2>2. UNCHANGED leak
    BY <1>5 DEF SendSMS
  <2>3. QED
    BY <1>0, <2>1, <2>2, SlotsRest
<1>6. CASE Passes
  BY <1>1, <1>6 DEF Passes, ExpireCode, ExpireAttempts, ExpireCooldown, WindowEnds, Midnight,
     MoveAway, keys, bounds, history
<1>7. CASE UNCHANGED vars
  BY <1>1, <1>7 DEF vars, keys, bounds, history
<1>8. QED
  BY <1>2, <1>3, <1>4, <1>5, <1>6, <1>7, WalkQuota, Cases

LEMMA QuotaInit ==
    ASSUME Init
    PROVE  Quota
<1>0. Base /\ \A p \in Procs : req[p].pc = "idle"
  BY BaseInit DEF Init, NoRequest
<1>1. 0 \in Days /\ 1 \in Codes /\ DailyLimit \in Nat \ {0}
  BY PhoneCodesAssumption DEF Days, Codes, PhoneCodesAssumption
<1>2. Cardinality({}) = 0 /\ Cardinality({1}) = 1
  BY FS_EmptySet, FS_Singleton
<1>3. \A p \in Procs : Holder(p)
  BY <1>0 DEF Holder, Holding, Slot
<1>4. /\ holds \in [Days -> SUBSET Codes] /\ daily \in [Days -> Nat]
      /\ \A d \in Days : /\ daily[d] = Cardinality(holds[d]) /\ daily[d] <= DailyLimit
                         /\ holds[d] \subseteq 1..generated /\ holds[d] \subseteq delivered
      /\ \A d, e \in Days : d # e => holds[d] \cap holds[e] = {}
  <2>1. CASE NoCode
    BY <1>1, <1>2, <2>1 DEF NoCode
  <2>2. CASE OneCode
    <3>1. /\ daily = [[d \in Days |-> 0] EXCEPT ![0] = 1]
          /\ holds = [[d \in Days |-> {}] EXCEPT ![0] = {1}]
          /\ generated = 1 /\ delivered = {1}
      BY <2>2 DEF OneCode
    <3>2. holds \in [Days -> SUBSET Codes] /\ daily \in [Days -> Nat]
      BY <1>1, <3>1
    <3>3. daily[0] = 1 /\ holds[0] = {1}
      BY <1>1, <3>1
    <3>4. \A d \in Days : d # 0 => daily[d] = 0 /\ holds[d] = {}
      BY <1>1, <3>1
    <3>5. ASSUME NEW d \in Days
          PROVE  /\ daily[d] = Cardinality(holds[d]) /\ daily[d] <= DailyLimit
                 /\ holds[d] \subseteq 1..generated /\ holds[d] \subseteq delivered
      <4>1. CASE d = 0
        <5>1. 1..generated = {1} /\ 1 <= DailyLimit
          BY <1>1, <3>1
        <5>2. QED
          BY <1>2, <3>1, <3>3, <4>1, <5>1
      <4>2. CASE d # 0
        <5>1. daily[d] = 0 /\ holds[d] = {} /\ 0 <= DailyLimit
          BY <1>1, <3>4, <4>2
        <5>2. QED
          BY <1>2, <5>1
      <4>3. QED
        BY <4>1, <4>2
    <3>6. \A d, e \in Days : d # e => holds[d] \cap holds[e] = {}
      BY <3>4
    <3>7. QED
      BY <3>2, <3>5, <3>6
  <2>3. QED
    BY <2>1, <2>2 DEF Init
<1>5. ASSUME NEW d \in Days
      PROVE  Cardinality(Spent(d)) <= DailyLimit
  <2>1. Spent(d) \subseteq holds[d] /\ holds[d] \subseteq Codes
    BY <1>4 DEF Spent
  <2>2. Cardinality(Spent(d)) \in Nat /\ Cardinality(Spent(d)) <= Cardinality(holds[d])
        /\ Cardinality(holds[d]) \in Nat
    BY <2>1, FewerSlots, FiniteSlots
  <2>3. QED
    BY <1>1, <1>4, <2>2
<1>6. QED
  BY <1>3, <1>4, <1>5 DEF Quota

\* The daily quota holds, failed sends are free, and only a lost EXPIRE sticks the
\* rate limiter (reserveDailySendSlot, release, RateLimitMiddleware).
THEOREM ExactCounters == Spec => []CountersAreExact
<1>1. Init => Base /\ Quota /\ StuckLimiterLostExpire
  <2>1. Init => StuckLimiterLostExpire
    BY DEF Init, StuckLimiterLostExpire
  <2>2. QED
    BY <2>1, BaseInit, QuotaInit
<1>2. Base /\ Quota /\ StuckLimiterLostExpire /\ [Next]_vars
        => (Base /\ Quota /\ StuckLimiterLostExpire)'
  BY BaseStep, QuotaStep, LimiterStep
<1>3. Base /\ Quota /\ StuckLimiterLostExpire => CountersAreExact
  <2> SUFFICES ASSUME Base, Quota, StuckLimiterLostExpire
               PROVE  CountersAreExact
    OBVIOUS
  <2>1. TypeOK
    BY DEF Base, Typed, Quota, TypeOK, Request
  <2>2. DailyLimitHolds
    <3>1. ASSUME NEW d \in Days
          PROVE  Cardinality(delivered \cap holds[d]) <= DailyLimit
      <4>1. Spent(d) \subseteq Codes /\ Cardinality(Spent(d)) <= DailyLimit
            /\ DailyLimit \in Nat
        BY PhoneCodesAssumption DEF Quota, Spent, PhoneCodesAssumption
      <4>2. delivered \cap holds[d] \subseteq Spent(d)
        BY DEF Spent
      <4>3. Cardinality(delivered \cap holds[d]) <= Cardinality(Spent(d))
        BY <4>1, <4>2, FewerSlots
      <4>4. Cardinality(delivered \cap holds[d]) \in Nat /\ Cardinality(Spent(d)) \in Nat
        BY <4>1, <4>2, FiniteSlots
      <4>5. QED
        BY <4>1, <4>3, <4>4
    <3>2. QED
      BY <3>1 DEF DailyLimitHolds
  <2>3. FailedSendsAreFree
    <3>1. ASSUME ~leak, \A p \in Procs : ~req[p].send, NEW d \in Days
          PROVE  holds[d] \subseteq delivered /\ daily[d] = Cardinality(holds[d])
      BY <3>1 DEF Base, Handler, Quota, Sender, Holding
    <3>2. \A d \in Days : holds[d] \subseteq delivered => delivered \cap holds[d] = holds[d]
      OBVIOUS
    <3>3. QED
      BY <3>1, <3>2 DEF FailedSendsAreFree
  <2>4. QED
    BY <2>1, <2>2, <2>3 DEF CountersAreExact
<1>4. QED
  BY <1>1, <1>2, <1>3, PTL DEF Spec

-----------------------------------------------------------------------------
(* The cooldown *)

\* An undisturbed message of this window: the cooldown is on, nobody sends another.
Apart ==
    /\ \A c \in (window \cap delivered) \ disturbed :
          /\ cooldown
          /\ \A p \in Procs : req[p].pc \notin Slot
          /\ \A d \in (window \cap delivered) \ disturbed : d = c
    /\ \A p \in Procs :
          req[p].pc \in Marked /\ req[p].code \in window \ disturbed => cooldown

LEMMA ApartRests ==
    ASSUME Apart, NEW p \in Procs, Others(p),
           UNCHANGED <<cooldown, window, delivered>>, disturbed \subseteq disturbed',
           req'[p].pc \in Slot => req[p].pc \in Slot,
           req'[p].pc \in Marked => req[p].pc \in Marked /\ Has(p)
    PROVE  Apart'
BY DEF Apart, Others, Has

LEMMA ApartStep ==
    ASSUME Base, Apart, [Next]_vars
    PROVE  Apart'
<1>0. req \in [Procs -> Request] /\ cooldown \in BOOLEAN
  BY DEF Base, Typed
<1>1. ASSUME UNCHANGED <<cooldown, window, req, delivered, disturbed>>
      PROVE  Apart'
  BY <1>1 DEF Apart
<1>2. ASSUME NEW p \in Procs, Arrive(p)
      PROVE  Apart'
  <2>1. Arrives(p) /\ Meets(p)
    BY <1>2, ArrivalKeeps
  <2>2. UNCHANGED <<cooldown, window, delivered>> /\ disturbed \subseteq disturbed'
    BY <1>2, <2>1 DEF Arrive, SendAuthCode, SendPhoneVerificationCode, RegisterByPhone,
       LoginByCode, VerifyPhoneCode, Begin, keys, Meets
  <2>3. QED
    BY <2>1, <2>2, ApartRests DEF Arrives, Slot, Marked
<1>3. ASSUME NEW p \in Procs, CheckCooldown(p)
      PROVE  Apart'
  <2>1. CASE Draws(p)
    <3>1. (window \cap delivered) \ disturbed = {}
      BY <2>1 DEF Draws, Apart
    <3>2. (window' \cap delivered') \ disturbed' = {}
      BY <2>1, <3>1 DEF Draws
    <3>3. \A q \in Procs : req'[q].pc \in Marked =>
             req[q].pc \in Marked /\ req'[q].code = req[q].code
      BY <2>1 DEF Draws, Others, Has, Marked
    <3>4. UNCHANGED <<cooldown, window>> /\ disturbed \subseteq disturbed'
      BY <2>1 DEF Draws
    <3>5. QED
      BY <3>2, <3>3, <3>4 DEF Apart
  <2>2. CASE Walks(p) /\ Ends(p) /\ UNCHANGED <<keys, bounds, history>>
    BY <2>2, ApartRests DEF Walks, Ends, Slot, Marked, keys, bounds, history
  <2>3. QED
    BY <1>3, <2>1, <2>2, DrawKeeps
<1>4. ASSUME NEW p \in Procs, GetCode(p)
      PROVE  Apart'
  <2>1. Others(p) /\ req'[p].pc \notin Slot \cup Marked
    BY <1>4, ReadKeeps DEF Reads, Walks, Ends, Slot, Marked
  <2>2. UNCHANGED <<cooldown, window, delivered>> /\ disturbed \subseteq disturbed'
    BY <1>4 DEF GetCode, keys
  <2>3. QED
    BY <2>1, <2>2, ApartRests
<1>5. ASSUME NEW p \in Procs, SendSMS(p)
      PROVE  Apart'
  <2> DEFINE c == req[p].code
  <2>1. /\ Others(p) /\ req'[p].pc = "idle" /\ delivered' = delivered \cup {c}
        /\ req[p].pc = "sms" /\ UNCHANGED <<cooldown, window, disturbed>>
    BY <1>5, DeliverKeeps DEF Delivers, Ends, keys
  <2>2. (window \cap delivered) \ disturbed = {}
    BY <2>1 DEF Apart, Slot
  <2>3. c \in window \ disturbed => cooldown
    BY <2>1 DEF Apart, Marked
  <2>4. c \notin disturbed => \A q \in Procs : req'[q].pc \notin Slot
    BY <2>1 DEF Base, Together, Busy, Others, Slot
  <2>5. \A d \in (window' \cap delivered') \ disturbed' : d = c /\ c \in window \ disturbed
    BY <2>1, <2>2
  <2>6. \A q \in Procs : req'[q].pc \in Marked => req[q].pc \in Marked /\ req'[q].code = req[q].code
    BY <2>1 DEF Others, Has, Marked
  <2> HIDE DEF c
  <2>7. QED
    BY <2>1, <2>3, <2>4, <2>5, <2>6 DEF Apart
<1>6. ASSUME NEW p \in Procs, SetCooldown(p)
      PROVE  Apart'
  <2>1. /\ Others(p) /\ cooldown' = TRUE /\ window' = window \cup {req[p].code}
        /\ req[p].pc = "mark" /\ UNCHANGED <<delivered, disturbed>>
    BY <1>6, WalkKeeps DEF SetCooldown, Walk, Walks, At
  <2>2. req[p].code \notin delivered /\ (window \cap delivered) \ disturbed = {}
    BY <2>1 DEF Base, Handler, Apart, Slot
  <2>3. (window' \cap delivered') \ disturbed' = {}
    BY <2>1, <2>2
  <2>4. QED
    BY <2>1, <2>3 DEF Apart
<1>7. ASSUME NEW p \in Procs, Undo(p)
      PROVE  Apart'
  <2>1. /\ Walks(p) /\ Moves(p, "release") /\ UNCHANGED <<window, delivered, disturbed>>
        /\ req[p].pc = "undo"
    BY <1>0, <1>7, WalkKeeps, GotoMoves DEF Undo, Walk, history, At, Steps
  <2>2. (window' \cap delivered') \ disturbed' = {}
    BY <2>1 DEF Apart, Slot
  <2>3. \A q \in Procs : req'[q].pc \in Marked => q # p /\ req[q].pc \in Marked
                            /\ req'[q].code = req[q].code
    BY <2>1 DEF Moves, Others, Has, Marked
  <2>4. \A q \in Procs \ {p} : req[q].pc \in Marked => req[q].code \in disturbed
    BY <2>1 DEF Base, Together, Busy, Slot, Marked
  <2>5. QED
    BY <2>1, <2>2, <2>3, <2>4 DEF Apart
<1>8. ASSUME NEW p \in Procs, Walk(p), ~SetCooldown(p), ~Undo(p)
      PROVE  Apart'
  <2>1. Walks(p)
    BY <1>8, WalkKeeps
  <2>2. UNCHANGED <<cooldown, window>>
    BY <1>8 DEF Walk, Limit, ExpireHits, CheckEligibility, ReserveDailySendSlot, ExpireDay,
       SetCode, ResetAttempts, SendFails, UndoFails, Release, WrongGuess, AttemptsTTL, Exhaust,
       Consume, CreateWithPhone, UpdatePhone, Fault, keys, bounds, history
  <2>3. req'[p].pc \in Marked => req[p].pc \in Marked
    <3>1. CASE req[p].pc \in Slot
      <4>1. CASE ReserveDailySendSlot(p)
        <5> DEFINE pc == IF daily[day] + 1 = 1 THEN "expireDay"
                         ELSE IF daily[day] + 1 > DailyLimit THEN "release" ELSE "code"
        <5>1. pc \in {"expireDay", "release", "code"}
          OBVIOUS
        <5>2. req' = [req EXCEPT ![p].day = day, ![p].pc = pc]
          BY <4>1 DEF ReserveDailySendSlot
        <5> HIDE DEF pc
        <5>3. pc \in Steps /\ pc \notin Marked /\ day \in Days
          BY <5>1 DEF Steps, Marked, Base, Typed
        <5>4. Takes(p, pc)
          BY <1>0, <5>2, <5>3, ReserveFields
        <5>5. QED
          BY <5>3, <5>4 DEF Takes
      <4>2. CASE Release(p)
        BY <1>0, <4>2, EndEnds DEF Release, Ends, Marked
      <4>3. CASE Fault(p)
        <5>1. CASE End(p)
          BY <1>0, <5>1, EndEnds DEF Ends, Marked
        <5>2. QED
          BY <3>1, <4>3, <5>1 DEF Fault, Slot
      <4>4. CASE \/ ExpireDay(p) \/ SetCode(p) \/ ResetAttempts(p) \/ SendFails(p)
                 \/ UndoFails(p)
        <5>1. CASE SendFails(p)
          <6>1. /\ OnError(req[p].pc).pc \in {"release", "undo"}
                /\ OnError(req[p].pc).undo \in SUBSET {"code", "cooldown", "attempts"}
            BY <5>1 DEF SendFails, OnError
          <6>2. req'[p].pc = OnError(req[p].pc).pc
            <7>1. OnError(req[p].pc).pc \in Steps
              BY <6>1 DEF Steps
            <7>2. QED
              BY <1>0, <5>1, <6>1, <7>1, FailMoves DEF SendFails, Moves
          <6>3. QED
            BY <6>1, <6>2 DEF Marked
        <5>2. CASE ResetAttempts(p)
          BY <5>2 DEF ResetAttempts, At, Marked
        <5>3. CASE ExpireDay(p)
          BY <5>3 DEF ExpireDay, Goto, Marked
        <5>4. CASE SetCode(p)
          BY <5>4 DEF SetCode, Goto, Marked
        <5>5. CASE UndoFails(p)
          BY <5>5 DEF UndoFails, Goto, Marked
        <5>6. QED
          BY <4>4, <5>1, <5>2, <5>3, <5>4, <5>5
      <4>5. QED
        BY <1>8, <3>1, <4>1, <4>2, <4>3, <4>4 DEF Walk, Limit, ExpireHits, CheckEligibility,
           WrongGuess, AttemptsTTL, Exhaust, Consume, CreateWithPhone, UpdatePhone, At, Slot
    <3>2. CASE req[p].pc \notin Slot
      BY <2>1, <3>2 DEF Walks, Slot, Marked
    <3>3. QED
      BY <3>1, <3>2
  <2>4. QED
    BY <2>1, <2>2, <2>3, ApartRests DEF Walks, Slot, Marked
<1>9. CASE Passes
  <2>1. CASE ExpireCooldown
    BY <2>1 DEF ExpireCooldown, Apart
  <2>2. CASE ~ExpireCooldown
    BY <1>1, <1>9, <2>2 DEF Passes, ExpireCode, ExpireAttempts, WindowEnds, Midnight, MoveAway,
       keys, bounds, history
  <2>3. QED
    BY <2>1, <2>2
<1>10. CASE UNCHANGED vars
  BY <1>1, <1>10 DEF vars, keys, bounds, history
<1>11. QED
  BY <1>2, <1>3, <1>4, <1>5, <1>6, <1>7, <1>8, <1>9, <1>10, Cases

\* Two messages under one cooldown come from requests that overlapped others (the
\* EXISTS and the later SET of the cooldown key in SendCode).
THEOREM Separated == Spec => []CooldownSeparates
<1>1. Init => Base /\ Apart
  <2>1. ASSUME Init
        PROVE  Apart
    <3>1. \A p \in Procs : req[p].pc = "idle"
      BY <2>1 DEF Init, NoRequest
    <3>2. \/ window = {}
          \/ window = {1} /\ cooldown = TRUE
      BY <2>1 DEF Init, NoCode, OneCode
    <3>3. QED
      BY <3>1, <3>2 DEF Apart, Slot, Marked
  <2>2. QED
    BY <2>1, BaseInit
<1>2. Base /\ Apart /\ [Next]_vars => (Base /\ Apart)'
  BY BaseStep, ApartStep
<1>3. Base /\ Apart => CooldownSeparates
  BY DEF Apart, CooldownSeparates
<1>4. QED
  BY <1>1, <1>2, <1>3, PTL DEF Spec

-----------------------------------------------------------------------------
(* What a code opens, and how often it may be guessed at *)

\* Where a verifier works on the code it read; used codes are at "create".
Trying == Reading \ {"create"}
Setting == {"mark", "reset", "sms"}

Unused(c) == \A s \in Scenes : uses[c][s] = 0

\* The undisturbed code of a sender is new: nobody tried it, and it stands under
\* its key with no guesses counted.
Fresh(p) ==
    LET c == req[p].code
        s == req[p].scene
    IN  req[p].pc \in Slot /\ c \notin disturbed =>
          /\ wrong[c] = 0 /\ Unused(c)
          /\ req[p].pc \in Setting /\ c \notin gone => code[s] = c
          /\ req[p].pc = "sms" => attempts[s] = 0 /\ attemptsFor[s] = None

\* The undisturbed code of a verifier was not used; the guesses are counted.
Tried(p) ==
    LET c == req[p].saved
        s == req[p].scene
    IN  req[p].pc \in Trying /\ c \notin disturbed =>
          /\ Unused(c)
          /\ req[p].pc = "wrong" => wrong[c] < MaxAttempts
          /\ req[p].pc = "ttl" /\ code[s] = c => wrong[c] = 1
          /\ req[p].pc = "exhaust" /\ code[s] = c => wrong[c] >= MaxAttempts

\* An undisturbed code under its key is the one the handler put or read there.
Sees(p) ==
    LET c == code[req[p].scene]
    IN  c # None /\ c \notin disturbed =>
          /\ req[p].pc \in Placed => c = req[p].code
          /\ req[p].pc \in Trying => c = req[p].saved

\* An undisturbed code under its key was not used, was sent or is on its way, its
\* guesses are counted, and too many of them are being punished.
Live(s) ==
    LET c == code[s]
    IN  c # None /\ c \notin disturbed =>
          /\ Unused(c)
          /\ \/ c \in delivered /\ attempts[s] = wrong[c] /\ attemptsFor[s] \in {None, c}
             \/ \E p \in Procs : req[p].pc \in Placed /\ req[p].code = c
          /\ \/ wrong[c] < MaxAttempts
             \/ \E p \in Procs : req[p].pc \in Guessing /\ req[p].saved = c

Kept(c) ==
    /\ \A s \in Scenes : uses[c][s] > 0 => s = sceneOf[c]
    /\ c \notin disturbed => /\ wrong[c] <= MaxAttempts
                             /\ \A s \in Scenes : uses[c][s] <= 1
                             /\ c \in delivered \ gone => \E s \in Scenes : code[s] = c

Guarded ==
    /\ \A p \in Procs : Fresh(p) /\ Tried(p) /\ Sees(p)
    /\ \A s \in Scenes : Live(s)
    /\ \A c \in Codes : Kept(c)

\* What the lemmas below read off Base.
LEMMA Facts ==
    ASSUME Base, NEW p \in Procs
    PROVE  /\ req \in [Procs -> Request] /\ req[p].scene \in Scenes
           /\ code \in [Scenes -> Codes \cup {None}] /\ None \notin Codes
           /\ attempts \in [Scenes -> Nat] /\ attemptsFor \in [Scenes -> Codes \cup {None}]
           /\ uses \in [Codes -> [Scenes -> Nat]] /\ wrong \in [Codes -> Nat]
           /\ MaxAttempts \in Nat \ {0}
           /\ delivered \subseteq Codes
           /\ \A s \in Scenes : code[s] # None => sceneOf[code[s]] = s
           /\ req[p].pc \in Slot =>
                /\ req[p].code \in Codes /\ req[p].code \notin delivered
                /\ sceneOf[req[p].code] = req[p].scene
           /\ req[p].pc \in Reading =>
                req[p].saved \in Codes /\ sceneOf[req[p].saved] = req[p].scene
<1>1. None \notin Codes /\ MaxAttempts \in Nat \ {0}
  BY PhoneCodesAssumption DEF Codes, PhoneCodesAssumption
<1>2. Typed /\ Keyed /\ Handler(p)
  BY DEF Base
<1>3. req[p].scene \in Scenes
  BY <1>2 DEF Typed, Request
<1>4. QED
  BY <1>1, <1>2, <1>3, OwnCodes DEF Typed, Keyed, Handler

\* Beside a busy handler nobody has an undisturbed code.
LEMMA Alone ==
    ASSUME Base, NEW p \in Procs, NEW q \in Procs, q # p, Busy(p)
    PROVE  /\ req[q].pc \in Slot => req[q].code \in disturbed
           /\ req[q].pc \in Reading => req[q].saved \in disturbed
BY DEF Base, Together, Busy, Slot, Reading

LEMMA OthersGuarded ==
    ASSUME Base, Guarded, NEW p \in Procs, Others(p), Busy(p), disturbed \subseteq disturbed',
           \A s \in Scenes : code'[s] \in {code[s], None}
                             \/ \A q \in Procs \ {p} : Busy(q) => code'[s] \in disturbed',
           NEW q \in Procs \ {p}
    PROVE  Fresh(q)' /\ Tried(q)' /\ Sees(q)'
<1>0. /\ req'[q].pc = req[q].pc /\ req'[q].code = req[q].code
      /\ req'[q].saved = req[q].saved /\ req'[q].scene = req[q].scene
      /\ req[q].scene \in Scenes
  BY Facts DEF Others, Has
<1>1. req[q].pc \in Slot => req[q].code \in disturbed'
  BY Alone
<1>2. req[q].pc \in Trying => req[q].saved \in disturbed'
  BY Alone DEF Trying
<1>3. Fresh(q)'
  BY <1>0, <1>1 DEF Fresh
<1>4. Tried(q)'
  BY <1>0, <1>2 DEF Tried
<1>5. Sees(q)'
  <2>1. Sees(q)
    BY DEF Guarded
  <2>2. Busy(q) \/ req[q].pc \notin Placed \cup Trying
    BY DEF Busy, Placed, Trying, Reading
  <2>3. QED
    BY <1>0, <2>1, <2>2 DEF Sees
<1>6. QED
  BY <1>3, <1>4, <1>5

\* Where handler p stays with respect to what Guarded says of it.
Stays(p) ==
    LET old == req[p].pc
        new == req'[p].pc
    IN  /\ \/ /\ Has(p)
              /\ new \in Slot => old \in Slot
              /\ new \in Setting => old \in Setting
              /\ new \in Placed => old \in Placed
              /\ new \in Trying => old \in Trying
              /\ new \in {"sms", "wrong", "ttl", "exhaust"} => new = old
           \/ new \notin Slot \cup Trying \cup Placed
        /\ old \in Placed => (Has(p) /\ new \in Placed) \/ req[p].code \in disturbed'
        /\ old \in Guessing => (Has(p) /\ new \in Guessing) \/ req[p].saved \in disturbed'

\* A step that leaves the keys of the codes alone.
LEMMA QuietKeeps ==
    ASSUME Base, Guarded, NEW p \in Procs, Others(p), Busy(p), Stays(p),
           disturbed \subseteq disturbed',
           UNCHANGED <<code, attempts, attemptsFor, delivered, gone, uses, wrong, sceneOf>>
    PROVE  Guarded'
<1>1. \A q \in Procs \ {p} : Fresh(q)' /\ Tried(q)' /\ Sees(q)'
  BY OthersGuarded
<1>2. Fresh(p) /\ Tried(p) /\ Sees(p)
  BY DEF Guarded
<1>3. Fresh(p)'
  BY <1>2 DEF Fresh, Stays, Has, Setting, Slot, Unused
<1>4. Tried(p)'
  BY <1>2 DEF Tried, Stays, Has, Trying, Reading, Unused
<1>5. Sees(p)'
  BY <1>2 DEF Sees, Stays, Has, Placed, Trying, Reading, Slot
<1>6. ASSUME NEW s \in Scenes
      PROVE  Live(s)'
  <2>1. CASE code[s] # None /\ code[s] \notin disturbed'
    <3>1. Live(s) /\ code[s] \notin disturbed
      BY <2>1 DEF Guarded
    <3>2. ASSUME NEW q \in Procs, req[q].pc \in Placed, req[q].code = code[s]
          PROVE  req'[q].pc \in Placed /\ req'[q].code = code[s]
      BY <2>1, <3>2 DEF Stays, Others, Has
    <3>3. ASSUME NEW q \in Procs, req[q].pc \in Guessing, req[q].saved = code[s]
          PROVE  req'[q].pc \in Guessing /\ req'[q].saved = code[s]
      BY <2>1, <3>3 DEF Stays, Others, Has
    <3>4. QED
      BY <3>1, <2>1, <3>2, <3>3 DEF Live, Unused
  <2>2. QED
    BY <2>1 DEF Live
<1>7. \A c \in Codes : Kept(c)'
  BY DEF Guarded, Kept
<1>8. QED
  BY <1>1, <1>3, <1>4, <1>5, <1>6, <1>7 DEF Guarded

\* A sender's code takes its key; the one there before has gone.
LEMMA SetCodeKeeps ==
    ASSUME Base, Guarded, NEW p \in Procs, SetCode(p)
    PROVE  Guarded'
<1> DEFINE s == req[p].scene
           c == req[p].code
<1>0. /\ req[p].pc = "code" /\ Busy(p) /\ Others(p) /\ Moves(p, "mark") /\ Has(p)
      /\ req'[p].pc = "mark"
      /\ code' = [code EXCEPT ![s] = c]
      /\ gone' = gone \cup ({code[s]} \ {None})
      /\ UNCHANGED <<attempts, attemptsFor, delivered, uses, wrong, sceneOf, disturbed>>
  BY Facts, WalkKeeps, GotoMoves DEF SetCode, Walk, Moves, Busy, At, Steps
<1>1. /\ s \in Scenes /\ c \in Codes /\ c # None /\ None \notin Codes
      /\ code'[s] = c /\ \A t \in Scenes : t # s => code'[t] = code[t]
      /\ code \in [Scenes -> Codes \cup {None}] /\ MaxAttempts \in Nat \ {0}
      /\ delivered \subseteq Codes
  BY <1>0, Facts DEF Slot
<1>2. Fresh(p) /\ req'[p].code = c /\ req'[p].scene = s /\ req[p].pc \in Slot
  BY <1>0 DEF Guarded, Has, Slot
<1> HIDE DEF s, c
<1>3. \A q \in Procs \ {p} : Busy(q) => c \in disturbed
  BY <1>0, <1>2 DEF Base, Together, c
<1>4. \A q \in Procs \ {p} : Fresh(q)' /\ Tried(q)' /\ Sees(q)'
  <2>1. \A t \in Scenes : code'[t] \in {code[t], None}
                          \/ \A q \in Procs \ {p} : Busy(q) => code'[t] \in disturbed'
    BY <1>0, <1>1, <1>3
  <2>2. QED
    BY <1>0, <2>1, OthersGuarded
<1>5. Fresh(p)' /\ Tried(p)' /\ Sees(p)'
  <2>1. c \notin disturbed => wrong[c] = 0 /\ Unused(c)
    BY <1>2 DEF Fresh, c
  <2>2. QED
    BY <1>0, <1>1, <1>2, <2>1 DEF Fresh, Tried, Sees, Unused, Trying, Reading
<1>6. ASSUME NEW t \in Scenes
      PROVE  Live(t)'
  <2>1. CASE t = s /\ c \notin disturbed
    <3>1. wrong[c] = 0 /\ Unused(c)
      BY <1>2, <2>1 DEF Fresh, c
    <3>2. req'[p].pc \in Placed
      BY <1>0 DEF Placed
    <3>3. QED
      BY <1>0, <1>1, <1>2, <2>1, <3>1, <3>2 DEF Live, Unused
  <2>2. CASE t # s
    <3>1. Live(t) /\ code'[t] = code[t]
      BY <1>1, <2>2 DEF Guarded
    <3>2. \A q \in Procs : req[q].pc \in Placed \cup Guessing =>
             req'[q].pc = req[q].pc /\ req'[q].code = req[q].code /\ req'[q].saved = req[q].saved
      BY <1>0 DEF Others, Has, Placed, Guessing
    <3>3. QED
      BY <1>0, <3>1, <3>2 DEF Live, Unused
  <2>3. QED
    BY <1>0, <1>1, <2>1, <2>2 DEF Live
<1>7. ASSUME NEW d \in Codes
      PROVE  Kept(d)'
  <2>1. Kept(d)
    BY DEF Guarded
  <2>2. ASSUME d \in delivered' \ gone', NEW t \in Scenes, code[t] = d
        PROVE  code'[t] = d
    BY <1>0, <1>1, <2>2
  <2>3. QED
    BY <1>0, <2>1, <2>2 DEF Kept
<1>8. QED
  BY <1>4, <1>5, <1>6, <1>7 DEF Guarded

\* The guesses at an older code are forgotten.
LEMMA ResetKeeps ==
    ASSUME Base, Guarded, NEW p \in Procs, ResetAttempts(p)
    PROVE  Guarded'
<1> DEFINE s == req[p].scene
           c == req[p].code
<1>0. /\ req[p].pc = "reset" /\ Busy(p) /\ Others(p) /\ Has(p)
      /\ req'[p].pc = "sms" /\ DropAttempts(s)
      /\ UNCHANGED <<code, delivered, gone, uses, wrong, sceneOf, disturbed>>
  BY Facts, WalkKeeps, GotoMoves DEF ResetAttempts, Walk, Moves, Busy, At, Steps, history
<1>1. /\ s \in Scenes /\ c \notin delivered /\ code[s] \in Codes \cup {None}
      /\ attempts'[s] = 0 /\ attemptsFor'[s] = None
      /\ \A t \in Scenes : t # s => attempts'[t] = attempts[t] /\ attemptsFor'[t] = attemptsFor[t]
  BY <1>0, Facts DEF Slot, DropAttempts
<1>2. Fresh(p) /\ Sees(p) /\ req'[p].code = c /\ req'[p].scene = s
  BY <1>0 DEF Guarded, Has
<1>3. \A q \in Procs \ {p} : Fresh(q)' /\ Tried(q)' /\ Sees(q)'
  BY <1>0, OthersGuarded
<1>4. Fresh(p)' /\ Tried(p)' /\ Sees(p)'
  BY <1>0, <1>1, <1>2 DEF Fresh, Tried, Sees, Unused, Trying, Reading, Placed, Setting, Slot
<1>5. ASSUME NEW t \in Scenes
      PROVE  Live(t)'
  <2>0. \A q \in Procs : req[q].pc \in Placed \cup Guessing =>
           /\ req[q].pc \in Placed => req'[q].pc \in Placed
           /\ req[q].pc \in Guessing => req'[q].pc \in Guessing
           /\ req'[q].code = req[q].code /\ req'[q].saved = req[q].saved
    BY <1>0 DEF Others, Has, Placed, Guessing
  <2>1. CASE t = s /\ code[s] # None /\ code[s] \notin disturbed
    <3>1. code[s] = c /\ req'[p].pc \in Placed /\ Live(s)
      BY <1>0, <1>1, <1>2, <2>1 DEF Sees, Placed, Guarded
    <3>2. QED
      BY <1>0, <1>1, <1>2, <2>0, <2>1, <3>1 DEF Live, Unused
  <2>2. CASE t # s
    <3>1. Live(t) /\ attempts'[t] = attempts[t] /\ attemptsFor'[t] = attemptsFor[t]
      BY <1>1, <2>2 DEF Guarded
    <3>2. QED
      BY <1>0, <2>0, <3>1 DEF Live, Unused
  <2>3. QED
    BY <1>0, <2>1, <2>2 DEF Live
<1>6. \A d \in Codes : Kept(d)'
  BY <1>0 DEF Guarded, Kept
<1>7. QED
  BY <1>3, <1>4, <1>5, <1>6 DEF Guarded

\* The gateway takes the code: from now on it can be tried.
LEMMA SendKeeps ==
    ASSUME Base, Guarded, NEW p \in Procs, SendSMS(p)
    PROVE  Guarded'
<1> DEFINE s == req[p].scene
           c == req[p].code
<1>0. /\ req[p].pc = "sms" /\ Busy(p) /\ Others(p) /\ req'[p].pc = "idle"
      /\ delivered' = delivered \cup {c}
      /\ UNCHANGED <<code, attempts, attemptsFor, gone, uses, wrong, sceneOf, disturbed>>
  BY DeliverKeeps DEF Delivers, Ends, Busy, keys
<1>1. s \in Scenes /\ sceneOf[c] = s /\ \A t \in Scenes : code[t] # None => sceneOf[code[t]] = t
  BY <1>0, Facts DEF Slot
<1>2. c \notin disturbed => /\ wrong[c] = 0 /\ attempts[s] = 0 /\ attemptsFor[s] = None
                            /\ c \notin gone => code[s] = c
  BY <1>0 DEF Guarded, Fresh, Slot, Setting
<1>3. \A q \in Procs \ {p} : Fresh(q)' /\ Tried(q)' /\ Sees(q)'
  BY <1>0, OthersGuarded
<1>4. Fresh(p)' /\ Tried(p)' /\ Sees(p)'
  BY <1>0 DEF Fresh, Tried, Sees, Slot, Trying, Reading, Placed
<1> HIDE DEF s, c
<1>5. ASSUME NEW t \in Scenes
      PROVE  Live(t)'
  <2>1. CASE code[t] = c /\ c \notin disturbed /\ c # None
    <3>1. t = s /\ Live(t)
      BY <1>1, <2>1 DEF Guarded
    <3>2. ASSUME NEW q \in Procs, req[q].pc \in Guessing, req[q].saved = c
          PROVE  req'[q].pc \in Guessing /\ req'[q].saved = c
      BY <1>0, <3>2 DEF Others, Has, Guessing
    <3>3. QED
      BY <1>0, <1>2, <2>1, <3>1, <3>2 DEF Live, Unused
  <2>2. CASE code[t] # c /\ code[t] # None /\ code[t] \notin disturbed
    <3>1. Live(t)
      BY DEF Guarded
    <3>2. ASSUME NEW q \in Procs, req[q].pc \in Placed, req[q].code = code[t]
          PROVE  req'[q].pc \in Placed /\ req'[q].code = code[t]
      <4>1. q # p
        BY <2>2, <3>2 DEF c
      <4>2. QED
        BY <1>0, <3>2, <4>1 DEF Others, Has
    <3>3. ASSUME NEW q \in Procs, req[q].pc \in Guessing, req[q].saved = code[t]
          PROVE  req'[q].pc \in Guessing /\ req'[q].saved = code[t]
      BY <1>0, <3>3 DEF Others, Has, Guessing
    <3>4. QED
      BY <1>0, <2>2, <3>1, <3>2, <3>3 DEF Live, Unused
  <2>3. QED
    BY <1>0, <2>1, <2>2 DEF Live
<1>6. \A d \in Codes : Kept(d)'
  BY <1>0, <1>1, <1>2 DEF Guarded, Kept
<1>7. QED
  BY <1>3, <1>4, <1>5, <1>6 DEF Guarded

\* The undo deletes the sender's own code, unless handlers overlapped.
LEMMA UndoKeeps ==
    ASSUME Base, Guarded, NEW p \in Procs, Undo(p)
    PROVE  Guarded'
<1> DEFINE s == req[p].scene
           c == req[p].code
<1>0. /\ req[p].pc = "undo" /\ Busy(p) /\ Others(p) /\ Has(p) /\ req'[p].pc = "release"
      /\ code' = [code EXCEPT ![s] = None]
      /\ DropAttempts(s) \/ UNCHANGED <<attempts, attemptsFor>>
      /\ UNCHANGED <<delivered, gone, uses, wrong, sceneOf, disturbed>>
  <2>1. Others(p) /\ Has(p) /\ req'[p].pc = "release"
    BY Facts, WalkKeeps, GotoMoves DEF Undo, Walk, Moves, Steps
  <2>2. QED
    BY <2>1 DEF Undo, At, Busy, history
<1>1. /\ s \in Scenes /\ c \notin delivered /\ sceneOf[c] = s
      /\ code'[s] = None
      /\ \A t \in Scenes : t # s => /\ code'[t] = code[t] /\ attempts'[t] = attempts[t]
                                    /\ attemptsFor'[t] = attemptsFor[t]
      /\ \A t \in Scenes : code[t] # None => sceneOf[code[t]] = t
      /\ None \notin Codes
  BY <1>0, Facts DEF Slot, DropAttempts
<1>2. \A q \in Procs \ {p} : Fresh(q)' /\ Tried(q)' /\ Sees(q)'
  <2>1. \A t \in Scenes : code'[t] \in {code[t], None}
    BY <1>1
  <2>2. QED
    BY <1>0, <2>1, OthersGuarded
<1>3. Fresh(p)' /\ Tried(p)' /\ Sees(p)'
  BY <1>0 DEF Guarded, Fresh, Tried, Sees, Unused, Has, Slot, Trying, Reading, Placed, Setting
<1>4. ASSUME NEW t \in Scenes
      PROVE  Live(t)'
  <2>1. CASE t # s /\ code[t] # None /\ code[t] \notin disturbed
    <3>1. Live(t) /\ code[t] # c
      BY <1>1, <2>1 DEF Guarded
    <3>2. ASSUME NEW q \in Procs, req[q].pc \in Placed, req[q].code = code[t]
          PROVE  req'[q].pc \in Placed /\ req'[q].code = code[t]
      BY <1>0, <3>1, <3>2 DEF Others, Has
    <3>3. ASSUME NEW q \in Procs, req[q].pc \in Guessing, req[q].saved = code[t]
          PROVE  req'[q].pc \in Guessing /\ req'[q].saved = code[t]
      BY <1>0, <3>3 DEF Others, Has, Guessing
    <3>4. QED
      BY <1>0, <1>1, <2>1, <3>1, <3>2, <3>3 DEF Live, Unused
  <2>2. QED
    BY <1>0, <1>1, <2>1 DEF Live
<1>5. ASSUME NEW d \in Codes
      PROVE  Kept(d)'
  <2>1. Kept(d) /\ Sees(p)
    BY DEF Guarded
  <2>2. ASSUME d \in delivered \ gone, d \notin disturbed, NEW t \in Scenes, code[t] = d
        PROVE  code'[t] = d
    BY <1>0, <1>1, <2>1, <2>2 DEF Sees, Placed
  <2>3. QED
    BY <1>0, <2>1, <2>2 DEF Kept
<1>6. QED
  BY <1>2, <1>3, <1>4, <1>5 DEF Guarded

\* A verifier reads a code.
LEMMA ReadGuarded ==
    ASSUME Base, Guarded, NEW p \in Procs, Reads(p)
    PROVE  Guarded'
<1> DEFINE s == req[p].scene
           c == code[s]
<1>0. /\ req[p].pc = "get" /\ Busy(p) /\ Others(p) /\ req'[p].pc \in {"wrong", "bind", "consume"}
      /\ req'[p].saved = c /\ req'[p].scene = s /\ c \in Codes /\ c # None /\ s \in Scenes
      /\ disturbed' = IF req[p].met THEN disturbed \cup {c} ELSE disturbed
      /\ UNCHANGED <<code, attempts, attemptsFor, delivered, gone, uses, wrong>>
  BY Facts DEF Reads, Busy, keys
<1>1. UNCHANGED sceneOf /\ disturbed \subseteq disturbed' /\ (c \notin disturbed' => ~req[p].met)
  BY <1>0 DEF Reads
<1> HIDE DEF s, c
<1>2. \A q \in Procs \ {p} : Fresh(q)' /\ Tried(q)' /\ Sees(q)'
  BY <1>0, <1>1, OthersGuarded
<1>3. c \notin disturbed' => Unused(c) /\ wrong[c] < MaxAttempts
  <2>1. ASSUME c \notin disturbed'
        PROVE  \A q \in Procs : req[q].pc \notin Placed \cup Guessing
    BY <1>0, <1>1, <2>1 DEF Base, Together, Busy, Placed, Guessing
  <2>2. Live(s)
    BY <1>0 DEF Guarded
  <2>3. QED
    BY <1>0, <1>1, <2>1, <2>2 DEF Live, c
<1>4. Fresh(p)' /\ Tried(p)' /\ Sees(p)'
  <2>1. code'[s] = c
    BY <1>0 DEF c
  <2>2. QED
    BY <1>0, <1>3, <2>1 DEF Fresh, Tried, Sees, Unused, Slot, Placed
<1>5. ASSUME NEW t \in Scenes
      PROVE  Live(t)'
  <2>1. Live(t)
    BY DEF Guarded
  <2>2. \A q \in Procs : req[q].pc \in Placed \cup Guessing =>
           req'[q].pc = req[q].pc /\ req'[q].code = req[q].code /\ req'[q].saved = req[q].saved
    BY <1>0 DEF Others, Has, Placed, Guessing
  <2>3. QED
    BY <1>0, <1>1, <2>1, <2>2 DEF Live, Unused
<1>6. \A d \in Codes : Kept(d)'
  BY <1>0, <1>1 DEF Guarded, Kept
<1>7. QED
  BY <1>2, <1>4, <1>5, <1>6 DEF Guarded

\* A wrong guess is counted, and punished when it is one too many.
LEMMA GuessKeeps ==
    ASSUME Base, Guarded, NEW p \in Procs, WrongGuess(p)
    PROVE  Guarded'
<1> DEFINE s == req[p].scene
           c == req[p].saved
           n == attempts[s] + 1
<1>0. /\ req[p].pc = "wrong" /\ Busy(p) /\ Others(p)
      /\ attempts' = [attempts EXCEPT ![s] = n]
      /\ wrong' = [wrong EXCEPT ![c] = @ + 1]
      /\ UNCHANGED <<code, attemptsFor, delivered, gone, uses, sceneOf, disturbed>>
  BY WalkKeeps DEF WrongGuess, Walk, Walks, Busy, At
<1>1. \/ n = 1 /\ req'[p].pc = "ttl" /\ Has(p)
      \/ n >= MaxAttempts /\ req'[p].pc = "exhaust" /\ Has(p)
      \/ n < MaxAttempts /\ n # 1 /\ req'[p].pc = "idle"
  <2>0. n \in Nat /\ MaxAttempts \in Nat
    BY Facts
  <2>1. CASE n = 1
    BY <2>1, Facts, GotoMoves DEF WrongGuess, Moves, Steps
  <2>2. CASE n # 1 /\ n >= MaxAttempts
    BY <2>2, Facts, GotoMoves DEF WrongGuess, Moves, Steps
  <2>3. CASE n # 1 /\ ~(n >= MaxAttempts)
    BY <2>0, <2>3, Facts, EndEnds DEF WrongGuess, Ends
  <2>4. QED
    BY <2>1, <2>2, <2>3
<1>2. /\ s \in Scenes /\ c \in Codes /\ sceneOf[c] = s /\ n \in Nat /\ attempts[s] \in Nat
      /\ n = attempts[s] + 1 /\ MaxAttempts \in Nat \ {0}
      /\ wrong \in [Codes -> Nat] /\ None \notin Codes
      /\ attempts'[s] = n /\ wrong'[c] = wrong[c] + 1
      /\ \A t \in Scenes : t # s => attempts'[t] = attempts[t]
      /\ \A d \in Codes : d # c => wrong'[d] = wrong[d]
      /\ \A t \in Scenes : code[t] # None => sceneOf[code[t]] = t /\ code[t] \in Codes
  BY <1>0, Facts DEF Reading
<1>3. Tried(p) /\ Sees(p) /\ (c \notin disturbed => wrong[c] < MaxAttempts)
  BY <1>0 DEF Guarded, Tried, Trying, Reading
<1>4. \A q \in Procs \ {p} : Fresh(q)' /\ Tried(q)' /\ Sees(q)'
  BY <1>0, OthersGuarded
\* Nobody is sending the code: what is counted are the guesses at it.
<1>5. code[s] # None /\ code[s] \notin disturbed =>
         /\ code[s] = c /\ c \in delivered /\ attempts[s] = wrong[c]
         /\ attemptsFor[s] \in {None, c} /\ Unused(c)
  <2>1. ASSUME code[s] # None, code[s] \notin disturbed
        PROVE  code[s] = c /\ \A q \in Procs : ~(req[q].pc \in Placed /\ req[q].code = c)
    <3>1. code[s] = c
      BY <1>0, <1>3, <2>1 DEF Sees, Trying, Reading
    <3>2. \A q \in Procs \ {p} : req[q].pc \in Slot => req[q].code \in disturbed
      BY <1>0, Alone
    <3>3. QED
      BY <1>0, <2>1, <3>1, <3>2 DEF Placed, Slot
  <2>2. Live(s)
    BY <1>2 DEF Guarded
  <2>3. QED
    BY <2>1, <2>2 DEF Live
<1> HIDE DEF s, c, n
<1>6. Fresh(p)' /\ Tried(p)' /\ Sees(p)'
  <2>1. Has(p) => req'[p].saved = c /\ req'[p].scene = s
    BY DEF Has, s, c
  <2>2. c \notin disturbed => Unused(c)
    BY <1>0, <1>3 DEF Tried, Trying, Reading, c
  <2>3. code[s] = c /\ c \notin disturbed => wrong'[c] = n
    BY <1>2, <1>5
  <2>4. Fresh(p)'
    BY <1>1 DEF Fresh, Slot
  <2>5. Tried(p)'
    BY <1>0, <1>1, <1>2, <2>1, <2>2, <2>3 DEF Tried, Unused, Trying, Reading
  <2>6. Sees(p)'
    BY <1>0, <1>1, <1>3, <2>1, Zenon DEF Sees, Placed, Trying, Reading, c, s
  <2>7. QED
    BY <2>4, <2>5, <2>6
<1>7. ASSUME NEW t \in Scenes
      PROVE  Live(t)'
  <2>1. CASE t = s /\ code[s] # None /\ code[s] \notin disturbed
    <3>1. attempts'[s] = wrong'[c] /\ wrong'[c] = n
      BY <1>2, <1>5, <2>1
    <3>2. n < MaxAttempts \/ (req'[p].pc \in Guessing /\ req'[p].saved = c)
      BY <1>1 DEF Guessing, Has, c
    <3>3. QED
      BY <1>0, <1>5, <2>1, <3>1, <3>2 DEF Live, Unused
  <2>2. CASE t # s /\ code[t] # None
    <3>1. Live(t) /\ code[t] # c /\ code[t] \in Codes
      BY <1>2, <2>2 DEF Guarded
    <3>2. \A q \in Procs : req[q].pc \in Placed \cup Guessing =>
             req'[q].pc = req[q].pc /\ req'[q].code = req[q].code /\ req'[q].saved = req[q].saved
      BY <1>0 DEF Others, Has, Placed, Guessing
    <3>3. wrong'[code[t]] = wrong[code[t]] /\ attempts'[t] = attempts[t]
      BY <1>2, <2>2, <3>1
    <3>4. QED
      BY <1>0, <3>1, <3>2, <3>3 DEF Live, Unused
  <2>3. QED
    BY <1>0, <2>1, <2>2 DEF Live
<1>8. ASSUME NEW d \in Codes
      PROVE  Kept(d)'
  <2>1. Kept(d)
    BY DEF Guarded
  <2>2. d \notin disturbed => wrong'[d] <= MaxAttempts
    BY <1>2, <1>3, <2>1 DEF Kept
  <2>3. QED
    BY <1>0, <2>1, <2>2 DEF Kept
<1>9. QED
  BY <1>4, <1>6, <1>7, <1>8 DEF Guarded

\* The attempts get the TTL of the code under the key.
LEMMA TTLKeeps ==
    ASSUME Base, Guarded, NEW p \in Procs, AttemptsTTL(p)
    PROVE  Guarded'
<1> DEFINE s == req[p].scene
           c == req[p].saved
<1>0. /\ req[p].pc = "ttl" /\ Busy(p) /\ Others(p)
      /\ attemptsFor' = attemptsFor \/ attemptsFor' = [attemptsFor EXCEPT ![s] = code[s]]
      /\ UNCHANGED <<code, attempts, delivered, gone, uses, wrong, sceneOf, disturbed>>
  <2>1. Others(p)
    BY WalkKeeps DEF Walk, Walks
  <2>2. QED
    BY <2>1 DEF AttemptsTTL, Busy, At, bounds, history
<1>1. \/ MaxAttempts = 1 /\ req'[p].pc = "exhaust" /\ Has(p)
      \/ MaxAttempts # 1 /\ req'[p].pc = "idle"
  <2>1. CASE MaxAttempts = 1
    BY <2>1, Facts, GotoMoves DEF AttemptsTTL, Moves, Steps
  <2>2. CASE MaxAttempts # 1
    BY <2>2, Facts, EndEnds DEF AttemptsTTL, Ends
  <2>3. QED
    BY <2>1, <2>2
<1>2. /\ s \in Scenes /\ c \in Codes /\ sceneOf[c] = s /\ MaxAttempts \in Nat \ {0}
      /\ attemptsFor'[s] \in {attemptsFor[s], code[s]}
      /\ \A t \in Scenes : t # s => attemptsFor'[t] = attemptsFor[t]
      /\ \A t \in Scenes : code[t] # None => sceneOf[code[t]] = t
  BY <1>0, Facts DEF Reading
<1>3. Tried(p) /\ Sees(p) /\ (c \notin disturbed /\ code[s] = c => wrong[c] = 1)
  BY <1>0 DEF Guarded, Tried, Trying, Reading
<1>4. \A q \in Procs \ {p} : Fresh(q)' /\ Tried(q)' /\ Sees(q)'
  <2>1. ASSUME NEW q \in Procs \ {p}
        PROVE  Fresh(q)' /\ Tried(q)' /\ Sees(q)'
    BY <1>0, OthersGuarded
  <2>2. QED
    BY <2>1
<1> HIDE DEF s, c
<1>5. Fresh(p)' /\ Tried(p)' /\ Sees(p)'
  <2>1. Has(p) => req'[p].saved = c /\ req'[p].scene = s
    BY DEF Has, s, c
  <2>2. c \notin disturbed => Unused(c)
    BY <1>0, <1>3 DEF Tried, Trying, Reading, c
  <2>3. Fresh(p)'
    BY <1>1 DEF Fresh, Slot
  <2>4. Tried(p)'
    BY <1>0, <1>1, <1>2, <1>3, <2>1, <2>2 DEF Tried, Unused, Trying, Reading
  <2>5. Sees(p)'
    BY <1>0, <1>1, <1>3, <2>1 DEF Sees, Placed, Trying, Reading, c, s
  <2>6. QED
    BY <2>3, <2>4, <2>5
<1>6. ASSUME NEW t \in Scenes
      PROVE  Live(t)'
  <2>0. \A q \in Procs \ {p} : req[q].pc \in Placed \cup Guessing =>
           req'[q].pc = req[q].pc /\ req'[q].code = req[q].code /\ req'[q].saved = req[q].saved
    BY <1>0 DEF Others, Has
  <2>1. CASE t = s /\ code[s] # None /\ code[s] \notin disturbed
    <3>1. code[s] = c /\ Live(s)
      BY <1>0, <1>2, <1>3, <2>1 DEF Sees, Trying, Reading, Guarded, s, c
    <3>2. wrong[c] < MaxAttempts \/ (req'[p].pc \in Guessing /\ req'[p].saved = c)
      BY <1>1, <1>2, <1>3, <2>1, <3>1 DEF Guessing, Has, c
    <3>3. \A q \in Procs : req[q].pc \in Placed /\ req[q].code = c =>
             req'[q].pc \in Placed /\ req'[q].code = c
      BY <1>0, <2>0 DEF Placed
    <3>4. QED
      BY <1>0, <1>2, <2>1, <3>1, <3>2, <3>3 DEF Live, Unused
  <2>2. CASE t # s /\ code[t] # None
    <3>1. Live(t) /\ code[t] # c
      BY <1>2, <2>2 DEF Guarded
    <3>2. \A q \in Procs : /\ req[q].pc \in Placed => req'[q].pc \in Placed
                                                     /\ req'[q].code = req[q].code
                           /\ req[q].pc \in Guessing /\ req[q].saved = code[t] =>
                                req'[q].pc \in Guessing /\ req'[q].saved = code[t]
      BY <1>0, <2>0, <3>1 DEF Placed, c
    <3>3. QED
      BY <1>0, <1>2, <2>2, <3>1, <3>2 DEF Live, Unused
  <2>3. QED
    BY <1>0, <2>1, <2>2 DEF Live
<1>7. \A d \in Codes : Kept(d)'
  BY <1>0 DEF Guarded, Kept
<1>8. QED
  BY <1>4, <1>5, <1>6, <1>7 DEF Guarded

\* A verifier deletes the code under its key, used or exhausted.
LEMMA DeletesKeep ==
    ASSUME Base, Guarded, NEW p \in Procs, Busy(p), Others(p), req[p].pc \in Reading,
           req'[p].pc \in {"idle", "create"},
           code' = [code EXCEPT ![req[p].scene] = None], DropAttempts(req[p].scene),
           UNCHANGED <<delivered, wrong, sceneOf, disturbed>>,
           \A d \in Codes : d # req[p].saved => uses'[d] = uses[d],
           gone \subseteq gone',
           NEW t \in Scenes
    PROVE  /\ \A q \in Procs : Fresh(q)' /\ Tried(q)' /\ Sees(q)'
           /\ Live(t)'
<1> DEFINE s == req[p].scene
           c == req[p].saved
<1>1. /\ s \in Scenes /\ c \in Codes /\ sceneOf[c] = s
      /\ code'[s] = None
      /\ t # s => /\ code'[t] = code[t] /\ attempts'[t] = attempts[t]
                  /\ attemptsFor'[t] = attemptsFor[t]
      /\ \A x \in Scenes : code'[x] \in {code[x], None}
      /\ code[t] # None => sceneOf[code[t]] = t /\ code[t] \in Codes
  BY Facts DEF DropAttempts
<1>2. \A q \in Procs \ {p} : Fresh(q)' /\ Tried(q)' /\ Sees(q)'
  <2>1. ASSUME NEW q \in Procs \ {p}
        PROVE  Fresh(q)' /\ Tried(q)' /\ Sees(q)'
    BY <1>1, OthersGuarded
  <2>2. QED
    BY <2>1
<1>3. Fresh(p)' /\ Tried(p)' /\ Sees(p)'
  BY DEF Fresh, Tried, Sees, Slot, Trying, Reading, Placed
<1> HIDE DEF s, c
<1>4. Live(t)'
  <2>1. CASE t # s /\ code[t] # None
    <3>1. Live(t) /\ code[t] # c /\ code[t] \in Codes
      BY <1>1, <2>1 DEF Guarded
    <3>2. \A q \in Procs \ {p} : req[q].pc \in Placed \cup Guessing =>
             req'[q].pc = req[q].pc /\ req'[q].code = req[q].code /\ req'[q].saved = req[q].saved
      BY DEF Others, Has
    <3>3. \A q \in Procs : /\ req[q].pc \in Placed => req'[q].pc \in Placed
                                                     /\ req'[q].code = req[q].code
                           /\ req[q].pc \in Guessing /\ req[q].saved = code[t] =>
                                req'[q].pc \in Guessing /\ req'[q].saved = code[t]
      BY <3>1, <3>2 DEF Placed, Reading, c
    <3>4. uses'[code[t]] = uses[code[t]]
      BY <3>1 DEF c
    <3>5. QED
      BY <1>1, <2>1, <3>1, <3>3, <3>4 DEF Live, Unused
  <2>2. QED
    BY <1>1, <2>1 DEF Live
<1>5. QED
  BY <1>2, <1>3, <1>4

LEMMA ExhaustKeeps ==
    ASSUME Base, Guarded, NEW p \in Procs, Exhaust(p)
    PROVE  Guarded'
<1> DEFINE s == req[p].scene
           c == req[p].saved
<1>0. /\ req[p].pc = "exhaust" /\ Busy(p) /\ Others(p) /\ req'[p].pc = "idle"
      /\ code' = [code EXCEPT ![s] = None] /\ DropAttempts(s)
      /\ gone \subseteq gone' /\ (wrong[c] >= MaxAttempts => c \in gone')
      /\ UNCHANGED <<delivered, uses, wrong, sceneOf, disturbed>>
  <2>1. Others(p) /\ req'[p].pc = "idle"
    BY Facts, EndEnds DEF Exhaust, Ends
  <2>2. QED
    BY <2>1 DEF Exhaust, Busy, At
<1>1. s \in Scenes /\ \A t \in Scenes : t # s => code'[t] = code[t]
  BY <1>0, Facts
<1>2. \A t \in Scenes : Live(t)'
  BY <1>0, DeletesKeep DEF Reading
<1>3. \A q \in Procs : Fresh(q)' /\ Tried(q)' /\ Sees(q)'
  BY <1>0, <1>1, DeletesKeep DEF Reading
<1>4. ASSUME NEW d \in Codes
      PROVE  Kept(d)'
  <2>1. Kept(d) /\ Sees(p) /\ Tried(p)
    BY <1>0 DEF Guarded
  <2>2. code[s] = d /\ d \notin disturbed => d \in gone'
    <3>1. ASSUME code[s] = d, d \notin disturbed
          PROVE  d \in gone'
      <4>1. d = c
        BY <1>0, <2>1, <3>1, Facts DEF Sees, Trying, Reading
      <4>2. wrong[c] >= MaxAttempts
        BY <1>0, <2>1, <3>1, <4>1 DEF Tried, Trying, Reading
      <4>3. QED
        BY <1>0, <4>1, <4>2
    <3>2. QED
      BY <3>1
  <2>3. ASSUME d \in delivered \ gone', d \notin disturbed
        PROVE  \E t \in Scenes : code'[t] = d
    BY <1>0, <1>1, <2>1, <2>2, <2>3 DEF Kept
  <2>4. QED
    BY <1>0, <2>1, <2>3 DEF Kept
<1>5. QED
  BY <1>2, <1>3, <1>4 DEF Guarded

\* A code is accepted: nobody else holds it, and it has left its key.
LEMMA ConsumeKeeps ==
    ASSUME Base, Guarded, NEW p \in Procs, Consume(p)
    PROVE  Guarded'
<1> DEFINE s == req[p].scene
           c == req[p].saved
<1>0. /\ req[p].pc = "consume" /\ Busy(p) /\ Others(p) /\ req'[p].pc \in {"idle", "create"}
      /\ code' = [code EXCEPT ![s] = None] /\ DropAttempts(s)
      /\ gone' = gone \cup {c}
      /\ uses' = [uses EXCEPT ![c] = [uses[c] EXCEPT ![s] = @ + 1]]
      /\ UNCHANGED <<delivered, wrong, sceneOf, disturbed>>
  <2>1. Others(p) /\ req'[p].pc \in {"idle", "create"}
    <3>1. CASE s = "register"
      BY <3>1, Facts, GotoMoves DEF Consume, Moves, Steps
    <3>2. CASE s # "register"
      BY <3>2, Facts, EndEnds DEF Consume, Ends
    <3>3. QED
      BY <3>1, <3>2
  <2>2. QED
    BY <2>1 DEF Consume, Busy, At
<1>1. /\ s \in Scenes /\ c \in Codes /\ sceneOf[c] = s
      /\ \A t \in Scenes : t # s => code'[t] = code[t]
      /\ uses \in [Codes -> [Scenes -> Nat]]
  BY <1>0, Facts DEF Reading
<1>a. /\ \A d \in Codes : d # c => uses'[d] = uses[d]
      /\ \A t \in Scenes : uses'[c][t] = IF t = s THEN uses[c][s] + 1 ELSE uses[c][t]
  BY <1>0, <1>1
<1>2. \A t \in Scenes : Live(t)'
  BY <1>0, <1>a, DeletesKeep DEF Reading
<1>3. \A q \in Procs : Fresh(q)' /\ Tried(q)' /\ Sees(q)'
  BY <1>0, <1>a, <1>1, DeletesKeep DEF Reading
<1>4. ASSUME NEW d \in Codes
      PROVE  Kept(d)'
  <2>1. Kept(d) /\ Sees(p) /\ Tried(p)
    BY <1>0 DEF Guarded
  <2>2. code[s] = d /\ d \notin disturbed => d \in gone'
    BY <1>0, <2>1, Facts DEF Sees, Trying, Reading
  <2>3. ASSUME d \in delivered \ gone', d \notin disturbed
        PROVE  \E t \in Scenes : code'[t] = d
    BY <1>0, <1>1, <2>1, <2>2, <2>3 DEF Kept
  <2>4. c \notin disturbed => \A t \in Scenes : uses[c][t] = 0
    BY <1>0, <2>1 DEF Tried, Trying, Reading, Unused
  <2> HIDE DEF s, c
  <2>5. ASSUME NEW t \in Scenes
        PROVE  /\ uses'[d][t] > 0 => t = sceneOf'[d]
               /\ d \notin disturbed' => uses'[d][t] <= 1
    <3>1. CASE d = c
      BY <1>0, <1>1, <1>a, <2>1, <2>4, <3>1 DEF Kept
    <3>2. CASE d # c
      BY <1>0, <1>a, <2>1, <3>2 DEF Kept
    <3>3. QED
      BY <3>1, <3>2
  <2>6. QED
    BY <1>0, <2>1, <2>3, <2>5 DEF Kept
<1>5. QED
  BY <1>2, <1>3, <1>4 DEF Guarded

\* A new code is drawn: it has no history.
LEMMA DrawGuarded ==
    ASSUME Base, Guarded, NEW p \in Procs, Draws(p)
    PROVE  Guarded'
<1> DEFINE c == generated'
<1>0. /\ req[p].pc = "cooldown" /\ Busy(p) /\ Others(p) /\ req'[p].pc = "reserve"
      /\ req'[p].code = c /\ c \in Codes /\ c > generated /\ generated \in Nat
      /\ disturbed \subseteq disturbed'
      /\ sceneOf' = [sceneOf EXCEPT ![c] = req[p].scene]
      /\ UNCHANGED <<code, attempts, attemptsFor, delivered, gone, uses, wrong>>
  BY DEF Draws, Busy, Base, Typed
<1>1. wrong[c] = 0 /\ Unused(c) /\ c \notin delivered
  BY <1>0 DEF Base, Keyed, Unused
<1> HIDE DEF c
<1>2. \A q \in Procs \ {p} : Fresh(q)' /\ Tried(q)' /\ Sees(q)'
  <2>1. ASSUME NEW q \in Procs \ {p}
        PROVE  Fresh(q)' /\ Tried(q)' /\ Sees(q)'
    BY <1>0, OthersGuarded
  <2>2. QED
    BY <2>1
<1>3. Fresh(p)' /\ Tried(p)' /\ Sees(p)'
  BY <1>0, <1>1 DEF Fresh, Tried, Sees, Unused, Trying, Reading, Placed, Setting
<1>4. ASSUME NEW t \in Scenes
      PROVE  Live(t)'
  <2>1. Live(t)
    BY DEF Guarded
  <2>2. \A q \in Procs : req[q].pc \in Placed \cup Guessing =>
           req'[q].pc = req[q].pc /\ req'[q].code = req[q].code /\ req'[q].saved = req[q].saved
    BY <1>0 DEF Others, Has, Placed, Guessing
  <2>3. QED
    BY <1>0, <2>1, <2>2 DEF Live, Unused
<1>5. ASSUME NEW d \in Codes
      PROVE  Kept(d)'
  <2>1. Kept(d) /\ (d # c => sceneOf'[d] = sceneOf[d])
    BY <1>0 DEF Guarded, Base, Typed
  <2>2. d = c => \A t \in Scenes : uses[d][t] = 0
    BY <1>1 DEF Unused
  <2>3. QED
    BY <1>0, <1>1, <2>1, <2>2 DEF Kept
<1>6. QED
  BY <1>2, <1>3, <1>4, <1>5 DEF Guarded

\* A request arrives, and disturbs what it finds at work.
LEMMA ArriveGuarded ==
    ASSUME Base, Guarded, NEW p \in Procs, Arrives(p), Meets(p),
           UNCHANGED <<code, attempts, attemptsFor, delivered, gone, uses, wrong, sceneOf>>
    PROVE  Guarded'
<1>0. /\ ~Busy(p) /\ Others(p) /\ req'[p].pc \in {"eligible", "limit"}
      /\ disturbed \subseteq disturbed'
  BY DEF Arrives, Meets
<1>1. ASSUME NEW q \in Procs \ {p}
      PROVE  Fresh(q)' /\ Tried(q)' /\ Sees(q)'
  <2>0. /\ req'[q].pc = req[q].pc /\ req'[q].code = req[q].code
        /\ req'[q].saved = req[q].saved /\ req'[q].scene = req[q].scene
    BY <1>0 DEF Others, Has
  <2>1. Busy(q) => {req[q].code, req[q].saved} \cap Codes \subseteq disturbed'
    BY DEF Meets, Touches
  <2>2. req[q].pc \in Slot \cup Trying => Busy(q)
    BY DEF Busy, Slot, Trying, Reading
  <2>3. req[q].pc \in Slot => req[q].code \in disturbed'
    BY <2>1, <2>2, OwnCodes
  <2>4. req[q].pc \in Trying => req[q].saved \in disturbed'
    BY <2>1, <2>2, OwnCodes DEF Trying
  <2>5. Fresh(q)' /\ Tried(q)'
    BY <2>0, <2>3, <2>4 DEF Fresh, Tried
  <2>6. Sees(q)
    BY DEF Guarded
  <2>7. QED
    BY <1>0, <2>0, <2>5, <2>6 DEF Sees
<1>2. Fresh(p)' /\ Tried(p)' /\ Sees(p)'
  BY <1>0 DEF Fresh, Tried, Sees, Slot, Trying, Reading, Placed
<1>3. ASSUME NEW t \in Scenes
      PROVE  Live(t)'
  <2>1. Live(t)
    BY DEF Guarded
  <2>2. \A q \in Procs : req[q].pc \in Placed \cup Guessing =>
           req'[q].pc = req[q].pc /\ req'[q].code = req[q].code /\ req'[q].saved = req[q].saved
    BY <1>0 DEF Others, Has, Placed, Guessing, Busy
  <2>3. QED
    BY <1>0, <2>1, <2>2 DEF Live, Unused
<1>4. \A d \in Codes : Kept(d)'
  BY <1>0 DEF Guarded, Kept
<1>5. QED
  BY <1>1, <1>2, <1>3, <1>4 DEF Guarded

LEMMA PassGuarded ==
    ASSUME Base, Guarded, Passes
    PROVE  Guarded'
<1>1. ASSUME NEW s \in Scenes, ExpireCode(s)
      PROVE  Guarded'
  <2>1. /\ code' = [code EXCEPT ![s] = None] /\ gone' = gone \cup {code[s]}
        /\ UNCHANGED <<attempts, attemptsFor, req, delivered, uses, wrong, sceneOf, disturbed>>
    BY <1>1 DEF ExpireCode
  <2>2. code'[s] = None /\ \A t \in Scenes : t # s => code'[t] = code[t]
    BY <2>1 DEF Base, Typed
  <2>3. ASSUME NEW p \in Procs
        PROVE  Fresh(p)' /\ Tried(p)' /\ Sees(p)'
    <3>1. Fresh(p) /\ Tried(p) /\ Sees(p) /\ req[p].scene \in Scenes
      BY Facts DEF Guarded
    <3>2. req[p].pc \in Reading => req[p].saved \in Codes /\ None \notin Codes
      BY Facts
    <3>3. Fresh(p)'
      BY <2>1, <2>2, <3>1 DEF Fresh, Unused
    <3>4. Tried(p)'
      BY <2>1, <2>2, <3>1, <3>2 DEF Tried, Unused, Trying
    <3>5. Sees(p)'
      BY <2>1, <2>2, <3>1 DEF Sees
    <3>6. QED
      BY <3>3, <3>4, <3>5
  <2>4. \A t \in Scenes : Live(t)'
    BY <2>1, <2>2 DEF Guarded, Live, Unused
  <2>5. ASSUME NEW d \in Codes
        PROVE  Kept(d)'
    <3>1. Kept(d)
      BY DEF Guarded
    <3>2. \A t \in Scenes : code[t] = d => d \in gone' \/ code'[t] = d
      BY <2>1, <2>2
    <3>3. QED
      BY <2>1, <3>1, <3>2 DEF Kept
  <2>6. QED
    BY <2>3, <2>4, <2>5 DEF Guarded
<1>2. ASSUME NEW s \in Scenes, ExpireAttempts(s)
      PROVE  Guarded'
  <2>1. /\ attemptsFor[s] # None /\ attemptsFor[s] # code[s] /\ DropAttempts(s)
        /\ UNCHANGED <<code, req, delivered, gone, uses, wrong, sceneOf, disturbed>>
    BY <1>2 DEF ExpireAttempts, history
  <2>2. /\ attempts'[s] = 0 /\ attemptsFor'[s] = None
        /\ \A t \in Scenes : t # s => attempts'[t] = attempts[t] /\ attemptsFor'[t] = attemptsFor[t]
    BY <2>1 DEF DropAttempts, Base, Typed
  <2>3. ASSUME NEW p \in Procs
        PROVE  Fresh(p)' /\ Tried(p)' /\ Sees(p)'
    <3>1. Fresh(p) /\ Tried(p) /\ Sees(p) /\ req[p].scene \in Scenes
      BY Facts DEF Guarded
    <3>2. Fresh(p)'
      BY <2>1, <2>2, <3>1 DEF Fresh, Unused
    <3>3. Tried(p)' /\ Sees(p)'
      BY <2>1, <3>1 DEF Tried, Sees, Unused
    <3>4. QED
      BY <3>2, <3>3
  <2>4. ASSUME NEW t \in Scenes
        PROVE  Live(t)'
    <3>1. Live(t)
      BY DEF Guarded
    <3>2. QED
      BY <2>1, <2>2, <3>1 DEF Live, Unused
  <2>5. \A d \in Codes : Kept(d)'
    BY <2>1 DEF Guarded, Kept
  <2>6. QED
    BY <2>3, <2>4, <2>5 DEF Guarded
<1>3. ASSUME UNCHANGED <<code, attempts, attemptsFor, req, delivered, gone, uses, wrong,
                         sceneOf, disturbed>>
      PROVE  Guarded'
  BY <1>3 DEF Guarded, Fresh, Tried, Sees, Live, Kept, Unused
<1>4. CASE ExpireCooldown \/ WindowEnds \/ Midnight \/ MoveAway
  BY <1>3, <1>4 DEF ExpireCooldown, WindowEnds, Midnight, MoveAway, keys, history
<1>5. QED
  BY <1>1, <1>2, <1>4 DEF Passes

\* The steps of a handler that leave the codes' keys alone.
Aside(p) ==
    \/ Limit(p) \/ ExpireHits(p) \/ CheckEligibility(p)
    \/ ReserveDailySendSlot(p) \/ ExpireDay(p) \/ SetCooldown(p) \/ SendFails(p)
    \/ UndoFails(p) \/ Release(p) \/ CreateWithPhone(p) \/ UpdatePhone(p) \/ Fault(p)

LEMMA AsideStays ==
    ASSUME Base, NEW p \in Procs, Aside(p)
    PROVE  Stays(p)
<1> USE DEF At, Slot, Placed, Setting, Trying, Reading, Guessing
<1>0. req \in [Procs -> Request] /\ Walks(p)
  BY Facts, WalkKeeps DEF Aside, Walk
<1>1. CASE Limit(p) \/ ExpireHits(p) \/ CheckEligibility(p)
  <2>1. req[p].pc \in {"limit", "expireHits", "eligible"}
    BY <1>1 DEF Limit, ExpireHits, CheckEligibility
  <2>2. QED
    BY <1>0, <2>1 DEF Walks, Stays
<1>2. CASE ReserveDailySendSlot(p)
  <2> DEFINE pc == IF daily[day] + 1 = 1 THEN "expireDay"
                   ELSE IF daily[day] + 1 > DailyLimit THEN "release" ELSE "code"
  <2>1. pc \in {"expireDay", "release", "code"}
    OBVIOUS
  <2>2. req' = [req EXCEPT ![p].day = day, ![p].pc = pc] /\ req[p].pc = "reserve"
    BY <1>2 DEF ReserveDailySendSlot
  <2> HIDE DEF pc
  <2>3. pc \in Steps /\ day \in Days
    BY <2>1 DEF Steps, Base, Typed
  <2>4. Takes(p, pc) /\ req'[p].code = req[p].code /\ req'[p].saved = req[p].saved
    BY <1>0, <2>2, <2>3, ReserveFields
  <2>5. QED
    BY <2>1, <2>2, <2>4 DEF Takes, Has, Stays
<1>3. CASE ExpireDay(p)
  BY <1>0, <1>3, GotoMoves DEF ExpireDay, Moves, Stays, Steps
<1>4. CASE SetCooldown(p)
  BY <1>0, <1>4, GotoMoves DEF SetCooldown, Moves, Stays, Steps
<1>5. CASE SendFails(p)
  <2> DEFINE pc == OnError(req[p].pc).pc
  <2>1. /\ pc = IF req[p].pc = "code" THEN "release" ELSE "undo"
        /\ OnError(req[p].pc).undo \in SUBSET {"code", "cooldown", "attempts"}
        /\ req[p].pc \in {"code", "mark", "reset", "sms"}
    BY <1>5 DEF SendFails, OnError
  <2>2. pc \in Steps
    BY <2>1 DEF Steps
  <2>3. Moves(p, pc)
    BY <1>0, <1>5, <2>1, <2>2, FailMoves DEF SendFails
  <2>4. QED
    BY <2>1, <2>3 DEF Moves, Stays
<1>6. CASE UndoFails(p)
  <2>1. req[p].code \in disturbed' /\ req[p].pc = "undo"
    BY <1>6, OwnCodes DEF UndoFails, Touches
  <2>2. Moves(p, "release")
    BY <1>0, <1>6, GotoMoves DEF UndoFails, Steps
  <2>3. QED
    BY <2>1, <2>2 DEF Moves, Stays
<1>7. CASE Release(p) \/ CreateWithPhone(p)
  BY <1>0, <1>7, EndEnds DEF Release, CreateWithPhone, Ends, Stays
<1>8. CASE UpdatePhone(p)
  <2>1. CASE End(p)
    BY <1>0, <1>8, <2>1, EndEnds DEF UpdatePhone, Ends, Stays
  <2>2. CASE Goto(p, "consume")
    BY <1>0, <1>8, <2>2, GotoMoves DEF UpdatePhone, Moves, Stays, Steps
  <2>3. QED
    BY <1>8, <2>1, <2>2 DEF UpdatePhone
<1>9. CASE Fault(p)
  <2>1. /\ req[p].pc \in Slot => req[p].code \in disturbed'
        /\ req[p].pc \in Reading => req[p].saved \in disturbed'
    BY <1>9, OwnCodes DEF Fault, Touches
  <2>2. req'[p].pc \in {"idle", "eligible", "get"}
    <3>1. CASE End(p)
      BY <1>0, <3>1, EndEnds DEF Ends
    <3>2. CASE Goto(p, IF req[p].send THEN "eligible" ELSE "get")
      BY <1>0, <3>2, GotoMoves DEF Moves, Steps
    <3>3. QED
      BY <1>9, <3>1, <3>2 DEF Fault
  <2>3. QED
    BY <2>1, <2>2 DEF Stays
<1>10. QED
  BY <1>1, <1>2, <1>3, <1>4, <1>5, <1>6, <1>7, <1>8, <1>9 DEF Aside

LEMMA AsideKeeps ==
    ASSUME Base, Guarded, NEW p \in Procs, Aside(p)
    PROVE  Guarded'
<1>1. Walks(p) /\ Stays(p)
  BY AsideStays, WalkKeeps DEF Aside, Walk
<1>2. UNCHANGED <<code, attempts, attemptsFor, gone, uses, wrong>>
  BY DEF Aside, Limit, ExpireHits, CheckEligibility, ReserveDailySendSlot, ExpireDay,
     SetCooldown, SendFails, UndoFails, Release, CreateWithPhone, UpdatePhone, Fault,
     keys, bounds, history
<1>3. QED
  BY <1>1, <1>2, QuietKeeps DEF Walks

LEMMA GuardedStep ==
    ASSUME Base, Guarded, [Next]_vars
    PROVE  Guarded'
<1>1. ASSUME NEW p \in Procs, Arrive(p)
      PROVE  Guarded'
  <2>1. UNCHANGED <<code, attempts, attemptsFor, delivered, gone, uses, wrong, sceneOf>>
    BY <1>1 DEF Arrive, SendAuthCode, SendPhoneVerificationCode, RegisterByPhone, LoginByCode,
       VerifyPhoneCode, Begin, keys
  <2>2. QED
    BY <1>1, <2>1, ArrivalKeeps, ArriveGuarded
<1>2. ASSUME NEW p \in Procs, Walks(p) /\ Ends(p) /\ UNCHANGED <<keys, bounds, history>>,
             req[p].pc \in {"cooldown", "get"}
      PROVE  Guarded'
  <2>1. Stays(p)
    BY <1>2 DEF Ends, Stays, Slot, Trying, Reading, Placed, Guessing
  <2>2. QED
    BY <1>2, <2>1, QuietKeeps DEF Walks, keys, history
<1>3. ASSUME NEW p \in Procs, CheckCooldown(p)
      PROVE  Guarded'
  BY <1>2, <1>3, DrawKeeps, DrawGuarded DEF CheckCooldown, At
<1>4. ASSUME NEW p \in Procs, GetCode(p)
      PROVE  Guarded'
  BY <1>2, <1>4, ReadKeeps, ReadGuarded DEF GetCode, At
<1>5. ASSUME NEW p \in Procs, Walk(p)
      PROVE  Guarded'
  BY <1>5, AsideKeeps, SetCodeKeeps, ResetKeeps, UndoKeeps, GuessKeeps, TTLKeeps,
     ExhaustKeeps, ConsumeKeeps DEF Walk, Aside
<1>6. CASE UNCHANGED vars
  BY <1>6 DEF vars, keys, bounds, history, Guarded, Fresh, Tried, Sees, Live, Kept, Unused
<1>7. QED
  BY <1>1, <1>3, <1>4, <1>5, <1>6, Cases, SendKeeps, PassGuarded

LEMMA GuardedInit ==
    ASSUME Init
    PROVE  Guarded
<1>0. /\ \A p \in Procs : req[p].pc = "idle"
      /\ attempts = [s \in Scenes |-> 0] /\ attemptsFor = [s \in Scenes |-> None]
      /\ uses = [c \in Codes |-> [s \in Scenes |-> 0]]
      /\ wrong = [c \in Codes |-> 0]
      /\ MaxAttempts \in Nat \ {0} /\ None # 1 /\ 1 \in Codes
  BY PhoneCodesAssumption DEF Init, NoRequest, Codes, PhoneCodesAssumption
<1>1. /\ \A s \in Scenes : code[s] # None => code[s] = 1 /\ delivered = {1}
      /\ \A c \in delivered : \E s \in Scenes : code[s] = c
  <2>1. CASE NoCode
    BY <2>1 DEF NoCode
  <2>2. CASE OneCode
    <3>1. PICK s \in Scenes :
            code = [[t \in Scenes |-> None] EXCEPT ![s] = 1] /\ delivered = {1}
      BY <2>2 DEF OneCode
    <3>2. QED
      BY <3>1
  <2>3. QED
    BY <2>1, <2>2 DEF Init
<1>2. \A p \in Procs : Fresh(p) /\ Tried(p) /\ Sees(p)
  BY <1>0 DEF Fresh, Tried, Sees, Slot, Trying, Reading, Placed
<1>3. \A s \in Scenes : Live(s)
  BY <1>0, <1>1 DEF Live, Unused
<1>4. \A c \in Codes : Kept(c)
  BY <1>0, <1>1 DEF Kept
<1>5. QED
  BY <1>2, <1>3, <1>4 DEF Guarded

\* A code is accepted once, in its scene, and can be guessed at MaxAttempts times;
\* only overlapping or failing handlers get past that (verifyAndConsumePhoneCode).
THEOREM GuardedCodes == Spec => []CodesAreGuarded
<1>1. Init => Base /\ Guarded
  BY BaseInit, GuardedInit
<1>2. Base /\ Guarded /\ [Next]_vars => (Base /\ Guarded)'
  BY BaseStep, GuardedStep
<1>3. Base /\ Guarded => CodesAreGuarded
  <2> SUFFICES ASSUME Base, Guarded
               PROVE  CodesAreGuarded
    OBVIOUS
  <2>1. uses \in [Codes -> [Scenes -> Nat]] /\ {"register", "login"} \subseteq Scenes
    BY DEF Base, Typed, Scenes
  <2>2. \A c \in Codes : Kept(c)
    BY DEF Guarded
  <2>3. UsedOnce
    <3>1. ASSUME NEW c \in Codes, NEW s \in {"register", "login"}, uses[c][s] > 1
          PROVE  c \in disturbed
      BY <2>1, <2>2, <3>1 DEF Kept
    <3>2. QED
      BY <3>1 DEF UsedOnce
  <2>4. ScenesStayApart
    BY <2>2 DEF Kept, ScenesStayApart
  <2>5. GuessesBounded
    BY <2>2 DEF Kept, GuessesBounded
  <2>6. QED
    BY <2>3, <2>4, <2>5 DEF CodesAreGuarded
<1>4. QED
  BY <1>1, <1>2, <1>3, PTL DEF Spec

\* What reached the phone works until it expires, is replaced, used or exhausted; only
\* overlapping or failing handlers destroy it otherwise (SendCode's undo, the DELs).
THEOREM DeliveredLive == Spec => []DeliveredCodeLives
<1>1. Init => Base /\ Guarded
  BY BaseInit, GuardedInit
<1>2. Base /\ Guarded /\ [Next]_vars => (Base /\ Guarded)'
  BY BaseStep, GuardedStep
<1>3. Base /\ Guarded => DeliveredCodeLives
  <2> SUFFICES ASSUME Base, Guarded, NEW c \in delivered \ (gone \cup disturbed)
               PROVE  code[sceneOf[c]] = c
    BY DEF DeliveredCodeLives
  <2>1. c \in Codes /\ Kept(c)
    BY DEF Guarded, Base, Typed
  <2>2. PICK s \in Scenes : code[s] = c
    BY <2>1 DEF Kept
  <2>3. c # None
    BY <2>1, PhoneCodesAssumption DEF Codes, PhoneCodesAssumption
  <2>4. QED
    BY <2>2, <2>3 DEF Base, Keyed
<1>4. QED
  BY <1>1, <1>2, <1>3, PTL DEF Spec
=============================================================================
