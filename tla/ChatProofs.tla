----------------------------- MODULE ChatProofs -----------------------------
(***************************************************************************)
(* Theorems about Chat: a refused chat leaves nothing behind, and without  *)
(* overlapping requests a turn's question stays in the history.            *)
(***************************************************************************)
EXTENDS Chat, TLAPS

\* A short name for each class of steps: they differ in what they do to the messages.
Shrink(t) ==
    /\ t \in Seq(Message)
    /\ Len(t) <= Len(msgs)
    /\ \A i \in 1..Len(t) : t[i] = msgs[i]

\* Messages are in the order of their ids, and no id is above the newest.
Ordered ==
    /\ \A i, j \in DOMAIN msgs : i < j => msgs[i].id < msgs[j].id
    /\ \A i \in DOMAIN msgs : msgs[i].id <= lastId

\* What a request's message is at each of its calls.
Purposes ==
    \A p \in Procs :
        /\ req[p].pc \in {"list", "soft", "add"} => req[p].msg = 0
        /\ req[p].pc = "add" => req[p].kind = "Chat"
        /\ req[p].pc = "start" /\ req[p].kind # "Chat" => req[p].msg = 0

Shape == TypeOK /\ Ordered /\ Purposes /\ faults <= MaxFaults

-----------------------------------------------------------------------------
(* The messages *)

\* Rolling back keeps a beginning of the messages, without the anchor if it is inclusive.
LEMMA RolledShrinks ==
    ASSUME TypeOK, Ordered, NEW m, NEW incl \in BOOLEAN
    PROVE  /\ Shrink(Rolled(msgs, m, incl))
           /\ incl => m \notin Ids(Rolled(msgs, m, incl))
<1> DEFINE t == Rolled(msgs, m, incl)
<1>1. msgs \in Seq(Message)
  BY DEF TypeOK
<1>2. CASE m \notin Ids(msgs)
  <2>1. t = msgs
    BY <1>2 DEF Rolled
  <2> QED BY <2>1, <1>1, <1>2 DEF Shrink
<1>3. CASE m \in Ids(msgs)
  <2> DEFINE k == Place(msgs, m)
             n == IF incl THEN k - 1 ELSE k
  <2>1. k \in DOMAIN msgs /\ msgs[k].id = m
    BY <1>3 DEF Ids, Place
  <2>2. k \in 1..Len(msgs)
    BY <2>1, <1>1
  <2>3. n \in 0..Len(msgs)
    BY <2>2
  <2>4. t = SubSeq(msgs, 1, n)
    BY <1>3 DEF Rolled
  <2> HIDE DEF k, n, t
  <2>5. t \in Seq(Message) /\ Len(t) = n /\ \A i \in 1..n : t[i] = msgs[i]
    BY <2>3, <2>4, <1>1
  <2>6. Shrink(t)
    BY <2>5, <2>3, <1>1 DEF Shrink
  <2>7. ASSUME incl PROVE m \notin Ids(t)
    <3>1. n = k - 1
      BY <2>7 DEF n
    <3>2. ASSUME NEW i \in DOMAIN t PROVE t[i].id # m
      <4>1. i \in 1..n /\ t[i] = msgs[i]
        BY <2>5
      <4>2. i \in DOMAIN msgs /\ i < k
        BY <4>1, <3>1, <2>2, <1>1
      <4>3. msgs[i].id < msgs[k].id
        BY <4>2, <2>1 DEF Ordered
      <4>4. msgs[i] \in Message /\ msgs[k] \in Message
        BY <4>2, <2>1, <1>1
      <4>5. msgs[i].id \in Nat /\ msgs[k].id \in Nat
        BY <4>4 DEF Message
      <4> QED BY <4>1, <4>3, <4>5, <2>1
    <3> QED BY <3>2 DEF Ids
  <2> QED BY <2>6, <2>7 DEF t
<1> QED BY <1>2, <1>3

LEMMA RollBack ==
    ASSUME Shape, NEW m, NEW incl \in BOOLEAN, msgs' = Rolled(msgs, m, incl)
    PROVE  Shrink(msgs') /\ (incl => m \notin Ids(msgs'))
<1>1. /\ Shrink(Rolled(msgs, m, incl))
      /\ incl => m \notin Ids(Rolled(msgs, m, incl))
  BY RolledShrinks DEF Shape
<1> QED BY <1>1

\* What a new message changes.
LEMMA Inserted ==
    ASSUME Shape, NEW via \in {"chat", "post", "reply"}, Insert(via)
    PROVE  /\ msgs' \in Seq(Message)
           /\ lastId' = lastId + 1 /\ lastId \in Nat
           /\ Len(msgs') = Len(msgs) + 1 /\ Len(msgs) \in Nat
           /\ \A i \in 1..Len(msgs) : msgs'[i] = msgs[i]
           /\ msgs'[Len(msgs) + 1] = [id |-> lastId + 1, via |-> via]
<1>1. msgs \in Seq(Message) /\ lastId \in Nat
  BY DEF Shape, TypeOK
<1>2. [id |-> lastId + 1, via |-> via] \in Message
  BY <1>1 DEF Message
<1> DEFINE r == [id |-> lastId + 1, via |-> via]
<1>3. msgs' = Append(msgs, r) /\ lastId' = lastId + 1
  BY DEF Insert
<1> HIDE DEF r
<1>4. r \in Message
  BY <1>2 DEF r
<1>5. /\ msgs' \in Seq(Message)
      /\ Len(msgs') = Len(msgs) + 1 /\ Len(msgs) \in Nat
      /\ \A i \in 1..Len(msgs) : msgs'[i] = msgs[i]
      /\ msgs'[Len(msgs) + 1] = r
  BY <1>1, <1>3, <1>4
<1> QED BY <1>1, <1>3, <1>5 DEF r

LEMMA OrderedShrink ==
    ASSUME Shape, Shrink(msgs'), lastId' = lastId
    PROVE  Ordered'
<1>1. msgs \in Seq(Message) /\ msgs' \in Seq(Message)
  BY DEF Shape, TypeOK, Shrink
<1>2. DOMAIN msgs = 1..Len(msgs) /\ DOMAIN msgs' = 1..Len(msgs') /\ Len(msgs) \in Nat /\ Len(msgs') \in Nat
  BY <1>1
<1>3. \A i \in DOMAIN msgs' : i \in DOMAIN msgs /\ msgs'[i] = msgs[i]
  BY <1>2 DEF Shrink
<1> QED BY <1>3 DEF Shape, Ordered

LEMMA OrderedInsert ==
    ASSUME Shape, NEW via \in {"chat", "post", "reply"}, Insert(via)
    PROVE  Ordered'
<1>1. /\ msgs' \in Seq(Message) /\ msgs \in Seq(Message)
      /\ lastId' = lastId + 1 /\ lastId \in Nat
      /\ Len(msgs') = Len(msgs) + 1 /\ Len(msgs) \in Nat
      /\ \A i \in 1..Len(msgs) : msgs'[i] = msgs[i]
      /\ msgs'[Len(msgs) + 1].id = lastId + 1
  <2>1. /\ msgs' \in Seq(Message)
        /\ lastId' = lastId + 1 /\ lastId \in Nat
        /\ Len(msgs') = Len(msgs) + 1 /\ Len(msgs) \in Nat
        /\ \A i \in 1..Len(msgs) : msgs'[i] = msgs[i]
        /\ msgs'[Len(msgs) + 1] = [id |-> lastId + 1, via |-> via]
    BY Inserted
  <2>2. msgs \in Seq(Message)
    BY DEF Shape, TypeOK
  <2> QED BY <2>1, <2>2
<1>2. DOMAIN msgs = 1..Len(msgs) /\ DOMAIN msgs' = 1..(Len(msgs) + 1)
  BY <1>1
<1>3. \A i \in DOMAIN msgs' : (i \in DOMAIN msgs /\ msgs'[i] = msgs[i]) \/ i = Len(msgs) + 1
  BY <1>1, <1>2
<1>4. ASSUME NEW i \in DOMAIN msgs
      PROVE  msgs[i].id \in Nat /\ msgs[i].id <= lastId /\ i <= Len(msgs)
  <2>1. msgs[i] \in Message /\ i <= Len(msgs)
    BY <1>1, <1>2
  <2>2. msgs[i].id \in Nat
    BY <2>1 DEF Message
  <2> QED BY <2>1, <2>2 DEF Shape, Ordered
<1>5. ASSUME NEW i \in DOMAIN msgs', NEW j \in DOMAIN msgs', i < j
      PROVE  msgs'[i].id < msgs'[j].id
  <2>1. i \in DOMAIN msgs /\ msgs'[i] = msgs[i]
    BY <1>5, <1>1, <1>2, <1>3
  <2>2. CASE j = Len(msgs) + 1
    <3>1. msgs[i].id \in Nat /\ msgs[i].id <= lastId
      BY <1>4, <2>1
    <3> QED BY <3>1, <2>1, <2>2, <1>1
  <2>3. CASE j \in DOMAIN msgs /\ msgs'[j] = msgs[j]
    BY <2>1, <2>3, <1>5 DEF Shape, Ordered
  <2> QED BY <2>2, <2>3, <1>3
<1>6. ASSUME NEW i \in DOMAIN msgs' PROVE msgs'[i].id <= lastId'
  <2>1. CASE i = Len(msgs) + 1
    BY <2>1, <1>1
  <2>2. CASE i \in DOMAIN msgs /\ msgs'[i] = msgs[i]
    <3>1. msgs[i].id \in Nat /\ msgs[i].id <= lastId
      BY <1>4, <2>2
    <3> QED BY <3>1, <2>2, <1>1
  <2> QED BY <2>1, <2>2, <1>3
<1> QED BY <1>5, <1>6 DEF Ordered

-----------------------------------------------------------------------------
(* Types *)

LEMMA ChatInit == Init => Shape
<1> SUFFICES ASSUME Init PROVE Shape
  OBVIOUS
<1>1. TypeOK
  <2>1. Idle \in Request /\ NoBody \in Body /\ NoBody.pc = "none"
    BY DEF Idle, Request, NoBody, Body
  <2>2. msgs \in Seq(Message)
    BY DEF Init
  <2> QED BY <2>1, <2>2, ChatAssumption DEF Init, TypeOK, R!RegInit, R!RegTypeOK
<1>2. Ordered /\ Purposes /\ faults <= MaxFaults
  BY ChatAssumption DEF Init, Idle, Ordered, Purposes
<1> QED BY <1>1, <1>2 DEF Shape

LEMMA MessageTypes ==
    ASSUME Shape, NEW via \in {"chat", "post", "reply"}, Insert(via)
    PROVE  msgs' \in Seq(Message) /\ lastId' \in Nat
<1>1. msgs' \in Seq(Message) /\ lastId' = lastId + 1 /\ lastId \in Nat
  BY Inserted
<1> QED BY <1>1

\* One step of the requests, as the types see it.
LEMMA RequestTypes ==
    ASSUME Shape, NEW p \in Procs,
           \/ \E m \in Ids(msgs), incl \in BOOLEAN : Arrive(p, "Rollback", "rollback", m, incl)
           \/ Arrive(p, "Chat", "soft", 0, TRUE) \/ Arrive(p, "Regenerate", "list", 0, TRUE)
           \/ Arrive(p, "AddMessage", "post", 0, TRUE)
           \/ SoftCheck(p) \/ AddQuestion(p) \/ StartTurn(p) \/ ListLast(p) \/ DiscardReply(p)
           \/ UndoQuestion(p) \/ PostMessage(p) \/ RollbackMessages(p) \/ RequestFails(p)
    PROVE  TypeOK' /\ faults' <= MaxFaults
<1> USE DEF Shape
<1>0. Idle \in Request
  BY DEF Idle, Request
<1>1. ASSUME NEW r \in Request, NEW l \in {"idle", "soft", "add", "start", "undo", "list", "discard", "post", "rollback"}
      PROVE  [r EXCEPT !.pc = l] \in Request
  BY DEF Request
<1>2. ASSUME NEW r \in Request, NEW n \in Nat, NEW l \in {"start", "soft", "discard"}
      PROVE  [r EXCEPT !.pc = l, !.msg = n] \in Request
  BY DEF Request
<1>3. ASSUME NEW m \in Ids(msgs) PROVE m \in Nat
  <2>1. PICK i \in DOMAIN msgs : m = msgs[i].id
    BY DEF Ids
  <2>2. msgs[i] \in Message
    BY DEF TypeOK
  <2> QED BY <2>1, <2>2 DEF Message
<1>4. ASSUME NEW kind \in {"Chat", "Regenerate", "AddMessage", "Rollback"}, NEW pc \in {"soft", "list", "post", "rollback"},
             NEW m \in Nat, NEW incl \in BOOLEAN, Arrive(p, kind, pc, m, incl)
      PROVE  TypeOK' /\ faults' <= MaxFaults
  <2>1. [pc |-> pc, kind |-> kind, msg |-> m, incl |-> incl] \in Request
    BY DEF Request
  <2>2. req' \in [Procs -> Request] /\ crossed' \in BOOLEAN
    BY <1>4, <2>1 DEF Arrive, TypeOK
  <2> QED BY <1>4, <2>2 DEF Arrive, TypeOK, registry, R!RegTypeOK
<1>5. CASE SoftCheck(p)
  <2> DEFINE l == IF req[p].kind = "Chat" THEN "add" ELSE "start"
  <2>0. [req[p] EXCEPT !.pc = l] \in Request
    BY <1>1 DEF TypeOK
  <2>1. req' \in [Procs -> Request]
    BY <1>5, <1>0, <2>0 DEF SoftCheck, Finish, Goto, TypeOK
  <2> QED BY <1>5, <2>1 DEF SoftCheck, TypeOK, registry, R!RegTypeOK
<1>6. CASE AddQuestion(p)
  <2>1. msgs' \in Seq(Message) /\ lastId' \in Nat /\ lastId + 1 \in Nat
    BY <1>6, MessageTypes DEF AddQuestion, TypeOK
  <2>2. [req[p] EXCEPT !.pc = "start", !.msg = lastId + 1] \in Request
    BY <1>2, <2>1 DEF TypeOK
  <2>3. req' \in [Procs -> Request]
    BY <1>6, <2>2 DEF AddQuestion, TypeOK
  <2> QED BY <1>6, <2>1, <2>3 DEF AddQuestion, TypeOK, registry, R!RegTypeOK
<1>7. CASE StartTurn(p)
  <2>0. [req[p] EXCEPT !.pc = "undo"] \in Request
    BY <1>1 DEF TypeOK
  <2>1. req' \in [Procs -> Request]
    BY <1>7, <1>0, <2>0 DEF StartTurn, Finish, Goto, TypeOK
  <2>2. CASE R!Begin(Conv) /\ body' = [pc |-> "load", msg |-> req[p].msg] /\ asked' = asked \cup ({req[p].msg} \ {0})
    <3>1. req[p].msg \in Nat
      BY DEF TypeOK, Request
    <3>2. body' \in Body /\ body'.pc # "none" /\ asked' \in SUBSET Nat
      BY <3>1, <2>2 DEF Body, TypeOK
    <3>3. R!RegTypeOK' /\ Conv \in running'
      BY <2>2, ChatAssumption DEF R!Begin, R!RegTypeOK, TypeOK
    <3> QED BY <1>7, <2>1, <3>2, <3>3 DEF StartTurn, TypeOK
  <2>3. CASE UNCHANGED <<body, asked, registry>>
    BY <1>7, <2>1, <2>3 DEF StartTurn, TypeOK, registry, R!RegTypeOK
  <2> QED BY <1>7, <2>2, <2>3 DEF StartTurn
<1>8. CASE ListLast(p)
  <2>1. req' \in [Procs -> Request]
    <3>1. CASE msgs = << >> /\ Finish(p)
      BY <3>1, <1>0 DEF Finish, TypeOK
    <3>2. CASE msgs # << >>
      <4>1. Len(msgs) \in DOMAIN msgs
        BY <3>2 DEF TypeOK
      <4>2. msgs[Len(msgs)].id \in Ids(msgs)
        BY <4>1 DEF Ids
      <4>3. msgs[Len(msgs)].id \in Nat
        BY <4>2, <1>3
      <4>4. /\ [req[p] EXCEPT !.pc = "discard", !.msg = msgs[Len(msgs)].id] \in Request
            /\ [req[p] EXCEPT !.pc = "soft"] \in Request
        BY <4>3, <1>1, <1>2 DEF TypeOK
      <4> QED BY <1>8, <3>2, <4>4 DEF ListLast, Goto, TypeOK
    <3> QED BY <1>8, <3>1, <3>2 DEF ListLast
  <2> QED BY <1>8, <2>1 DEF ListLast, TypeOK, registry, R!RegTypeOK
<1>9. CASE DiscardReply(p)
  <2>0. [req[p] EXCEPT !.pc = "soft", !.msg = 0] \in Request
    BY <1>2 DEF TypeOK
  <2>1. req' \in [Procs -> Request]
    BY <1>9, <1>0, <2>0 DEF DiscardReply, Finish, TypeOK
  <2>2. msgs' \in Seq(Message)
    BY <1>9, RollBack DEF DiscardReply, Shrink
  <2> QED BY <1>9, <2>1, <2>2 DEF DiscardReply, TypeOK, registry, R!RegTypeOK
<1>10. CASE UndoQuestion(p)
  <2>1. req' \in [Procs -> Request]
    BY <1>10, <1>0 DEF UndoQuestion, Finish, TypeOK
  <2>2. msgs' \in Seq(Message)
    BY <1>10, RollBack DEF UndoQuestion, Shrink
  <2> QED BY <1>10, <2>1, <2>2 DEF UndoQuestion, TypeOK, registry, R!RegTypeOK
<1>11. CASE PostMessage(p)
  <2>1. req' \in [Procs -> Request]
    BY <1>11, <1>0 DEF PostMessage, Finish, TypeOK
  <2>2. msgs' \in Seq(Message) /\ lastId' \in Nat
    BY <1>11, MessageTypes DEF PostMessage
  <2> QED BY <1>11, <2>1, <2>2 DEF PostMessage, TypeOK, registry, R!RegTypeOK
<1>12. CASE RollbackMessages(p)
  <2>1. req' \in [Procs -> Request]
    BY <1>12, <1>0 DEF RollbackMessages, Finish, TypeOK
  <2>2. req[p].incl \in BOOLEAN
    BY DEF TypeOK, Request
  <2>3. msgs' \in Seq(Message)
    BY <1>12, <2>2, RollBack DEF RollbackMessages, Shrink
  <2> QED BY <1>12, <2>1, <2>3 DEF RollbackMessages, TypeOK, registry, R!RegTypeOK
<1>13. CASE RequestFails(p)
  <2>1. req' \in [Procs -> Request]
    BY <1>13, <1>0 DEF RequestFails, Finish, TypeOK
  <2>2. faults' \in Nat /\ faults' <= MaxFaults
    BY <1>13, ChatAssumption DEF RequestFails, TypeOK
  <2> QED BY <1>13, <2>1, <2>2 DEF RequestFails, TypeOK, registry, R!RegTypeOK
<1>14. CASE \E m \in Ids(msgs), incl \in BOOLEAN : Arrive(p, "Rollback", "rollback", m, incl)
  BY <1>14, <1>3, <1>4
<1> QED BY <1>4, <1>5, <1>6, <1>7, <1>8, <1>9, <1>10, <1>11, <1>12, <1>13, <1>14


LEMMA BodyTypes ==
    ASSUME Shape,
           \/ SetStatus("Archive", "archived") \/ SetStatus("Delete", "deleted")
           \/ LoadHistory \/ RunAgent \/ SaveReply \/ TakeBack \/ EndTurn \/ ForgetTurn
           \/ BodyFails \/ Restart \/ UNCHANGED vars
    PROVE  TypeOK' /\ faults' <= MaxFaults
<1> USE DEF Shape
<1>1. ASSUME NEW l \in {"run", "save", "undo", "end"}, body.pc # "none", BodyGoto(l)
      PROVE  body' \in Body /\ body'.pc # "none"
  BY <1>1 DEF BodyGoto, TypeOK, Body
<1>2. CASE SetStatus("Archive", "archived") \/ SetStatus("Delete", "deleted")
  BY <1>2 DEF SetStatus, TypeOK, registry, R!RegTypeOK
<1>3. CASE LoadHistory
  BY <1>3, <1>1 DEF LoadHistory, TypeOK, registry, R!RegTypeOK
<1>4. CASE RunAgent
  BY <1>4, <1>1 DEF RunAgent, TypeOK, registry, R!RegTypeOK
<1>5. CASE SaveReply
  <2>1. msgs' \in Seq(Message) /\ lastId' \in Nat
    BY <1>5, MessageTypes DEF SaveReply
  <2> QED BY <1>5, <1>1, <2>1 DEF SaveReply, TypeOK, registry, R!RegTypeOK
<1>6. CASE TakeBack
  <2>1. msgs' \in Seq(Message)
    <3>1. CASE body.msg = 0
      BY <1>6, <3>1 DEF TakeBack, TypeOK
    <3>2. CASE body.msg # 0
      BY <1>6, <3>2, RollBack DEF TakeBack, Shrink
    <3> QED BY <3>1, <3>2
  <2> QED BY <1>6, <1>1, <2>1 DEF TakeBack, TypeOK, registry, R!RegTypeOK
<1>7. CASE EndTurn
  <2>1. NoBody \in Body /\ NoBody.pc = "none"
    BY DEF NoBody, Body
  <2>2. Conv \notin running' /\ R!RegTypeOK'
    BY <1>7 DEF EndTurn, R!End, R!RegTypeOK, TypeOK
  <2> QED BY <1>7, <2>1, <2>2 DEF EndTurn, TypeOK
<1>8. CASE ForgetTurn
  <2>1. running' = running /\ R!RegTypeOK'
    BY <1>8 DEF ForgetTurn, R!Forget, R!RegTypeOK, TypeOK
  <2> QED BY <1>8, <2>1 DEF ForgetTurn, TypeOK
<1>9. CASE BodyFails
  <2>1. faults' \in Nat /\ faults' <= MaxFaults
    BY <1>9, ChatAssumption DEF BodyFails, TypeOK
  <2>2. body' \in Body /\ body'.pc # "none"
    BY <1>9, <1>1 DEF BodyFails
  <2> QED BY <1>9, <2>1, <2>2 DEF BodyFails, TypeOK, registry, R!RegTypeOK
<1>10. CASE Restart
  <2>1. NoBody \in Body /\ NoBody.pc = "none" /\ Idle \in Request
    BY DEF NoBody, Body, Idle, Request
  <2>2. faults' \in Nat /\ faults' <= MaxFaults
    BY <1>10, ChatAssumption DEF Restart, TypeOK
  <2> QED BY <1>10, <2>1, <2>2 DEF Restart, TypeOK, R!RegTypeOK
<1>11. CASE UNCHANGED vars
  BY <1>11 DEF vars, TypeOK, registry, R!RegTypeOK
<1> QED BY <1>2, <1>3, <1>4, <1>5, <1>6, <1>7, <1>8, <1>9, <1>10, <1>11

\* What any step does to the messages.
LEMMA MessageSteps ==
    ASSUME Shape, [Next]_vars
    PROVE  \/ Shrink(msgs') /\ lastId' = lastId
           \/ \E via \in {"chat", "post", "reply"} : Insert(via)
<1>1. ASSUME msgs' = msgs PROVE Shrink(msgs')
  BY <1>1 DEF Shape, TypeOK, Shrink
<1>2. ASSUME NEW p \in Procs, DiscardReply(p) \/ UndoQuestion(p) \/ RollbackMessages(p)
      PROVE  Shrink(msgs')
  <2>1. req[p].incl \in BOOLEAN
    BY DEF Shape, TypeOK, Request
  <2> QED BY <1>2, <2>1, RollBack DEF DiscardReply, UndoQuestion, RollbackMessages
<1>3. ASSUME TakeBack PROVE Shrink(msgs')
  BY <1>3, <1>1, RollBack DEF TakeBack
<1> QED BY <1>1, <1>2, <1>3 DEF Next, vars, Arrive, SoftCheck, AddQuestion, StartTurn, ListLast,
        DiscardReply, UndoQuestion, PostMessage, RollbackMessages, RequestFails, SetStatus,
        LoadHistory, RunAgent, SaveReply, TakeBack, EndTurn, ForgetTurn, BodyFails, Restart

LEMMA PurposeSteps ==
    ASSUME Shape, [Next]_vars
    PROVE  Purposes'
<1> USE DEF Shape
<1>1. ASSUME NEW p \in Procs, NEW r,
             /\ r.pc \in {"list", "soft", "add"} => r.msg = 0
             /\ r.pc = "add" => r.kind = "Chat"
             /\ r.pc = "start" /\ r.kind # "Chat" => r.msg = 0,
             req' = [req EXCEPT ![p] = r]
      PROVE  Purposes'
  BY <1>1 DEF Purposes, TypeOK
<1>2. ASSUME NEW p \in Procs, Finish(p) PROVE Purposes'
  BY <1>2, <1>1 DEF Finish, Idle
<1>3. ASSUME NEW p \in Procs, NEW kind, NEW pc \in {"soft", "list", "post", "rollback"},
             NEW m, NEW incl, pc \in {"soft", "list"} => m = 0, Arrive(p, kind, pc, m, incl)
      PROVE  Purposes'
  <2> DEFINE q == [pc |-> pc, kind |-> kind, msg |-> m, incl |-> incl]
  <2>1. /\ q.pc \in {"list", "soft", "add"} => q.msg = 0
        /\ q.pc = "add" => q.kind = "Chat"
        /\ q.pc = "start" /\ q.kind # "Chat" => q.msg = 0
    BY <1>3
  <2>2. req' = [req EXCEPT ![p] = q]
    BY <1>3 DEF Arrive
  <2> QED BY <2>1, <2>2, <1>1
<1>4. ASSUME NEW p \in Procs PROVE req[p] \in Request
  BY DEF TypeOK
<1>5. ASSUME NEW p \in Procs, SoftCheck(p) PROVE Purposes'
  <2> DEFINE l == IF req[p].kind = "Chat" THEN "add" ELSE "start"
             q == [req[p] EXCEPT !.pc = l]
  <2>1. q.pc = l /\ q.kind = req[p].kind /\ q.msg = req[p].msg
    BY <1>4 DEF Request
  <2>2. req[p].msg = 0
    BY <1>5 DEF SoftCheck, At, Purposes
  <2>3. Finish(p) \/ req' = [req EXCEPT ![p] = q]
    BY <1>5 DEF SoftCheck, Goto
  <2> HIDE DEF q
  <2> QED BY <2>1, <2>2, <2>3, <1>1, <1>2
<1>6. ASSUME NEW p \in Procs, AddQuestion(p) PROVE Purposes'
  <2> DEFINE q == [req[p] EXCEPT !.pc = "start", !.msg = lastId + 1]
  <2>1. q.pc = "start" /\ q.kind = req[p].kind
    BY <1>4 DEF Request
  <2>2. req[p].kind = "Chat"
    BY <1>6 DEF AddQuestion, At, Purposes
  <2>3. req' = [req EXCEPT ![p] = q]
    BY <1>6 DEF AddQuestion
  <2> HIDE DEF q
  <2> QED BY <2>1, <2>2, <2>3, <1>1
<1>7. ASSUME NEW p \in Procs, StartTurn(p) PROVE Purposes'
  <2> DEFINE q == [req[p] EXCEPT !.pc = "undo"]
  <2>1. q.pc = "undo"
    BY <1>4 DEF Request
  <2>2. Finish(p) \/ req' = [req EXCEPT ![p] = q]
    BY <1>7 DEF StartTurn, Goto
  <2> HIDE DEF q
  <2> QED BY <2>1, <2>2, <1>1, <1>2
<1>8. ASSUME NEW p \in Procs, ListLast(p) PROVE Purposes'
  <2> DEFINE q == [req[p] EXCEPT !.pc = "discard", !.msg = msgs[Len(msgs)].id]
             z == [req[p] EXCEPT !.pc = "soft"]
  <2>1. q.pc = "discard" /\ z.pc = "soft" /\ z.msg = req[p].msg
    BY <1>4 DEF Request
  <2>2. req[p].msg = 0
    BY <1>8 DEF ListLast, At, Purposes
  <2>3. Finish(p) \/ req' = [req EXCEPT ![p] = q] \/ req' = [req EXCEPT ![p] = z]
    BY <1>8 DEF ListLast, Goto
  <2> HIDE DEF q, z
  <2> QED BY <2>1, <2>2, <2>3, <1>1, <1>2
<1>9. ASSUME NEW p \in Procs, DiscardReply(p) PROVE Purposes'
  <2> DEFINE q == [req[p] EXCEPT !.pc = "soft", !.msg = 0]
  <2>1. q.pc = "soft" /\ q.msg = 0
    BY <1>4 DEF Request
  <2>2. Finish(p) \/ req' = [req EXCEPT ![p] = q]
    BY <1>9 DEF DiscardReply
  <2> HIDE DEF q
  <2> QED BY <2>1, <2>2, <1>1, <1>2
<1>10. ASSUME NEW p \in Procs,
              UndoQuestion(p) \/ PostMessage(p) \/ RollbackMessages(p) \/ RequestFails(p)
       PROVE  Purposes'
  BY <1>10, <1>2 DEF UndoQuestion, PostMessage, RollbackMessages, RequestFails
<1>11. ASSUME req' = req PROVE Purposes'
  BY <1>11 DEF Purposes
<1>12. ASSUME Restart PROVE Purposes'
  BY <1>12 DEF Restart, Purposes, Idle
<1> QED BY <1>3, <1>5, <1>6, <1>7, <1>8, <1>9, <1>10, <1>11, <1>12
        DEF Next, vars, SetStatus, LoadHistory, RunAgent, SaveReply, TakeBack, EndTurn, ForgetTurn, BodyFails

LEMMA ShapeSteps == Shape /\ [Next]_vars => Shape'
<1> SUFFICES ASSUME Shape, [Next]_vars PROVE Shape'
  OBVIOUS
<1>1. TypeOK' /\ faults' <= MaxFaults
  BY RequestTypes, BodyTypes DEF Next
<1>2. Ordered'
  BY MessageSteps, OrderedShrink, OrderedInsert
<1> QED BY <1>1, <1>2, PurposeSteps DEF Shape

\* The messages are in order, and every request and turn has the message its call is about.
THEOREM Conversation == Spec => []Shape
  BY ChatInit, ShapeSteps, PTL DEF Spec

-----------------------------------------------------------------------------
(* Refused chats *)

\* Somebody still has to start question m's turn, or to take it back.
Owed(m) == \E p \in Procs : req[p].pc \in {"start", "undo"} /\ req[p].msg = m

LEMMA OwedSteps ==
    ASSUME Shape, [Next]_vars, faults' = MaxFaults, NEW m \in Nat \ {0}, m \in asked \/ Owed(m)
    PROVE  m \in asked' \/ Owed(m)' \/ m \notin Ids(msgs')
<1> USE DEF Shape
<1>1. CASE m \in asked
  BY <1>1 DEF Next, vars, Arrive, SoftCheck, AddQuestion, StartTurn, ListLast, DiscardReply,
     UndoQuestion, PostMessage, RollbackMessages, RequestFails, SetStatus, LoadHistory, RunAgent,
     SaveReply, TakeBack, EndTurn, ForgetTurn, BodyFails, Restart
<1>2. CASE Owed(m)
  <2>1. PICK p \in Procs : req[p].pc \in {"start", "undo"} /\ req[p].msg = m
    BY <1>2 DEF Owed
  <2>2. req \in [Procs -> Request] /\ req[p] \in Request /\ faults \in Nat /\ MaxFaults \in Nat
    BY ChatAssumption DEF TypeOK
  <2>3. ~(\E q \in Procs : RequestFails(q)) /\ ~BodyFails /\ ~Restart
    BY <2>2 DEF RequestFails, BodyFails, Restart
  <2>4. ASSUME req'[p] = req[p] PROVE Owed(m)'
    BY <2>4, <2>1 DEF Owed
  <2>5. ASSUME NEW q \in Procs, NEW r, q # p, req' = [req EXCEPT ![q] = r] PROVE Owed(m)'
    BY <2>5, <2>4, <2>2
  <2>6. CASE StartTurn(p)
    <3>1. req[p].pc = "start"
      BY <2>6 DEF StartTurn, At
    <3>2. req[p].kind = "Chat"
      BY <3>1, <2>1 DEF Purposes
    <3>3. CASE asked' = asked \cup ({req[p].msg} \ {0})
      BY <3>3, <2>1
    <3>4. CASE Goto(p, "undo")
      <4> DEFINE r == [req[p] EXCEPT !.pc = "undo"]
      <4>1. r.pc = "undo" /\ r.msg = m
        BY <2>1, <2>2 DEF Request
      <4>2. req' = [req EXCEPT ![p] = r]
        BY <3>4 DEF Goto
      <4> HIDE DEF r
      <4>3. req'[p] = r
        BY <4>2, <2>2
      <4> QED BY <4>1, <4>3 DEF Owed
    <3> QED BY <2>6, <3>2, <3>3, <3>4 DEF StartTurn
  <2>7. CASE UndoQuestion(p)
    BY <2>7, <2>1, RollBack DEF UndoQuestion
  <2>8. ASSUME NEW q \in Procs, q # p, StartTurn(q) \/ UndoQuestion(q) PROVE Owed(m)'
    BY <2>8, <2>5 DEF StartTurn, UndoQuestion, Goto, Finish
  <2>9. ASSUME NEW q \in Procs,
               \/ \E k, l, n, incl : Arrive(q, k, l, n, incl)
               \/ SoftCheck(q) \/ AddQuestion(q) \/ ListLast(q) \/ DiscardReply(q)
               \/ PostMessage(q) \/ RollbackMessages(q)
        PROVE  Owed(m)'
    <3>1. q # p
      BY <2>9, <2>1 DEF At, Arrive, SoftCheck, AddQuestion, ListLast, DiscardReply, PostMessage, RollbackMessages
    <3>2. \E r : req' = [req EXCEPT ![q] = r]
      BY <2>9 DEF Arrive, SoftCheck, AddQuestion, ListLast, DiscardReply, PostMessage, RollbackMessages, Goto, Finish
    <3> QED BY <3>1, <3>2, <2>5
  <2>10. ASSUME req' = req PROVE Owed(m)'
    BY <2>10, <2>4
  <2> QED BY <2>3, <2>6, <2>7, <2>8, <2>9, <2>10
      DEF Next, vars, SetStatus, LoadHistory, RunAgent, SaveReply, TakeBack, EndTurn, ForgetTurn
<1> QED BY <1>1, <1>2

LEMMA CleanSteps ==
    ASSUME Shape, Shape', [Next]_vars, RefusedLeavesNothing
    PROVE  RefusedLeavesNothing'
<1> SUFFICES ASSUME faults' = MaxFaults, NEW i \in DOMAIN msgs', msgs'[i].via = "chat",
                    NEW m, m = msgs'[i].id
             PROVE  m \in asked' \/ Owed(m)'
  BY DEF RefusedLeavesNothing, Owed
<1>1. msgs \in Seq(Message) /\ msgs' \in Seq(Message) /\ faults \in Nat /\ MaxFaults \in Nat
  BY ChatAssumption DEF Shape, TypeOK
<1>2. m \in Nat \ {0} /\ m \in Ids(msgs')
  <2>1. msgs'[i] \in Message
    BY <1>1
  <2> QED BY <2>1 DEF Message, Ids
<1>3. faults = MaxFaults
  <2>1. faults' = faults \/ faults' = faults - 1
    BY DEF Next, vars, Arrive, SoftCheck, AddQuestion, StartTurn, ListLast, DiscardReply,
       UndoQuestion, PostMessage, RollbackMessages, RequestFails, SetStatus, LoadHistory, RunAgent,
       SaveReply, TakeBack, EndTurn, ForgetTurn, BodyFails, Restart
  <2> QED BY <2>1, <1>1 DEF Shape
<1>4. ASSUME i \in DOMAIN msgs, msgs'[i] = msgs[i] PROVE m \in asked' \/ Owed(m)'
  <2>1. m \in asked \/ Owed(m)
    BY <1>3, <1>4 DEF RefusedLeavesNothing, Owed
  <2> QED BY <2>1, <1>2, OwedSteps
<1>5. CASE Shrink(msgs')
  BY <1>5, <1>4, <1>1 DEF Shrink
<1>6. ASSUME NEW via \in {"chat", "post", "reply"}, Insert(via) PROVE m \in asked' \/ Owed(m)'
  <2>1. /\ Len(msgs') = Len(msgs) + 1 /\ Len(msgs) \in Nat
        /\ \A j \in 1..Len(msgs) : msgs'[j] = msgs[j]
        /\ msgs'[Len(msgs) + 1] = [id |-> lastId + 1, via |-> via]
        /\ lastId' = lastId + 1 /\ lastId \in Nat
    BY <1>6, Inserted
  <2>2. CASE i \in 1..Len(msgs)
    BY <2>1, <2>2, <1>1, <1>4
  <2>3. CASE i = Len(msgs) + 1
    <3>1. m = lastId + 1 /\ via = "chat"
      BY <2>1, <2>3
    <3>2. lastId' # lastId /\ Len(msgs') > Len(msgs)
      BY <2>1
    <3>3. \E p \in Procs : AddQuestion(p)
      <4>1. ~(Shrink(msgs'))
        BY <3>2, <1>1 DEF Shrink
      <4>2. ~(\E p \in Procs : PostMessage(p)) /\ ~SaveReply
        <5>1. ASSUME NEW w \in {"post", "reply"}, Insert(w) PROVE FALSE
          <6>1. msgs'[Len(msgs) + 1] = [id |-> lastId + 1, via |-> w]
            BY <5>1, Inserted
          <6> QED BY <6>1, <2>1, <3>1
        <5> QED BY <5>1 DEF PostMessage, SaveReply
      <4> QED BY <4>2, <3>2 DEF Next, vars, Arrive, SoftCheck, StartTurn, ListLast, DiscardReply,
              UndoQuestion, RollbackMessages, RequestFails, SetStatus, LoadHistory, RunAgent,
              TakeBack, EndTurn, ForgetTurn, BodyFails, Restart
    <3>4. PICK p \in Procs : AddQuestion(p)
      BY <3>3
    <3> DEFINE r == [req[p] EXCEPT !.pc = "start", !.msg = lastId + 1]
    <3>5. req \in [Procs -> Request] /\ req[p] \in Request
      BY DEF Shape, TypeOK
    <3>6. r.pc = "start" /\ r.msg = lastId + 1
      BY <3>5 DEF Request
    <3>7. req' = [req EXCEPT ![p] = r]
      BY <3>4 DEF AddQuestion
    <3> HIDE DEF r
    <3>8. req'[p].pc = "start" /\ req'[p].msg = lastId + 1
      BY <3>5, <3>6, <3>7
    <3> QED BY <3>1, <3>8 DEF Owed
  <2> QED BY <2>1, <2>2, <2>3, <1>1
<1> QED BY <1>5, <1>6, MessageSteps

\* Messages, requests and the turn keep their shape, and a chat that was refused leaves
\* nothing in the conversation.
THEOREM Refusals == Spec => []RefusalsAreClean
<1>1. Init => RefusedLeavesNothing
  BY DEF Init, RefusedLeavesNothing
<1>2. Shape /\ Shape' /\ RefusedLeavesNothing /\ [Next]_vars => RefusedLeavesNothing'
  BY CleanSteps
<1>3. Shape /\ RefusedLeavesNothing => RefusalsAreClean
  BY DEF Shape, RefusalsAreClean
<1> QED BY <1>1, <1>2, <1>3, Conversation, PTL DEF Spec

-----------------------------------------------------------------------------
(* Questions without overlap *)

\* The running turn is still going to use its question.
Answering == body.pc \in {"load", "run", "save"} /\ body.msg # 0

\* What a request may rely on when no other came in between.
Undisturbed(p) ==
    /\ req[p].pc \notin {"undo", "rollback"}
    /\ req[p].pc \in {"add", "start"} => body.pc = "none"
    /\ req[p].pc = "start" /\ req[p].kind = "Chat" =>
          /\ req[p].msg = lastId
          /\ \E i \in DOMAIN msgs : msgs[i].id = lastId /\ msgs[i].via = "chat"
    /\ req[p].pc = "discard" => ~Answering

\* The question is in the history, and no reply is newer.
Standing ==
    Answering => /\ body.msg \in Ids(msgs)
                 /\ \A i \in DOMAIN msgs : msgs[i].via = "reply" => msgs[i].id < body.msg

Single == \A p, q \in Procs : p # q => At(p, "idle") \/ At(q, "idle")

Alone == ~crossed => Single /\ Standing /\ \A p \in Procs : Undisturbed(p)

\* A step of the only request: what it leaves has to be right for that request.
LEMMA OneRequest ==
    ASSUME Shape, Alone, ~crossed, NEW p \in Procs, ~At(p, "idle"),
           NEW r, req' = [req EXCEPT ![p] = r], Standing', Undisturbed(p)'
    PROVE  Alone'
<1>1. \A q \in Procs : q # p => At(q, "idle") /\ req'[q] = req[q]
  BY DEF Alone, Single, Shape, TypeOK
<1>2. \A q \in Procs : q # p => req'[q].pc = "idle"
  BY <1>1 DEF At
<1>3. \A q \in Procs : Undisturbed(q)'
  BY <1>2 DEF Undisturbed
<1>4. Single'
  BY <1>2 DEF Single, At
<1> QED BY <1>3, <1>4 DEF Alone

LEMMA RequestDone ==
    ASSUME Shape, Alone, ~crossed, NEW p \in Procs, ~At(p, "idle"), Finish(p), Standing'
    PROVE  Alone'
<1>1. req'[p] = Idle
  BY DEF Finish, Shape, TypeOK
<1>2. Undisturbed(p)'
  BY <1>1 DEF Undisturbed, Idle
<1> QED BY <1>2, OneRequest DEF Finish

\* A step of the turn's body.
LEMMA OneBody ==
    ASSUME Alone, ~crossed, req' = req,
           Answering' => Answering /\ body'.msg = body.msg /\ msgs' = msgs,
           body.pc # "none" \/ (body' = body /\ msgs' = msgs /\ lastId' = lastId)
    PROVE  Alone'
<1>1. Standing'
  BY DEF Alone, Standing, Ids
<1>2. \A p \in Procs : Undisturbed(p)'
  BY DEF Alone, Undisturbed, Answering
<1> QED BY <1>1, <1>2 DEF Alone, Single, At

LEMMA ArriveAlone ==
    ASSUME Shape, Alone, NEW p \in Procs, NEW kind, NEW pc, NEW m, NEW incl,
           Arrive(p, kind, pc, m, incl), kind = "Rollback" \/ pc \in {"soft", "list", "post"}
    PROVE  Alone'
<1> SUFFICES ASSUME ~crossed' PROVE Alone'
  BY DEF Alone
<1>1. /\ pc \in {"soft", "list", "post"}
      /\ \A q \in Procs : q # p => req'[q].pc = "idle"
      /\ req'[p].pc = pc
      /\ ~crossed \/ body.pc = "none"
  BY DEF Arrive, At, Shape, TypeOK
<1>2. Single' /\ \A q \in Procs : Undisturbed(q)'
  BY <1>1 DEF Single, At, Undisturbed
<1>3. Standing'
  BY <1>1 DEF Arrive, Alone, Standing, Answering, Ids
<1> QED BY <1>2, <1>3 DEF Alone

LEMMA AloneSteps ==
    ASSUME Shape, Shape', [Next]_vars, Alone
    PROVE  Alone'
<1> USE DEF Shape
<1>1. CASE \E p \in Procs :
             \/ Arrive(p, "Chat", "soft", 0, TRUE) \/ Arrive(p, "Regenerate", "list", 0, TRUE)
             \/ Arrive(p, "AddMessage", "post", 0, TRUE)
             \/ \E m \in Ids(msgs), incl \in BOOLEAN : Arrive(p, "Rollback", "rollback", m, incl)
  BY <1>1, ArriveAlone
<1>2. CASE crossed' = crossed /\ crossed
  BY <1>2 DEF Alone
<1> USE DEF Alone
<1>3. ASSUME NEW p \in Procs PROVE req[p] \in Request /\ req \in [Procs -> Request]
  BY DEF TypeOK
<1>4. ASSUME ~crossed, NEW p \in Procs, SoftCheck(p) PROVE Alone'
  <2>1. ~At(p, "idle")
    BY <1>4 DEF SoftCheck, At
  <2>2. Standing'
    BY <1>4 DEF SoftCheck, Standing, Answering, Ids
  <2>3. CASE Finish(p)
    BY <1>4, <2>1, <2>2, <2>3, RequestDone
  <2>4. CASE Conv \notin running /\ Goto(p, IF req[p].kind = "Chat" THEN "add" ELSE "start")
    <3> DEFINE l == IF req[p].kind = "Chat" THEN "add" ELSE "start"
               r == [req[p] EXCEPT !.pc = l]
    <3>1. r.pc = l /\ r.kind = req[p].kind
      BY <1>3 DEF Request
    <3>2. req' = [req EXCEPT ![p] = r]
      BY <2>4 DEF Goto
    <3> HIDE DEF r
    <3>3. req'[p] = r
      BY <3>2, <1>3
    <3>4. body'.pc = "none"
      BY <1>4, <2>4 DEF SoftCheck, TypeOK
    <3>5. Undisturbed(p)'
      BY <3>1, <3>3, <3>4 DEF Undisturbed
    <3> QED BY <1>4, <2>1, <2>2, <3>2, <3>5, OneRequest
  <2> QED BY <1>4, <2>3, <2>4 DEF SoftCheck
<1>5. ASSUME ~crossed, NEW p \in Procs, AddQuestion(p) PROVE Alone'
  <2>1. ~At(p, "idle")
    BY <1>5 DEF AddQuestion, At
  <2>2. body.pc = "none" /\ body' = body
    BY <1>5 DEF AddQuestion, At, Undisturbed
  <2>3. Standing'
    BY <2>2 DEF Standing, Answering
  <2> DEFINE r == [req[p] EXCEPT !.pc = "start", !.msg = lastId + 1]
  <2>4. r.pc = "start" /\ r.msg = lastId + 1
    BY <1>3 DEF Request
  <2>5. req' = [req EXCEPT ![p] = r]
    BY <1>5 DEF AddQuestion
  <2> HIDE DEF r
  <2>6. req'[p] = r
    BY <2>5, <1>3
  <2>7. /\ msgs' \in Seq(Message) /\ lastId' = lastId + 1
        /\ Len(msgs') = Len(msgs) + 1 /\ Len(msgs) \in Nat
        /\ msgs'[Len(msgs) + 1] = [id |-> lastId + 1, via |-> "chat"]
    BY <1>5, Inserted DEF AddQuestion
  <2>8. \E i \in DOMAIN msgs' : msgs'[i].id = lastId' /\ msgs'[i].via = "chat"
    <3>1. Len(msgs) + 1 \in DOMAIN msgs'
      BY <2>7
    <3> QED BY <2>7, <3>1
  <2>9. Undisturbed(p)'
    BY <2>2, <2>4, <2>6, <2>7, <2>8 DEF Undisturbed
  <2> QED BY <1>5, <2>1, <2>3, <2>5, <2>9, OneRequest
<1>6. ASSUME ~crossed, NEW p \in Procs, StartTurn(p) PROVE Alone'
  <2>1. ~At(p, "idle")
    BY <1>6 DEF StartTurn, At
  <2>2. Conv \notin running
    BY <1>6 DEF StartTurn, At, Undisturbed, TypeOK
  <2>3. Finish(p) /\ body' = [pc |-> "load", msg |-> req[p].msg] /\ msgs' = msgs
    BY <1>6, <2>2 DEF StartTurn
  <2>4. CASE req[p].kind # "Chat"
    <3>1. body'.msg = 0
      BY <1>6, <2>3, <2>4 DEF StartTurn, At, Purposes
    <3> QED BY <1>6, <2>1, <2>3, <3>1, RequestDone DEF Standing, Answering
  <2>5. CASE req[p].kind = "Chat"
    <3>1. body'.msg = lastId
      BY <1>6, <2>3, <2>5 DEF StartTurn, At, Undisturbed
    <3>2. PICK i \in DOMAIN msgs : msgs[i].id = lastId /\ msgs[i].via = "chat"
      BY <1>6, <2>5 DEF StartTurn, At, Undisturbed
    <3>3. ASSUME NEW j \in DOMAIN msgs, msgs[j].via = "reply" PROVE msgs[j].id < lastId
      <4>1. msgs[i] \in Message /\ msgs[j] \in Message /\ i \in Nat /\ j \in Nat /\ i # j
        BY <3>2, <3>3 DEF TypeOK
      <4>2. msgs[i].id \in Nat /\ msgs[j].id \in Nat
        BY <4>1 DEF Message
      <4>3. msgs[j].id <= lastId
        BY DEF Ordered
      <4>4. msgs[i].id < msgs[j].id \/ msgs[j].id < msgs[i].id
        BY <4>1 DEF Ordered
      <4> QED BY <4>2, <4>3, <4>4, <3>2
    <3>4. Standing'
      BY <2>3, <3>1, <3>2, <3>3 DEF Standing, Ids
    <3> QED BY <1>6, <2>1, <2>3, <3>4, RequestDone
  <2> QED BY <2>4, <2>5
<1>7. ASSUME ~crossed, NEW p \in Procs, ListLast(p) PROVE Alone'
  <2>1. ~At(p, "idle")
    BY <1>7 DEF ListLast, At
  <2>2. Standing'
    BY <1>7 DEF ListLast, Standing, Answering, Ids
  <2>3. CASE Finish(p)
    BY <1>7, <2>1, <2>2, <2>3, RequestDone
  <2> DEFINE n == Len(msgs)
             r == [req[p] EXCEPT !.pc = "discard", !.msg = msgs[n].id]
             z == [req[p] EXCEPT !.pc = "soft"]
  <2>4. r.pc = "discard" /\ z.pc = "soft"
    BY <1>3 DEF Request
  <2> HIDE DEF r, z
  <2>5. CASE msgs # << >> /\ msgs[n].via = "reply" /\ req' = [req EXCEPT ![p] = r]
    <3>1. ~Answering
      <4>1. n \in DOMAIN msgs /\ msgs[n] \in Message
        BY <2>5 DEF TypeOK
      <4>2. SUFFICES ASSUME Answering PROVE FALSE
        OBVIOUS
      <4>3. msgs[n].id < body.msg
        BY <1>7, <2>5, <4>1, <4>2 DEF Standing
      <4>4. PICK i \in DOMAIN msgs : msgs[i].id = body.msg
        BY <1>7, <4>2 DEF Standing, Ids
      <4>5. msgs[i] \in Message /\ i \in Nat /\ i <= n /\ n \in Nat
        BY <4>4 DEF TypeOK
      <4>6. msgs[i].id \in Nat /\ msgs[n].id \in Nat
        BY <4>1, <4>5 DEF Message
      <4>7. i = n \/ msgs[i].id < msgs[n].id
        BY <4>1, <4>4, <4>5 DEF Ordered
      <4> QED BY <4>3, <4>4, <4>6, <4>7
    <3>2. ~Answering'
      BY <1>7, <3>1 DEF ListLast, Answering
    <3>3. req'[p] = r
      BY <2>5, <1>3
    <3>4. Undisturbed(p)'
      BY <2>4, <3>2, <3>3 DEF Undisturbed
    <3> QED BY <1>7, <2>1, <2>2, <2>5, <3>4, OneRequest
  <2>6. CASE req' = [req EXCEPT ![p] = z]
    <3>1. req'[p] = z
      BY <2>6, <1>3
    <3>2. Undisturbed(p)'
      BY <2>4, <3>1 DEF Undisturbed
    <3> QED BY <1>7, <2>1, <2>2, <2>6, <3>2, OneRequest
  <2> QED BY <1>7, <2>3, <2>5, <2>6 DEF ListLast, Goto, r, z
<1>8. ASSUME ~crossed, NEW p \in Procs, DiscardReply(p) PROVE Alone'
  <2>1. ~At(p, "idle")
    BY <1>8 DEF DiscardReply, At
  <2>2. Standing'
    BY <1>8 DEF DiscardReply, At, Undisturbed, Standing, Answering
  <2>3. CASE Finish(p)
    BY <1>8, <2>1, <2>2, <2>3, RequestDone
  <2> DEFINE r == [req[p] EXCEPT !.pc = "soft", !.msg = 0]
  <2>4. r.pc = "soft"
    BY <1>3 DEF Request
  <2> HIDE DEF r
  <2>5. CASE req' = [req EXCEPT ![p] = r]
    <3>1. req'[p] = r
      BY <2>5, <1>3
    <3>2. Undisturbed(p)'
      BY <2>4, <3>1 DEF Undisturbed
    <3> QED BY <1>8, <2>1, <2>2, <2>5, <3>2, OneRequest
  <2> QED BY <1>8, <2>3, <2>5 DEF DiscardReply, r
<1>9. ASSUME ~crossed, NEW p \in Procs, UndoQuestion(p) \/ RollbackMessages(p) PROVE Alone'
  BY <1>9 DEF UndoQuestion, RollbackMessages, At, Undisturbed
<1>10. ASSUME ~crossed, NEW p \in Procs, PostMessage(p) PROVE Alone'
  <2>1. ~At(p, "idle") /\ Finish(p) /\ body' = body
    BY <1>10 DEF PostMessage, At
  <2>2. /\ msgs' \in Seq(Message)
        /\ Len(msgs') = Len(msgs) + 1 /\ Len(msgs) \in Nat
        /\ \A i \in 1..Len(msgs) : msgs'[i] = msgs[i]
        /\ msgs'[Len(msgs) + 1] = [id |-> lastId + 1, via |-> "post"]
    BY <1>10, Inserted DEF PostMessage
  <2>3. DOMAIN msgs = 1..Len(msgs) /\ DOMAIN msgs' = 1..(Len(msgs) + 1)
    BY <2>2 DEF TypeOK
  <2>4. \A i \in DOMAIN msgs : i \in DOMAIN msgs' /\ msgs'[i] = msgs[i]
    BY <2>2, <2>3
  <2>5. \A i \in DOMAIN msgs' : msgs'[i].via = "reply" => i \in DOMAIN msgs /\ msgs'[i] = msgs[i]
    BY <2>2, <2>3
  <2>6. Standing'
    BY <1>10, <2>1, <2>4, <2>5 DEF Standing, Answering, Ids
  <2> QED BY <1>10, <2>1, <2>6, RequestDone
<1>11. ASSUME ~crossed, NEW p \in Procs, RequestFails(p) PROVE Alone'
  BY <1>11, RequestDone DEF RequestFails, Standing, Answering, Ids
<1>12. ASSUME ~crossed, \/ SetStatus("Archive", "archived") \/ SetStatus("Delete", "deleted")
                        \/ ForgetTurn \/ UNCHANGED vars
       PROVE  Alone'
  BY <1>12, OneBody DEF SetStatus, ForgetTurn, vars, Answering
<1>13. ASSUME ~crossed, LoadHistory \/ RunAgent \/ SaveReply \/ TakeBack \/ EndTurn \/ BodyFails
       PROVE  Alone'
  <2>1. body \in Body
    BY DEF TypeOK
  <2>2. req' = req /\ body.pc # "none"
    BY <1>13 DEF LoadHistory, RunAgent, SaveReply, TakeBack, EndTurn, BodyFails, TypeOK, R!End
  <2>3. Answering' => Answering /\ body'.msg = body.msg /\ msgs' = msgs
    <3>1. ASSUME NEW l \in {"run", "save", "undo", "end"}, BodyGoto(l)
          PROVE  body'.pc = l /\ body'.msg = body.msg
      BY <2>1, <3>1 DEF BodyGoto, Body
    <3>2. CASE LoadHistory \/ RunAgent
      BY <3>1, <3>2 DEF LoadHistory, RunAgent, Answering
    <3>3. CASE SaveReply \/ TakeBack
      BY <3>1, <3>3 DEF SaveReply, TakeBack, Answering
    <3>4. CASE EndTurn
      BY <3>4 DEF EndTurn, NoBody, Answering
    <3>5. CASE BodyFails
      BY <3>1, <3>5 DEF BodyFails, Answering
    <3> QED BY <1>13, <3>2, <3>3, <3>4, <3>5
  <2> QED BY <1>13, <2>2, <2>3, OneBody
<1>14. ASSUME Restart PROVE Alone'
  <2>1. \A p \in Procs : req'[p].pc = "idle"
    BY <1>14 DEF Restart, Idle
  <2>2. ~Answering'
    BY <1>14 DEF Restart, NoBody, Answering
  <2>3. Single' /\ \A p \in Procs : Undisturbed(p)'
    BY <2>1 DEF Single, At, Undisturbed
  <2>4. Standing'
    BY <2>2 DEF Standing
  <2> QED BY <2>3, <2>4
<1>15. \/ \E p \in Procs :
             \/ Arrive(p, "Chat", "soft", 0, TRUE) \/ Arrive(p, "Regenerate", "list", 0, TRUE)
             \/ Arrive(p, "AddMessage", "post", 0, TRUE)
             \/ \E m \in Ids(msgs), incl \in BOOLEAN : Arrive(p, "Rollback", "rollback", m, incl)
       \/ crossed' = crossed
  BY DEF Next, vars, SoftCheck, AddQuestion, StartTurn, ListLast, DiscardReply,
     UndoQuestion, PostMessage, RollbackMessages, RequestFails, SetStatus, LoadHistory, RunAgent,
     SaveReply, TakeBack, EndTurn, ForgetTurn, BodyFails, Restart
<1> QED BY <1>1, <1>2, <1>4, <1>5, <1>6, <1>7, <1>8, <1>9, <1>10, <1>11, <1>12, <1>13, <1>14, <1>15 DEF Next

\* With no other request in between, whatever fails, is archived or restarted, the
\* question a turn is answering stays in the conversation.
THEOREM Questions == Spec => []QuestionKept
<1>1. Init => Alone
  BY DEF Init, Alone, Single, At, Idle, Standing, Answering, NoBody, Undisturbed
<1>2. Shape /\ Shape' /\ Alone /\ [Next]_vars => Alone'
  BY AloneSteps
<1>3. Alone => QuestionKept
  BY DEF Alone, Standing, Answering, QuestionKept, QuestionInHistory
<1> QED BY <1>1, <1>2, <1>3, Conversation, PTL DEF Spec
=============================================================================
