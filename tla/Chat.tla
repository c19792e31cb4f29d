-------------------------------- MODULE Chat --------------------------------
(***************************************************************************)
(* The chat handlers of one conversation (internal/ai/handler.go) over its *)
(* messages (internal/conversation): a request checks the conversation,    *)
(* looks softly whether a turn is running, writes or removes messages, and *)
(* starts a turn whose body loads the history, runs the agent and saves    *)
(* the reply, or takes the question back.                                  *)
(*                                                                         *)
(* Every call of the conversation service and of the turn manager is an    *)
(* action.  The turn manager is represented by TurnRegistry, which Turns   *)
(* implements.  The agent is external: it succeeds, fails or runs into its *)
(* deadline.  Messages are ordered by (created_at, id), that is, by their  *)
(* insertion; ListMessages' limit of 500 is not reached.                   *)
(***************************************************************************)
EXTENDS Naturals, Sequences

CONSTANTS
    Convs, Conv,    \* the conversations, and the one this is about
    Procs,          \* goroutines serving requests
    Requests,       \* the kinds of request that arrive
    MaxMsgs,        \* bound: requests stop inserting after this many messages
    MaxFaults       \* bound: failing calls and restarts

ASSUME ChatAssumption ==
    /\ Conv \in Convs
    /\ Requests \subseteq {"Chat", "Regenerate", "AddMessage", "Rollback", "Archive", "Delete"}
    /\ MaxMsgs \in Nat
    /\ MaxFaults \in Nat

VARIABLES
    status,           \* conversations.status
    msgs,             \* conversation_messages, oldest first
    lastId,           \* the newest message id given out
    req,              \* req[p]: the request p serves
    body,             \* the body of the running turn
    asked,            \* history: questions whose turn was started
    crossed,          \* history: another request or a rollback came in between
    faults,           \* faults still to come
    running, kept     \* the turn registry

R == INSTANCE TurnRegistry

registry == <<running, kept>>
vars     == <<status, msgs, lastId, req, body, asked, crossed, faults, registry>>

-----------------------------------------------------------------------------
(* State *)

\* A question of ChatWithConversation and a message of AddMessage both have the role
\* 'user', a reply has 'assistant'.
Message == [id : Nat \ {0}, via : {"chat", "post", "reply"}]

\* msg: the request's own message, or the anchor of its rollback; 0 for none.
Request == [pc   : {"idle", "soft", "add", "start", "undo", "list", "discard", "post", "rollback"},
            kind : {"none", "Chat", "Regenerate", "AddMessage", "Rollback"},
            msg  : Nat,
            incl : BOOLEAN]

\* msg: pendingUserMsgID, 0 for a regeneration.
Body == [pc : {"none", "load", "run", "save", "undo", "end"}, msg : Nat]

Idle   == [pc |-> "idle", kind |-> "none", msg |-> 0, incl |-> TRUE]
NoBody == [pc |-> "none", msg |-> 0]

TypeOK ==
    /\ status \in {"active", "archived", "deleted"}
    /\ msgs \in Seq(Message)
    /\ lastId \in Nat
    /\ req \in [Procs -> Request]
    /\ body \in Body
    /\ asked \in SUBSET Nat
    /\ crossed \in BOOLEAN
    /\ faults \in Nat
    /\ R!RegTypeOK
    /\ Conv \in running <=> body.pc # "none"

Init ==
    /\ status = "active"
    /\ msgs = << >>
    /\ lastId = 0
    /\ req = [p \in Procs |-> Idle]
    /\ body = NoBody
    /\ asked = {}
    /\ crossed = FALSE
    /\ faults = MaxFaults
    /\ R!RegInit

-----------------------------------------------------------------------------
(* Helpers *)

At(p, l)     == req[p].pc = l
Goto(p, l)   == req' = [req EXCEPT ![p] = [@ EXCEPT !.pc = l]]
Finish(p)    == req' = [req EXCEPT ![p] = Idle]
BodyGoto(l)  == body' = [body EXCEPT !.pc = l]

Ids(s) == {s[i].id : i \in DOMAIN s}

\* AddMessage of the store: the newest message of the conversation.
Insert(via) ==
    /\ lastId' = lastId + 1
    /\ msgs' = Append(msgs, [id |-> lastId + 1, via |-> via])

\* Where the anchor of a rollback stands.
Place(s, m) == CHOOSE i \in DOMAIN s : s[i].id = m

\* Rollback of the store: everything from the anchor on, or after it, in the order of
\* the messages.  An anchor that is gone deletes nothing.
Rolled(s, m, incl) ==
    IF m \notin Ids(s) THEN s
    ELSE SubSeq(s, 1, IF incl THEN Place(s, m) - 1 ELSE Place(s, m))

-----------------------------------------------------------------------------
(* Requests *)

\* The handlers' first call: GetConversation and the checks on its status.  The
\* conversation's own routes refuse only an archived one.
Arrive(p, kind, pc, m, incl) ==
    /\ At(p, "idle")
    /\ kind \in Requests
    /\ IF kind \in {"Chat", "Regenerate"} THEN status = "active" ELSE status # "archived"
    /\ req' = [req EXCEPT ![p] = [pc |-> pc, kind |-> kind, msg |-> m, incl |-> incl]]
    /\ crossed' = (kind = "Rollback" \/ (\E q \in Procs \ {p} : ~At(q, "idle"))
                                    \/ (crossed /\ body.pc # "none"))
    /\ UNCHANGED <<status, msgs, lastId, body, asked, faults, registry>>

\* The soft check: 409 while a turn is running.
SoftCheck(p) ==
    /\ At(p, "soft")
    /\ \/ Conv \in running /\ Finish(p)
       \/ Conv \notin running /\ Goto(p, IF req[p].kind = "Chat" THEN "add" ELSE "start")
    /\ UNCHANGED <<status, msgs, lastId, body, asked, faults, crossed, registry>>

\* Mutant of AddQuestion: an error of the insert is swallowed.
AddQuestionSwallow(p) ==
    /\ At(p, "add")
    /\ lastId < MaxMsgs
    /\ Insert("chat") \/ (lastId' = lastId + 1 /\ UNCHANGED msgs)
    /\ req' = [req EXCEPT ![p] = [@ EXCEPT !.pc = "start", !.msg = lastId + 1]]
    /\ UNCHANGED <<status, body, asked, faults, crossed, registry>>

\* ChatWithConversation inserts the question.
AddQuestion(p) ==
    /\ At(p, "add")
    /\ lastId < MaxMsgs
    /\ Insert("chat")
    /\ req' = [req EXCEPT ![p] = [@ EXCEPT !.pc = "start", !.msg = lastId + 1]]
    /\ UNCHANGED <<status, body, asked, faults, crossed, registry>>

\* Mutant of StartTurn: a refused question stays.
StartTurnNoUndo(p) ==
    /\ At(p, "start")
    /\ \/ /\ R!Begin(Conv)
          /\ body' = [pc |-> "load", msg |-> req[p].msg]
          /\ asked' = asked \cup ({req[p].msg} \ {0})
       \/ /\ Conv \in running
          /\ UNCHANGED <<body, asked, registry>>
    /\ Finish(p)
    /\ UNCHANGED <<status, msgs, lastId, faults, crossed>>

\* TurnManager.Start.  A chat that is refused goes on to take its question back; the
\* client of a started turn streams it, see Turns.
StartTurn(p) ==
    /\ At(p, "start")
    /\ \/ /\ R!Begin(Conv)
          /\ body' = [pc |-> "load", msg |-> req[p].msg]
          /\ asked' = asked \cup ({req[p].msg} \ {0})
          /\ Finish(p)
       \/ /\ Conv \in running
          /\ IF req[p].kind = "Chat" THEN Goto(p, "undo") ELSE Finish(p)
          /\ UNCHANGED <<body, asked, registry>>
    /\ UNCHANGED <<status, msgs, lastId, faults, crossed>>

\* Regenerate reads the history: nothing to regenerate, a reply to discard first, or a
\* user's message to answer again.
ListLast(p) ==
    /\ At(p, "list")
    /\ \/ msgs = << >> /\ Finish(p)
       \/ /\ msgs # << >>
          /\ LET last == msgs[Len(msgs)]
             IN  IF last.via = "reply"
                 THEN req' = [req EXCEPT ![p] = [@ EXCEPT !.pc = "discard", !.msg = last.id]]
                 ELSE Goto(p, "soft")
    /\ UNCHANGED <<status, msgs, lastId, body, asked, faults, crossed, registry>>

\* Regenerate discards the reply; one that is gone already is an error.
DiscardReply(p) ==
    /\ At(p, "discard")
    /\ \/ /\ req[p].msg \in Ids(msgs)
          /\ req' = [req EXCEPT ![p] = [@ EXCEPT !.pc = "soft", !.msg = 0]]
       \/ req[p].msg \notin Ids(msgs) /\ Finish(p)
    /\ msgs' = Rolled(msgs, req[p].msg, TRUE)
    /\ UNCHANGED <<status, lastId, body, asked, faults, crossed, registry>>

\* A refused chat rolls back from its question on.
UndoQuestion(p) ==
    /\ At(p, "undo")
    /\ msgs' = Rolled(msgs, req[p].msg, TRUE)
    /\ Finish(p)
    /\ UNCHANGED <<status, lastId, body, asked, faults, crossed, registry>>

\* The second call of the conversation's own routes AddMessage and Rollback.
PostMessage(p) ==
    /\ At(p, "post")
    /\ lastId < MaxMsgs
    /\ Insert("post")
    /\ Finish(p)
    /\ UNCHANGED <<status, body, asked, faults, crossed, registry>>

RollbackMessages(p) ==
    /\ At(p, "rollback")
    /\ msgs' = Rolled(msgs, req[p].msg, req[p].incl)
    /\ Finish(p)
    /\ UNCHANGED <<status, lastId, body, asked, faults, crossed, registry>>

\* ArchiveConversation and DeleteConversation: whatever the status is.
SetStatus(kind, s) ==
    /\ kind \in Requests
    /\ status' = s
    /\ UNCHANGED <<msgs, lastId, req, body, asked, faults, crossed, registry>>

-----------------------------------------------------------------------------
(* runTurnBody *)

LoadHistory ==
    /\ body.pc = "load"
    /\ BodyGoto("run")
    /\ UNCHANGED <<status, msgs, lastId, req, asked, faults, crossed, registry>>

\* External: the agent answers, fails, or is cut off by the turn's deadline.  A
\* question whose turn failed is taken back, one that ran out of time is kept.
RunAgent ==
    /\ body.pc = "run"
    /\ \E l \in {"save", "undo", "end"} : BodyGoto(l)
    /\ UNCHANGED <<status, msgs, lastId, req, asked, faults, crossed, registry>>

SaveReply ==
    /\ body.pc = "save"
    /\ lastId <= MaxMsgs
    /\ Insert("reply")
    /\ BodyGoto("end")
    /\ UNCHANGED <<status, req, asked, faults, crossed, registry>>

\* rollbackPendingUserMessage.
TakeBack ==
    /\ body.pc = "undo"
    /\ msgs' = IF body.msg = 0 THEN msgs ELSE Rolled(msgs, body.msg, TRUE)
    /\ BodyGoto("end")
    /\ UNCHANGED <<status, lastId, req, asked, faults, crossed, registry>>

\* The goroutine's deferred markFinished, and later the retention timer.
EndTurn ==
    /\ body.pc = "end"
    /\ R!End(Conv)
    /\ body' = NoBody
    /\ UNCHANGED <<status, msgs, lastId, req, asked, faults, crossed>>

ForgetTurn ==
    /\ R!Forget(Conv)
    /\ UNCHANGED <<status, msgs, lastId, req, body, asked, faults, crossed>>

-----------------------------------------------------------------------------
(* Failures *)

\* A call of a request fails, before or after its effect, or the client is gone: an
\* error response.
RequestFails(p) ==
    /\ faults > 0
    /\ ~At(p, "idle")
    /\ faults' = faults - 1
    /\ Finish(p)
    /\ UNCHANGED <<status, msgs, lastId, body, asked, crossed, registry>>

\* A call of the body fails: no history means no run and the question is taken back,
\* a reply that cannot be saved and a question that cannot be removed are logged.
BodyFails ==
    /\ faults > 0
    /\ body.pc \in {"load", "save", "undo"}
    /\ faults' = faults - 1
    /\ BodyGoto(IF body.pc = "load" THEN "undo" ELSE "end")
    /\ UNCHANGED <<status, msgs, lastId, req, asked, crossed, registry>>

\* The process restarts: turns and requests are gone, the messages are there.
Restart ==
    /\ faults > 0
    /\ faults' = faults - 1
    /\ req' = [p \in Procs |-> Idle]
    /\ body' = NoBody
    /\ running' = {} /\ kept' = {}
    /\ UNCHANGED <<status, msgs, lastId, asked, crossed>>

-----------------------------------------------------------------------------
(* Specification *)

Next ==
    \/ \E p \in Procs :
          \/ Arrive(p, "Chat", "soft", 0, TRUE)
          \/ Arrive(p, "Regenerate", "list", 0, TRUE)
          \/ Arrive(p, "AddMessage", "post", 0, TRUE)
          \/ \E m \in Ids(msgs), incl \in BOOLEAN : Arrive(p, "Rollback", "rollback", m, incl)
          \/ SoftCheck(p) \/ AddQuestion(p) \/ StartTurn(p) \/ ListLast(p) \/ DiscardReply(p)
          \/ UndoQuestion(p) \/ PostMessage(p) \/ RollbackMessages(p) \/ RequestFails(p)
    \/ SetStatus("Archive", "archived") \/ SetStatus("Delete", "deleted")
    \/ LoadHistory \/ RunAgent \/ SaveReply \/ TakeBack \/ EndTurn \/ ForgetTurn
    \/ BodyFails \/ Restart

Spec == Init /\ [][Next]_vars

-----------------------------------------------------------------------------
(* Properties *)

\* A refused chat leaves nothing behind: unless a call failed or the process died, a
\* question in the history has had its turn, or its request is still under way.
RefusedLeavesNothing ==
    faults = MaxFaults =>
        \A i \in DOMAIN msgs : msgs[i].via = "chat" =>
            \/ msgs[i].id \in asked
            \/ \E p \in Procs : req[p].pc \in {"start", "undo"} /\ req[p].msg = msgs[i].id

\* The agent answers the question it was started for: the question is in the history
\* when the turn loads it, and still there when the reply is saved.
QuestionInHistory ==
    body.pc \in {"load", "run", "save"} /\ body.msg # 0 => body.msg \in Ids(msgs)

\* The question goes missing only when requests overlap: with no other request between
\* the status check and the answer of the one that asked it, and no rollback asked for,
\* it stays in the history, whatever failed, was archived or restarted.
QuestionKept == ~crossed => QuestionInHistory

\* Messages, requests and the turn keep their shape, and a refused chat leaves
\* nothing behind.
RefusalsAreClean == TypeOK /\ RefusedLeavesNothing

=============================================================================
