-------------------------------- MODULE Drafts --------------------------------
(***************************************************************************)
(* The volunteer-plan drafts of one conversation, the plans adopted from   *)
(* them, the tool that generates drafts and the requests that adopt,       *)
(* archive and delete.                                                     *)
(*                                                                         *)
(* The tool runs inside the conversation's turn, of which a process has    *)
(* one at a time; requests run beside it.  Every call to a store is one    *)
(* step.  A call may fail, or take effect and lose its answer; a context   *)
(* that is over (the turn's deadline, a client that left) fails every      *)
(* later call made with it.  These events share the bound MaxFaults.       *)
(* Drafts are numbered in the order they were created.                     *)
(***************************************************************************)
EXTENDS Naturals, Sequences, FiniteSets

CONSTANTS
    Procs,        \* goroutines serving requests
    Inputs,       \* recommendation requests, as stored in input_json
    MaxDrafts,    \* bound: drafts ever created
    MaxRequests,  \* bound: requests ever started
    MaxFaults,    \* bound: failures, lost answers, ended contexts, restarts
    None          \* an absent value

ASSUME DraftsAssumption ==
    /\ MaxDrafts \in Nat \ {0}
    /\ MaxRequests \in Nat
    /\ MaxFaults \in Nat
    /\ None \notin Inputs
    /\ None \notin {"refused", "generating", "reused", "ready", "failed"}

Ids == 1..MaxDrafts

VARIABLES
    conversation, \* its status: "active", "archived" or "deleted"
    drafts,       \* rows of conversation_plan_drafts, in the order of ids
    plans,        \* per draft, the row of user_volunteer_plans made from it
    tool,         \* the running generate_volunteer_plan_draft call
    expired,      \* the turn's context is over
    req,          \* the request each goroutine serves
    budget,       \* requests that may still start
    faults,       \* faults that may still happen
    \* History, read by no code:
    crossed,      \* drafts superseded while a request was adopting them
    buried,       \* plans deleted when no adoption of them was under way
    hurt          \* drafts over which a failure left something half done

rows     == <<conversation, drafts, plans>>
draftVars == <<rows, tool, expired, req, budget, faults, crossed, buried, hurt>>

NoTool    == [pc |-> "idle", input |-> None, draft |-> 0, result |-> None]
NoRequest == [pc |-> "idle", draft |-> 0, cut |-> FALSE]

Adopting(d) == {p \in Procs : req[p].pc # "idle" /\ req[p].draft = d}

-----------------------------------------------------------------------------
(* Calls to a store: done, failed, or done with the answer lost *)

\* What may become of a call made with a context that is over or not.
Outcomes(over) ==
    IF over THEN {"failed"}
    ELSE {"done"} \cup (IF faults > 0 THEN {"failed", "lost"} ELSE {})

Pay(how, over) == faults' = IF how = "done" \/ over THEN faults ELSE faults - 1

\* The guarded UPDATE of markStatusTransition: whether it finds the row.
InState(d, from) == drafts[d].status \in from

Marked(d, from, to) ==
    IF InState(d, from) THEN [drafts EXCEPT ![d].status = to] ELSE drafts

MarkReadyFrom   == {"generating"}
MarkFailedFrom  == {"generating", "ready"}
MarkAdoptedFrom == {"ready"}
MarkSupersededFrom == {"ready"}

\* The failed call leaves something of draft d undone, or done and not known.
Hurts(d, undone) == hurt' = IF undone THEN hurt \cup {d} ELSE hurt

-----------------------------------------------------------------------------
(* The tool generate_volunteer_plan_draft, when it is not a dry run *)

ToolAt(pc) == tool.pc = pc
ToolGoes(pc) == tool' = [tool EXCEPT !.pc = pc]
ToolEnds(result) == tool' = [tool EXCEPT !.pc = "done", !.result = result]

ToolFrame == UNCHANGED <<conversation, plans, expired, req, budget, buried>>

CheckConversation ==
    /\ ToolAt("conversation")
    /\ \E how \in Outcomes(expired) \ {"lost"} :
         /\ Pay(how, expired)
         /\ IF how = "done" /\ conversation = "active"
              THEN ToolGoes("list")
              ELSE ToolEnds("refused")
    /\ ToolFrame /\ UNCHANGED <<drafts, crossed, hurt>>

Reusable(d) == drafts[d].status = "ready" /\ drafts[d].input = tool.input

\* Only the newest draft is looked at; a listing that fails is skipped.
ListDrafts ==
    /\ ToolAt("list")
    /\ \E how \in Outcomes(expired) \ {"lost"} :
         /\ Pay(how, expired)
         /\ LET newest == Len(drafts)
                found  == how = "done" /\ newest > 0
                status == IF found THEN drafts[newest].status ELSE None
            IN \/ /\ status = "generating"
                  /\ ToolEnds("generating")
               \/ /\ status = "ready" /\ Reusable(newest)
                  /\ tool' = [tool EXCEPT !.pc = "done", !.result = "reused",
                                          !.draft = newest]
               \/ /\ status = "ready" /\ ~Reusable(newest)
                  /\ tool' = [tool EXCEPT !.pc = "supersede", !.draft = newest]
               \/ /\ status \notin {"generating", "ready"}
                  /\ ToolGoes("create")
    /\ ToolFrame /\ UNCHANGED <<drafts, crossed, hurt>>

\* Mutant of Supersede: the drifted draft is left as it is.
SupersedeKeepsReady ==
    /\ ToolAt("supersede")
    /\ ToolGoes("create")
    /\ ToolFrame /\ UNCHANGED <<drafts, crossed, faults, hurt>>

\* The error of MarkSuperseded is ignored.
Supersede ==
    /\ ToolAt("supersede")
    /\ \E how \in Outcomes(expired) :
         /\ Pay(how, expired)
         /\ IF how = "failed"
              THEN UNCHANGED <<drafts, crossed>>
              ELSE /\ drafts' = Marked(tool.draft, MarkSupersededFrom, "superseded")
                   /\ crossed' = IF InState(tool.draft, MarkSupersededFrom)
                                    /\ Adopting(tool.draft) # {}
                                 THEN crossed \cup {tool.draft} ELSE crossed
    /\ ToolGoes("create")
    /\ ToolFrame /\ UNCHANGED hurt

\* The INSERT does not ask what has become of the conversation since.
CreateDraft ==
    /\ ToolAt("create")
    /\ Len(drafts) < MaxDrafts
    /\ \E how \in Outcomes(expired) :
         /\ Pay(how, expired)
         /\ Hurts(Len(drafts) + 1, how = "lost")
         /\ IF how = "failed"
              THEN ToolEnds("failed") /\ UNCHANGED drafts
              ELSE /\ drafts' = Append(drafts,
                        [status |-> "generating", input |-> tool.input,
                         late |-> conversation # "active"])
                   /\ IF how = "lost"
                        THEN ToolEnds("failed")
                        ELSE tool' = [tool EXCEPT !.pc = "recommend",
                                                  !.draft = Len(drafts) + 1]
    /\ ToolFrame /\ UNCHANGED crossed

\* Recommend may fail, for lack of candidates or of a database, or return no
\* plan.
RecommendPlan ==
    /\ ToolAt("recommend")
    /\ \/ ~expired /\ ToolGoes("ready")
       \/ ToolGoes("failed")
    /\ ToolFrame /\ UNCHANGED <<drafts, crossed, faults, hurt>>

MarkReady ==
    /\ ToolAt("ready")
    /\ \E how \in Outcomes(expired) :
         /\ Pay(how, expired)
         /\ Hurts(tool.draft, how = "lost")
         /\ drafts' = IF how = "failed" THEN drafts
                      ELSE Marked(tool.draft, MarkReadyFrom, "ready")
         /\ IF how = "done" /\ InState(tool.draft, MarkReadyFrom)
              THEN ToolEnds("ready") ELSE ToolGoes("failed")
    /\ ToolFrame /\ UNCHANGED crossed

\* The error of MarkFailed is ignored.
MarkFailed ==
    /\ ToolAt("failed")
    /\ \E how \in Outcomes(expired) :
         /\ Pay(how, expired)
         /\ Hurts(tool.draft, how = "failed")
         /\ drafts' = IF how = "failed" THEN drafts
                      ELSE Marked(tool.draft, MarkFailedFrom, "failed")
    /\ ToolEnds("failed")
    /\ ToolFrame /\ UNCHANGED crossed

GenerateStep ==
    \/ CheckConversation \/ ListDrafts \/ Supersede \/ CreateDraft
    \/ RecommendPlan \/ MarkReady \/ MarkFailed

-----------------------------------------------------------------------------
(* AdoptDraft and the other requests *)

At(p, pc) == req[p].pc = pc
Goes(p, pc) == req' = [req EXCEPT ![p].pc = pc]
Ends(p) == req' = [req EXCEPT ![p] = NoRequest]

RequestFrame == UNCHANGED <<tool, expired, budget, crossed>>

Arrives ==
    /\ budget > 0
    /\ budget' = budget - 1

Adopt(p) ==
    /\ At(p, "idle") /\ Arrives
    /\ \E d \in 1..Len(drafts) :
         req' = [req EXCEPT ![p] = [pc |-> "read", draft |-> d, cut |-> FALSE]]
    /\ UNCHANGED <<rows, tool, expired, faults, crossed, buried, hurt>>

\* Mutant of Adoptable: an adopted draft may be adopted again.
AdoptableAgain(d) == drafts[d].status \in {"ready", "adopted"}

Adoptable(d) == drafts[d].status = "ready"

ReadDraft(p) ==
    /\ At(p, "read")
    /\ \E how \in Outcomes(req[p].cut) \ {"lost"} :
         /\ Pay(how, req[p].cut)
         /\ IF how = "done" /\ Adoptable(req[p].draft)
              THEN Goes(p, "insert") ELSE Ends(p)
    /\ RequestFrame /\ UNCHANGED <<rows, buried, hurt>>

\* A plan refers to the draft, deleted or not.
Linked(d) == plans[d] # "none"

\* INSERT ... ON CONFLICT (user_id, source_draft_id) DO NOTHING.
InsertPlan(p) ==
    /\ At(p, "insert")
    /\ LET d == req[p].draft IN
       \E how \in Outcomes(req[p].cut) :
         /\ Pay(how, req[p].cut)
         /\ Hurts(d, how = "lost" /\ ~Linked(d))
         /\ IF how = "failed"
              THEN Ends(p) /\ UNCHANGED plans
            ELSE IF Linked(d)
              THEN (IF how = "done" THEN Goes(p, "restore") ELSE Ends(p))
                   /\ UNCHANGED plans
            ELSE /\ plans' = [plans EXCEPT ![d] = "live"]
                 /\ IF how = "done" THEN Goes(p, "mark") ELSE Ends(p)
    /\ RequestFrame /\ UNCHANGED <<conversation, drafts, buried>>

\* UPDATE ... WHERE deleted_at IS NOT NULL.
RestorePlan(p) ==
    /\ At(p, "restore")
    /\ LET d == req[p].draft
           hit == plans[d] = "deleted" IN
       \E how \in Outcomes(req[p].cut) :
         /\ Pay(how, req[p].cut)
         /\ plans' = IF how # "failed" /\ hit
                     THEN [plans EXCEPT ![d] = "live"] ELSE plans
         /\ IF how # "done" THEN Ends(p)
            ELSE IF hit THEN Goes(p, "mark") ELSE Goes(p, "lookup")
    /\ RequestFrame /\ UNCHANGED <<conversation, drafts, buried, hurt>>

\* The plan may have been deleted since RestorePlan: the request fails.
GetByDraftID(p) ==
    /\ At(p, "lookup")
    /\ LET d == req[p].draft IN
       \E how \in Outcomes(req[p].cut) \ {"lost"} :
         /\ Pay(how, req[p].cut)
         /\ IF how = "done" /\ plans[d] = "live"
              THEN Goes(p, "mark") ELSE Ends(p)
    /\ RequestFrame /\ UNCHANGED <<rows, buried, hurt>>

\* The error of MarkAdopted is logged and the adoption goes on.
MarkAdopted(p) ==
    /\ At(p, "mark")
    /\ \E how \in Outcomes(req[p].cut) :
         /\ Pay(how, req[p].cut)
         /\ Hurts(req[p].draft, how = "failed")
         /\ drafts' = IF how = "failed" THEN drafts
                      ELSE Marked(req[p].draft, MarkAdoptedFrom, "adopted")
    /\ Goes(p, "archive")
    /\ RequestFrame /\ UNCHANGED <<conversation, plans, buried>>

\* UpdateConversationStatus sets the status whatever it was: the conversation
\* of an adopted draft is archived even if it was deleted before.
ArchiveConversation(p) ==
    /\ At(p, "archive")
    /\ \E how \in Outcomes(req[p].cut) :
         /\ Pay(how, req[p].cut)
         /\ Hurts(req[p].draft, how = "failed")
         /\ conversation' = IF how = "failed" THEN conversation ELSE "archived"
    /\ Ends(p)
    /\ RequestFrame /\ UNCHANGED <<drafts, plans, buried>>

AdoptStep(p) ==
    \/ ReadDraft(p) \/ InsertPlan(p) \/ RestorePlan(p) \/ GetByDraftID(p)
    \/ MarkAdopted(p) \/ ArchiveConversation(p)

\* The client goes away: the request's context is over, the handler runs on.
Disconnect(p) ==
    /\ ~At(p, "idle") /\ ~req[p].cut /\ faults > 0
    /\ req' = [req EXCEPT ![p].cut = TRUE]
    /\ faults' = faults - 1
    /\ RequestFrame /\ UNCHANGED <<rows, buried, hurt>>

\* SoftDelete, one UPDATE.
DeletePlan(d) ==
    /\ Arrives
    /\ plans[d] = "live"
    /\ plans' = [plans EXCEPT ![d] = "deleted"]
    /\ buried' = IF Adopting(d) = {} /\ InState(d, {"adopted"})
                 THEN buried \cup {d} ELSE buried
    /\ UNCHANGED <<conversation, drafts, tool, expired, req, faults, crossed, hurt>>

\* The user archives the conversation, or deletes it, which is a status too:
\* the drafts stay.
SetStatus(status) ==
    /\ Arrives
    /\ conversation' = status
    /\ UNCHANGED <<drafts, plans, tool, expired, req, faults, crossed, buried, hurt>>

Archive == SetStatus("archived")
DeleteConversation == SetStatus("deleted")

RequestStep ==
    \/ \E p \in Procs : Adopt(p) \/ AdoptStep(p) \/ Disconnect(p)
    \/ \E d \in 1..Len(drafts) : DeletePlan(d)
    \/ Archive \/ DeleteConversation

DraftsInit ==
    /\ conversation = "active"
    /\ drafts = <<>>
    /\ plans = [d \in Ids |-> "none"]
    /\ tool = NoTool
    /\ expired = FALSE
    /\ req = [p \in Procs |-> NoRequest]
    /\ budget = MaxRequests
    /\ faults = MaxFaults
    /\ crossed = {}
    /\ buried = {}
    /\ hurt = {}

-----------------------------------------------------------------------------
(* Properties *)

Draft == [status : {"generating", "ready", "failed", "adopted", "superseded"},
          input : Inputs, late : BOOLEAN]

\* Type invariant of the rows, the tool and the requests.
DraftsTypeOK ==
    /\ conversation \in {"active", "archived", "deleted"}
    /\ drafts \in Seq(Draft) /\ Len(drafts) <= MaxDrafts
    /\ plans \in [Ids -> {"none", "live", "deleted"}]
    /\ tool \in [pc : {"idle", "conversation", "list", "supersede", "create",
                       "recommend", "ready", "failed", "done"},
                 input : Inputs \cup {None}, draft : 0..MaxDrafts,
                 result : {None, "refused", "generating", "reused", "ready", "failed"}]
    /\ expired \in BOOLEAN
    /\ req \in [Procs -> [pc : {"idle", "read", "insert", "restore", "lookup",
                                "mark", "archive"},
                          draft : 0..MaxDrafts, cut : BOOLEAN]]
    /\ budget \in 0..MaxRequests /\ faults \in 0..MaxFaults
    /\ crossed \in SUBSET Ids /\ buried \in SUBSET Ids /\ hurt \in SUBSET Ids

Spent == MaxFaults - faults

Open(d) == drafts[d].status \in {"generating", "ready"}

\* "A conversation keeps one ready draft", or one that is being generated: each
\* more costs a failure of its own, whatever generations and adoptions overlap
\* (executeGenerate...).
OneOpenDraft == Cardinality({d \in 1..Len(drafts) : Open(d)}) <= 1 + Spent

\* An adopted draft has its plan.  A plan nobody is adopting any more has an
\* adopted draft, unless a newer generation superseded it in the meantime, and
\* a conversation that is closed, unless a failure hit just this draft (the
\* three writes of AdoptDraft, of which the errors of two are only logged).
PlansAreAdopted ==
    \A d \in 1..Len(drafts) :
        /\ drafts[d].status = "adopted" => plans[d] # "none"
        /\ plans[d] # "none" /\ Adopting(d) = {} /\ d \notin hurt =>
             /\ conversation # "active"
             /\ drafts[d].status = "adopted" \/ d \in crossed

\* A plan deleted after its adoption was over never comes back: a draft once
\* adopted is refused before CreateFromDraft could restore its plan.
DeletedStaysDeleted == \A d \in buried : plans[d] = "deleted"

\* A conversation that was archived or deleted sees at most one more draft: that
\* of the generation that had checked the status before.
OneLateDraft == Cardinality({d \in 1..Len(drafts) : drafts[d].late}) <= 1

\* The draft the tool announces, new or reused, was made for the preferences
\* it was called with.
AnnouncedIsAsked ==
    tool.result \in {"reused", "ready"} => drafts[tool.draft].input = tool.input

Generating(d) == drafts[d].status = "generating"
GeneratedBy(d) == tool.draft = d /\ tool.pc \in {"recommend", "ready", "failed"}

\* A draft that is generating and that the tool is not working on was hit by a
\* failure, and only such a one makes the tool refuse ("previous draft is still
\* being generated"): it is never one that is still being saved.
StuckNeedsFault ==
    /\ \A d \in 1..Len(drafts) : Generating(d) => GeneratedBy(d) \/ d \in hurt
    /\ tool.result = "generating" => \E d \in hurt : Generating(d)

\* A conversation's drafts: one open, one late, none stuck without a failure.
DraftsAreFew == DraftsTypeOK /\ OneOpenDraft /\ OneLateDraft /\ StuckNeedsFault

\* Drafts and plans agree, and the user and the model are told the truth
\* about them.
PlansFollowDrafts == PlansAreAdopted /\ DeletedStaysDeleted /\ AnnouncedIsAsked

=============================================================================
