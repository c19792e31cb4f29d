--------------------------------- MODULE Agent ---------------------------------
(***************************************************************************)
(* The agent of a conversation's turn: RunStreamWithOptions asks the       *)
(* language model, executes the tools it calls, feeds the results back and *)
(* streams what happens, until the model calls no tool, an error, or the   *)
(* limit of iterations.  Its tool generate_volunteer_plan_draft is the one *)
(* of module Drafts, on whose rows the requests work at the same time.     *)
(*                                                                         *)
(* The language model is outside: it means to answer with text or not and  *)
(* with tool calls, and its stream is any of Streams; module ModelStream   *)
(* has what the client makes of it.  A call is known by its position among *)
(* the calls of the run.  What a tool says is reduced to whether its rows  *)
(* can be charted.                                                         *)
(***************************************************************************)
EXTENDS Drafts, ModelStream

CONSTANTS
    Streams,        \* what the model may answer in each iteration of a run
    MaxIterations,  \* maxAgentIterations
    MaxWidgets,     \* MaxWidgetsPerRun
    MaxTurns        \* bound: turns ever started

\* What a tool may be asked; "preview" is a dry run of the generation, and
\* the arguments of a broken call are no JSON.  A generation is for some input.
Kinds == {"generate", "preview", "filter", "search", "aggregate", "chart", "form",
          "card", "unknown", "broken"}
Call  == [kind : Kinds \ {"generate"}, input : Inputs \cup {None}, src : Nat]
            \cup [kind : {"generate"}, input : Inputs, src : Nat]

\* meant: the calls of the answer; cut: the connection ends before all is said.
Stream == [meant : Seq(Call), cut : BOOLEAN, frames : Seq(Frame)]

ASSUME AgentAssumption ==
    /\ MaxIterations \in Nat \ {0}
    /\ Streams \in [1..MaxIterations -> SUBSET Stream]
    /\ MaxWidgets \in Nat
    /\ MaxTurns \in Nat

\* What the service takes for granted of the servers, unless a stream is cut.
ASSUME WholeAssumption ==
    \A i \in 1..MaxIterations : \A s \in Streams[i] : s.cut \/ Whole(s.frames, Len(s.meant))

VARIABLES
    run,    \* the local variables of RunStreamWithOptions
    sent,   \* the events its callbacks have streamed, in order
    turns   \* turns that may still start

agentVars == <<run, sent, turns>>
vars == <<draftVars, agentVars>>

\* messages: what the next call of the model is given, after the history: the
\* calls of an answer, or the result of one call.  meant and cut only record
\* what the model wanted executed, and whether a stream was cut short.
NoRun ==
    [pc |-> "idle", iteration |-> 0, todo |-> <<>>, executed |-> <<>>,
     results |-> <<>>, widgets |-> <<>>, texts |-> <<>>, messages |-> <<>>,
     meant |-> <<>>, cut |-> FALSE, content |-> None, outcome |-> None]

RunAt(pc) == run.pc = pc
Current == Len(run.executed)

Returns(outcome) ==
    run' = [run EXCEPT !.pc = "returned", !.outcome = outcome]

AgentFrame == UNCHANGED <<draftVars, turns>>

-----------------------------------------------------------------------------
(* The loop *)

\* Whoever started the turn has checked the conversation, some calls ago.
BeginTurn ==
    /\ RunAt("idle") /\ turns > 0
    /\ turns' = turns - 1
    /\ run' = [NoRun EXCEPT !.pc = "model", !.iteration = 1]
    /\ sent' = <<>>
    /\ expired' = FALSE
    /\ UNCHANGED <<rows, tool, req, budget, faults, crossed, buried, hurt>>

\* The answer's calls are done: the top of the loop, or its end.
Iterate ==
    /\ RunAt("call") /\ run.todo = <<>>
    /\ IF run.iteration = MaxIterations THEN Returns("exhausted")
       ELSE IF expired THEN Returns("cancelled")
       ELSE run' = [run EXCEPT !.pc = "model", !.iteration = @ + 1]
    /\ UNCHANGED sent /\ AgentFrame

\* Mutant of KeepText: only the last answer's text is kept.
KeepTextLast(text) == IF text THEN <<run.iteration>> ELSE run.texts

KeepText(text) == IF text THEN Append(run.texts, run.iteration) ELSE run.texts

\* Text is forwarded as it comes; the calls are whole when they come.
Streamed(text) ==
    IF text THEN Append(sent, [type |-> "text", id |-> run.iteration]) ELSE sent

Broken == [kind |-> "broken", input |-> None, src |-> 0]

\* The call that gathered fragments make: the one meant if they are its own
\* and all of them.
CallOf(meant, c) ==
    IF c.id \in 1..Len(meant) /\ c.args = <<<<c.id, 1>>, <<c.id, 2>>>>
    THEN meant[c.id] ELSE Broken

\* runOneIteration: a stream, read to its end.
Heard(s) ==
    LET read == streamOpenAIBody(s.frames)
    IN  [text |-> read.text, meant |-> s.meant, cut |-> s.cut,
         calls |-> [i \in 1..Len(read.calls) |-> CallOf(s.meant, read.calls[i])]]

Answers == [i \in 1..MaxIterations |-> {Heard(s) : s \in Streams[i]}]

Answer ==
    /\ RunAt("model") /\ ~expired
    /\ \E r \in Answers[run.iteration] :
         /\ sent' = Streamed(r.text)
         /\ LET heard == [run EXCEPT !.texts = KeepText(r.text),
                              !.meant = @ \o r.meant, !.cut = @ \/ r.cut] IN
            run' = IF r.calls = <<>>
                   THEN [heard EXCEPT !.pc = "returned", !.outcome = "answered"]
                   ELSE [heard EXCEPT !.pc = "call", !.todo = r.calls,
                            !.messages = Append(@, [role |-> "assistant",
                                ids |-> {Current + i : i \in 1..Len(r.calls)}])]
    /\ AgentFrame

\* An error of the model, with or without text before it; a context that is
\* over shows as an error or as a stream that just ends.
AnswerFails ==
    /\ RunAt("model")
    /\ \E text \in BOOLEAN : sent' = Streamed(text)
    /\ Returns(IF expired THEN "cancelled" ELSE "failed")
    /\ AgentFrame

StartCall ==
    /\ RunAt("call") /\ run.todo # <<>>
    /\ IF expired
         THEN Returns("cancelled") /\ UNCHANGED <<sent, tool>>
       ELSE /\ run' = [run EXCEPT !.pc = "execute",
                                  !.executed = Append(@, Head(run.todo))]
            /\ sent' = Append(sent, [type |-> "start", id |-> Current + 1])
            /\ tool' = IF Head(run.todo).kind = "generate"
                       THEN [NoTool EXCEPT !.pc = "conversation",
                                           !.input = Head(run.todo).input]
                       ELSE tool
    /\ UNCHANGED <<rows, expired, req, budget, faults, crossed, buried, hurt, turns>>

\* Mutant of EndCall: the model is not told.
EndCallUnpaired ==
    /\ RunAt("end")
    /\ sent' = Append(sent, [type |-> "end", id |-> Current])
    /\ run' = [run EXCEPT !.pc = "call", !.todo = Tail(@), !.content = None,
                  !.results = Append(@, [id |-> Current, rows |-> run.content = "rows"])]
    /\ AgentFrame

\* The result of a tool is in: OnToolCallEnd, then the result joins the
\* results and the messages.
EndCall ==
    /\ RunAt("end")
    /\ sent' = Append(sent, [type |-> "end", id |-> Current])
    /\ run' = [run EXCEPT !.pc = "call", !.todo = Tail(@), !.content = None,
                  !.results = Append(@, [id |-> Current, rows |-> run.content = "rows"]),
                  !.messages = Append(@, [role |-> "tool", ids |-> {Current}])]
    /\ AgentFrame

-----------------------------------------------------------------------------
(* The tools *)

Executing(kinds) == RunAt("execute") /\ run.executed[Current].kind \in kinds
Says(content) == run' = [run EXCEPT !.pc = "end", !.content = content]

\* widgetEmitter, and the tool's answer, which is the same beyond the limit.
Emit(src) ==
    /\ run' = [run EXCEPT !.pc = "end", !.content = "words",
                  !.widgets = IF Len(@) >= MaxWidgets THEN @
                              ELSE Append(@, [id |-> Current, src |-> src])]
    /\ sent' = IF Len(run.widgets) >= MaxWidgets THEN sent
               ELSE Append(sent, [type |-> "widget", id |-> Current])

\* The filter is parsed and repeated, no more; an unknown tool, and arguments
\* that do not parse, are answered with an error in words.
ApplyFilter ==
    /\ Executing({"filter", "unknown", "broken"}) /\ Says("words")
    /\ UNCHANGED sent /\ AgentFrame

\* The first lines found; none, or an error, leaves nothing to chart.
SearchUniversities ==
    /\ Executing({"search"})
    /\ \E content \in {"rows", "words"} : Says(content)
    /\ UNCHANGED sent /\ AgentFrame

AggregateData ==
    /\ Executing({"aggregate"})
    /\ \E content \in {"rows", "words"} : Says(content)
    /\ UNCHANGED sent /\ AgentFrame

\* The dry run reads and writes no draft, and does not ask whether the
\* conversation is archived; its counts cannot be charted.
Preview ==
    /\ Executing({"preview"}) /\ Says("words")
    /\ UNCHANGED sent /\ AgentFrame

\* toolCallResolver and resolveChartData: the result must be in and chartable.
ResolveResult(id) ==
    \E i \in 1..Len(run.results) : run.results[i].id = id /\ run.results[i].rows

\* render_chart: from the data in its arguments (src 0) or a result of this
\* run; arguments that do not do are refused.
RenderChart ==
    /\ Executing({"chart"})
    /\ LET src == run.executed[Current].src IN
       \/ (src = 0 \/ ResolveResult(src)) /\ Emit(src)
       \/ Says("words") /\ UNCHANGED sent
    /\ AgentFrame

\* render_form and render_card: drawn, or refused for their arguments.
RenderForm ==
    /\ Executing({"form"})
    /\ Emit(0) \/ (Says("words") /\ UNCHANGED sent)
    /\ AgentFrame

RenderCard ==
    /\ Executing({"card"})
    /\ Emit(0) \/ (Says("words") /\ UNCHANGED sent)
    /\ AgentFrame

\* generate_volunteer_plan_draft runs by the steps of Drafts.
GenerateDraft ==
    \/ Executing({"generate"}) /\ GenerateStep /\ UNCHANGED agentVars
    \/ /\ Executing({"generate"}) /\ ToolAt("done")
       /\ Says("words")
       /\ tool' = NoTool
       /\ UNCHANGED <<rows, expired, req, budget, faults, crossed, buried, hurt, sent, turns>>

-----------------------------------------------------------------------------
(* The end of a turn, and what may end it early *)

EndTurn ==
    /\ RunAt("returned")
    /\ run' = NoRun
    /\ sent' = <<>>
    /\ AgentFrame

\* The turn's deadline passes.
Deadline ==
    /\ ~RunAt("idle") /\ ~expired /\ faults > 0
    /\ expired' = TRUE
    /\ faults' = faults - 1
    /\ UNCHANGED <<rows, tool, req, budget, crossed, buried, hurt, agentVars>>

\* The draft the tool is working on, and those with a plan whose adoption is not
\* over.
OwnDraft    == {d \in 1..Len(drafts) : GeneratedBy(d)}
HalfAdopted == {d \in 1..Len(drafts) :
                  \E p \in Procs : req[p].draft = d /\ req[p].pc \in {"mark", "archive"}}

\* A panic in the agent or a tool; the turn manager recovers and ends the turn.
Panic ==
    /\ RunAt("model") \/ RunAt("execute")
    /\ faults > 0
    /\ faults' = faults - 1
    /\ run' = NoRun /\ sent' = <<>> /\ tool' = NoTool
    /\ hurt' = hurt \cup OwnDraft
    /\ UNCHANGED <<rows, expired, req, budget, crossed, buried, turns>>

\* The process restarts: the rows stay.
Restart ==
    /\ faults > 0
    /\ ~RunAt("idle") \/ \E p \in Procs : ~At(p, "idle")
    /\ faults' = faults - 1
    /\ run' = NoRun /\ sent' = <<>> /\ tool' = NoTool
    /\ req' = [p \in Procs |-> NoRequest]
    /\ hurt' = hurt \cup OwnDraft \cup HalfAdopted
    /\ UNCHANGED <<rows, expired, budget, crossed, buried, turns>>

Init ==
    /\ DraftsInit
    /\ run = NoRun
    /\ sent = <<>>
    /\ turns = MaxTurns

Loop == BeginTurn \/ Iterate \/ Answer \/ AnswerFails \/ StartCall \/ EndCall \/ EndTurn
Tools ==
    \/ ApplyFilter \/ SearchUniversities \/ AggregateData \/ Preview
    \/ RenderChart \/ RenderForm \/ RenderCard \/ GenerateDraft

Next ==
    \/ Loop \/ Tools
    \/ RequestStep /\ UNCHANGED agentVars
    \/ Deadline \/ Panic \/ Restart

Spec == Init /\ [][Next]_vars

-----------------------------------------------------------------------------
(* Properties *)

\* Type invariant of the run and of the modules below it.
TypeOK ==
    /\ DraftsTypeOK
    /\ run \in [pc : {"idle", "model", "call", "execute", "end", "returned"},
                iteration : 0..MaxIterations, todo : Seq(Call),
                executed : Seq(Call), results : Seq([id : Nat, rows : BOOLEAN]),
                widgets : Seq([id : Nat, src : Nat]), texts : Seq(Nat),
                messages : Seq([role : {"assistant", "tool"}, ids : SUBSET Nat]),
                meant : Seq(Call), cut : BOOLEAN,
                content : {None, "rows", "words"},
                outcome : {None, "answered", "exhausted", "cancelled", "failed"}]
    /\ sent \in Seq([type : {"text", "start", "widget", "end"}, id : Nat])
    /\ turns \in 0..MaxTurns

\* The ids of the events of a type, in the order they were sent.
WithId(type, ids, e) == IF e.type = type THEN Append(ids, e.id) ELSE ids
IdsIn(events, type) == FoldLeft(LAMBDA ids, e : WithId(type, ids, e), <<>>, events)
IdsOf(s) == [i \in 1..Len(s) |-> s[i].id]

\* A client sees of each call a start, then its widgets, then its end, before
\* anything of the next call (AgentCallbacks).
CallsAreBracketed ==
    \A i \in 1..Len(sent) :
        LET Before(type) == {j \in 1..i - 1 : sent[j].type = type
                                              /\ sent[j].id = sent[i].id} IN
        /\ sent[i].type = "start" => Before("start") = {}
                /\ (sent[i].id > 1 => \E j \in 1..i - 1 :
                        sent[j] = [type |-> "end", id |-> sent[i].id - 1])
        /\ sent[i].type \in {"widget", "end"} =>
                Before("start") # {} /\ Before("end") = {}

\* The model is asked again only with one result, in order, for each call of
\* its last answer: what its API demands of the messages.
ModelSeesEveryResult ==
    RunAt("model") =>
        \A i \in 1..Len(run.messages) :
            LET m == run.messages[i] IN
            m.role = "assistant" =>
                \A id \in m.ids :
                    LET k == i + Cardinality({j \in m.ids : j <= id}) IN
                    /\ k <= Len(run.messages)
                    /\ run.messages[k] = [role |-> "tool", ids |-> {id}]

\* The calls executed and to be executed are those the model meant, each with
\* all its arguments and in order, however the server cuts them into frames
\* and ends its stream, unless the stream was cut short (StreamChunk: "only
\* once the full ID / Name / Arguments JSON ... has been assembled").
CallsAreMeant ==
    LET left == IF RunAt("execute") \/ RunAt("end") THEN Tail(run.todo) ELSE run.todo
    IN  ~run.cut => run.executed \o left = run.meant

\* Anthropic's API finds the results of an answer's calls, all of them and no
\* others, in the one message after it.
AnthropicTakesMessages ==
    RunAt("model") =>
        LET out == AnthropicMessages(run.messages) IN
        \A i \in 1..Len(out) :
            out[i].role = "assistant" =>
                /\ i < Len(out)
                /\ out[i + 1] = [role |-> "user", ids |-> out[i].ids]

\* A run that answered, or was stopped at its limit, returns what it streamed:
\* the texts, the calls with their results, and the widgets.
ReturnsWhatItStreamed ==
    run.outcome \in {"answered", "exhausted"} =>
        /\ IdsIn(sent, "text") = run.texts
        /\ IdsIn(sent, "start") = [i \in 1..Len(run.executed) |-> i]
        /\ IdsIn(sent, "end") = IdsOf(run.results)
        /\ IdsIn(sent, "widget") = IdsOf(run.widgets)

\* A chart drawn from an earlier result has that result: its rows were in
\* before the chart's call began.
ChartsHaveTheirRows ==
    \A i \in 1..Len(run.widgets) :
        LET w == run.widgets[i] IN
        w.src # 0 => /\ w.src < w.id
                     /\ [id |-> w.src, rows |-> TRUE] \in
                            {run.results[j] : j \in 1..Len(run.results)}

\* What the model is sent is what its API demands, in both dialects.
MessagesArePaired == TypeOK /\ ModelSeesEveryResult /\ AnthropicTakesMessages

\* What the client sees is well-formed and is what is saved.
RepliesAreComplete == CallsAreBracketed /\ ReturnsWhatItStreamed /\ ChartsHaveTheirRows

================================================================================
