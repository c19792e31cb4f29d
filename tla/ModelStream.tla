------------------------------ MODULE ModelStream ------------------------------
(***************************************************************************)
(* What the clients of the language models make of an answer: the stream   *)
(* of an OpenAI-compatible server, frame by frame, the single reply of     *)
(* Anthropic's API, and the messages as that API takes them.               *)
(*                                                                         *)
(* One goroutine reads a stream, so an answer is a function of its frames. *)
(* A tool call comes in fragments, told apart by their index; a fragment's *)
(* arguments are the pieces <<call, number>> of the calls the model meant, *)
(* which are numbered from 1.  The text of a frame is valid UTF-8 once     *)
(* json.Unmarshal is through (it replaces what is not), so utf8DeltaBuffer *)
(* passes it on as it is; here text is only there or not.                  *)
(***************************************************************************)
EXTENDS Naturals, Sequences, SequencesExt

Fragment == [index : Nat, id : Nat, args : Seq(Nat \X Nat)]

\* "bad" is a line that is skipped: malformed, empty, or without choices.
Frame == [type : {"delta", "done", "bad"}, text : BOOLEAN, calls : Seq(Fragment),
          finish : {"", "stop", "tool_calls"}]

\* Mutant of Gather: a fragment joins the call begun last, whatever its index.
GatherLast(pending, f) ==
    IF f.id # 0 \/ pending = <<>>
    THEN Append(pending, f)
    ELSE [pending EXCEPT ![Len(pending)].args = @ \o f.args]

\* A fragment joins the call of its index; calls stay in the order in which
\* their indices first appeared.
Gather(pending, f) ==
    IF \A i \in 1..Len(pending) : pending[i].index # f.index
    THEN Append(pending, f)
    ELSE [i \in 1..Len(pending) |->
            IF pending[i].index # f.index THEN pending[i]
            ELSE [pending[i] EXCEPT !.id = IF f.id = 0 THEN @ ELSE f.id,
                                    !.args = @ \o f.args]]

GatherAll(pending, fragments) == FoldLeft(Gather, pending, fragments)

\* flushPending: what is pending goes out as whole calls.
Flush(st) == [st EXCEPT !.calls = @ \o st.pending, !.pending = <<>>]

\* One line of the stream; nothing is read after [DONE].
Read(st, f) ==
    LET got == [st EXCEPT !.text = @ \/ f.text,
                          !.pending = GatherAll(@, f.calls)]
    IN  CASE st.over \/ f.type = "bad" -> st
          [] ~st.over /\ f.type = "done" -> [Flush(st) EXCEPT !.over = TRUE]
          [] ~st.over /\ f.type = "delta" ->
               IF f.finish = "tool_calls" THEN Flush(got) ELSE got

Unread == [text |-> FALSE, pending |-> <<>>, calls |-> <<>>, over |-> FALSE]

\* A stream that just ends is taken for a whole one.
streamOpenAIBody(frames) == Flush(FoldLeft(Read, Unread, frames))

\* The fallback of the Anthropic client: the whole reply in one piece, its n
\* calls in order.
AnthropicStream(text, n) ==
    <<[type |-> "delta", text |-> text, finish |-> "tool_calls",
       calls |-> [k \in 1..n |-> [index |-> k, id |-> k,
                                  args |-> <<<<k, 1>>, <<k, 2>>>>]]]>>

\* The fragments a client heeds, by frame and position: those before [DONE].
Spoken(frames) ==
    UNION {{<<i, j>> : j \in 1..Len(frames[i].calls)} :
             i \in {m \in 1..Len(frames) : /\ frames[m].type = "delta"
                                           /\ \A l \in 1..m : frames[l].type # "done"}}

Precedes(p, q) == p[1] < q[1] \/ (p[1] = q[1] /\ p[2] < q[2])

\* Some of the two pieces of a call.
Pieces(k, first, second) ==
    (IF first THEN <<<<k, 1>>>> ELSE <<>>) \o (IF second THEN <<<<k, 2>>>> ELSE <<>>)

\* A server that keeps to the protocol says n calls whole: each under an index of
\* its own and with its id; a call begins when those before it have begun; its
\* pieces come once and in order; and after "tool_calls" there are no more.
Whole(frames, n) ==
    LET P == Spoken(frames)
        at(p) == frames[p[1]].calls[p[2]]
    IN  \E index \in [1..n -> {at(p).index : p \in P}] :
          /\ \A k, l \in 1..n : index[k] = index[l] => k = l
          /\ \A p \in P : \E k \in 1..n :
                /\ at(p).index = index[k] /\ at(p).id \in {0, k}
                /\ \A l \in 1..k - 1 : \E q \in P : Precedes(q, p) /\ at(q).index = index[l]
          /\ \A k \in 1..n :
                /\ \E p \in P : at(p).index = index[k] /\ at(p).id = k
                /\ \E p, q \in P :
                      /\ at(p).index = index[k] /\ at(q).index = index[k]
                      /\ ~Precedes(q, p)
                      /\ \A r \in P : at(r).index = index[k] =>
                            at(r).args = Pieces(k, r = p, r = q)
          /\ \A i \in 1..Len(frames) :
                frames[i].type = "delta" /\ frames[i].finish = "tool_calls" =>
                    \A p \in P : p[1] <= i

-----------------------------------------------------------------------------
(* Messages: the calls of an answer, or the result of one call *)

\* A tool's result becomes a block of a user message, of the last message if
\* that holds results already.
Block(out, m) ==
    IF m.role # "tool" THEN Append(out, m)
    ELSE IF out # <<>> /\ Last(out).role = "user"
    THEN Append(Front(out), [Last(out) EXCEPT !.ids = @ \cup m.ids])
    ELSE Append(out, [m EXCEPT !.role = "user"])

AnthropicMessages(messages) == FoldLeft(Block, <<>>, messages)
================================================================================
