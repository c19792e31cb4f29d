-------------------------------- MODULE MCAgent --------------------------------
(* Instances of Agent for TLC. *)
EXTENDS Agent, TLC

Ask(kind, input, src) == [kind |-> kind, input |-> input, src |-> src]

Delta(text, calls, finish) ==
    [type |-> "delta", text |-> text, calls |-> calls, finish |-> finish]

Plain(type) == [type |-> type, text |-> FALSE, calls |-> <<>>, finish |-> ""]

\* The orders in which the two fragments of each of n calls may come: a call
\* begins after the one before it.
Orders(n) ==
    {s \in [1..2 * n -> 1..n] :
        \A k \in 1..n :
            /\ Cardinality({i \in 1..2 * n : s[i] = k}) = 2
            /\ k > 1 => \E i \in 1..2 * n : s[i] = k - 1
                           /\ \A j \in 1..i : s[j] # k}

\* The i-th frame of such an order: a call's name comes with its first piece.
Piece(s, i) ==
    LET first == \A j \in 1..i - 1 : s[j] # s[i] IN
    Delta(FALSE, <<[index |-> s[i] - 1, id |-> IF first THEN s[i] ELSE 0,
                    args |-> <<<<s[i], IF first THEN 1 ELSE 2>>>>]>>, "")

\* How servers end a stream: with or without a reason, with or without [DONE].
Endings ==
    {<<Delta(FALSE, <<>>, "tool_calls"), Plain("done")>>,
     <<Delta(FALSE, <<>>, "tool_calls")>>,
     <<Delta(FALSE, <<>>, "stop"), Plain("bad"), Plain("done")>>,
     <<Plain("done")>>, <<>>}

\* All streams of an answer in frames, and the one in a single piece.
StreamsOf(text, calls) ==
    {[meant |-> calls, cut |-> FALSE, frames |-> f] :
        f \in {AnthropicStream(text, Len(calls))} \cup
              {<<Delta(text, <<>>, "")>> \o [i \in 1..2 * Len(calls) |-> Piece(s, i)] \o e :
                 s \in Orders(Len(calls)), e \in Endings}}

\* The last piece of the last call is missing.
CutStream(text, calls) ==
    LET n == 2 * Len(calls) IN
    {[meant |-> calls, cut |-> TRUE,
      frames |-> <<Delta(text, <<>>, "")>> \o [i \in 1..n - 1 |-> Piece(s, i)]] :
        s \in {o \in Orders(Len(calls)) : \A i \in 1..n : o[i] = (i + 1) \div 2}}

\* First a generation, or a look at the data and a chart of it or of the
\* chart itself; then a plain answer, or two widgets at once.
MCStreams ==
    <<UNION {StreamsOf(FALSE, <<Ask("generate", i, 0)>>) : i \in Inputs}
        \cup StreamsOf(TRUE, <<Ask("filter", None, 0), Ask("search", None, 0),
                                 Ask("chart", None, 2)>>)
        \cup StreamsOf(FALSE, <<Ask("preview", None, 0), Ask("aggregate", None, 0),
                                  Ask("chart", None, 3)>>),
      StreamsOf(TRUE, <<>>)
        \cup StreamsOf(FALSE, <<Ask("form", None, 0), Ask("card", None, 0)>>)
        \cup CutStream(FALSE, <<Ask("form", None, 0), Ask("card", None, 0)>>)>>

Symmetry == Permutations(Procs) \cup Permutations(Inputs)
================================================================================
