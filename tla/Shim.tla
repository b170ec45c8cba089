--------------------------------- MODULE Shim ---------------------------------
(***************************************************************************)
(* tools/anthropic-shim.ts: the proxy between a worker's SDK, which speaks *)
(* Anthropic, and a backend that speaks OpenAI.  A request is passed on or *)
(* translated, as the configuration file says at that moment; an answer is *)
(* translated at once or, streaming, chunk by chunk.                       *)
(*                                                                         *)
(* Text is left out.  A chunk is one of "reasoning", "text", "call" (a tool*)
(* call is announced) and "args" (a piece of its arguments); what the SDK  *)
(* gets is a sequence of block events.                                     *)
(***************************************************************************)
EXTENDS Integers, Sequences, FiniteSets, SequencesExt

CONSTANTS
    Requests,   \* POSTs of /v1/messages
    Calls,      \* tool calls
    Histories,  \* what the SDK sends: sequences of messages
    MaxChunks,  \* bound: chunks of one stream
    None

VARIABLES
    file,    \* worker-backends.json: the worker's backend, "torn" while it is written
    cached,  \* cachedConfig
    stage,   \* where the request is
    sent,    \* the messages translated for it
    stream,  \* the translation under way
    seen,    \* history: the chunks it came from
    gone,    \* requests whose client has disconnected
    usage    \* requests counted in worker-usage.json

vars == <<file, cached, stage, sent, stream, seen, gone, usage>>

Models   == {"anthropic", "neuralwatt"}
Kinds    == {"thinking", "text", "tool"}

Fresh == [index |-> 0, open |-> [k \in Kinds |-> FALSE], calls |-> {}, out |-> <<>>]

Init ==
    /\ file \in Models
    /\ cached = None
    /\ stage = [r \in Requests |-> "idle"]
    /\ sent = [r \in Requests |-> <<>>]
    /\ stream = [r \in Requests |-> Fresh]
    /\ seen = [r \in Requests |-> <<>>]
    /\ gone = {}
    /\ usage = {}

-----------------------------------------------------------------------------
(* The request: anthropicToOpenAI                                          *)

\* results of tools first, each a message of its own (here: one for all), then the text
FromUser(msg) ==
    (IF msg.tools = {} THEN <<>> ELSE <<[role |-> "tool", tools |-> msg.tools]>>) \o
    (IF msg.text \/ msg.tools = {} THEN <<[role |-> "user", tools |-> {}]>> ELSE <<>>)

Translated(msg) ==
    IF msg.role = "assistant" THEN <<[role |-> "assistant", tools |-> msg.tools]>>
    ELSE FromUser(msg)

ToOpenAI(history) ==
    <<[role |-> "system", tools |-> {}]>> \o
    FlattenSeq([i \in 1 .. Len(history) |-> Translated(history[i])])

\* loadConfig: a file that does not parse leaves the cache, a missing worker is anthropic
Config == IF file = "torn" THEN IF cached = None THEN "anthropic" ELSE cached ELSE file

Asked(r, h) ==
    /\ stage[r] = "idle"
    /\ cached' = IF file = "torn" THEN cached ELSE file
    /\ IF Config = "anthropic"
       THEN /\ stage' = [stage EXCEPT ![r] = "passed"]
            /\ UNCHANGED sent
       ELSE /\ stage' = [stage EXCEPT ![r] = "upstream"]
            /\ sent' = [sent EXCEPT ![r] = ToOpenAI(h)]
    /\ UNCHANGED <<file, stream, seen, gone, usage>>

\* the backend refuses, cannot be reached, or answers what does not parse
Refused(r) ==
    /\ stage[r] = "upstream"
    /\ stage' = [stage EXCEPT ![r] = "failed"]
    /\ UNCHANGED <<file, cached, sent, stream, seen, gone, usage>>

-----------------------------------------------------------------------------
(* The answer                                                              *)

Say(s, kind, what, call) ==
    [s EXCEPT !.out = Append(@, [kind |-> kind, index |-> s.index, what |-> what,
                                 call |-> call])]

Opened(s, what) ==
    IF s.open[what] THEN s ELSE [Say(s, "start", what, None) EXCEPT !.open[what] = TRUE]

\* faulty variant: the next block takes the same index
ClosedInPlace(s, what) ==
    IF s.open[what]
    THEN [Say(s, "stop", what, None) EXCEPT !.open[what] = FALSE]
    ELSE s

Closed(s, what) ==
    IF s.open[what]
    THEN [Say(s, "stop", what, None) EXCEPT !.index = @ + 1, !.open[what] = FALSE]
    ELSE s

Reasoning(s) == Say(Opened(s, "thinking"), "delta", "thinking", None)

Text(s) == Say(Opened(Closed(s, "thinking"), "text"), "delta", "text", None)

\* every announced call starts a block, at the index of a call still open
Announced(s, c) ==
    LET t == Closed(Closed(s, "thinking"), "text")
    IN  [Say(t, "start", "tool", c) EXCEPT !.open["tool"] = TRUE, !.calls = @ \cup {c}]

Arguments(s, c) == Say(s, "delta", "tool", c)

\* one stop for whatever is open
Ended(s) ==
    IF \E k \in Kinds : s.open[k] THEN Say(s, "stop", "any", None) ELSE s

\* openAIToAnthropic: reasoning, text, then the calls; never without a block
Content(reasoning, text, calls) ==
    (IF reasoning THEN <<[what |-> "thinking", call |-> None]>> ELSE <<>>) \o
    (IF text \/ calls = <<>> THEN <<[what |-> "text", call |-> None]>> ELSE <<>>) \o
    [i \in 1 .. Len(calls) |-> [what |-> "tool", call |-> calls[i]]]

\* what the blocks of an answer would be as events: each starts and stops in its place
InPlace(blocks) ==
    [k \in 1 .. 2 * Len(blocks) |->
        LET n == (k + 1) \div 2
        IN  [kind |-> IF k % 2 = 1 THEN "start" ELSE "stop", index |-> n - 1,
             what |-> blocks[n].what, call |-> blocks[n].call]]

\* without streaming
Answered(r, reasoning, text, calls) ==
    /\ stage[r] = "upstream"
    /\ stage' = [stage EXCEPT ![r] = "done"]
    /\ stream' = [stream EXCEPT ![r].out = InPlace(Content(reasoning, text, calls))]
    /\ usage' = usage \cup {r}
    /\ UNCHANGED <<file, cached, sent, seen, gone>>

StreamStarts(r) ==
    /\ stage[r] = "upstream"
    /\ stage' = [stage EXCEPT ![r] = "streaming"]
    /\ UNCHANGED <<file, cached, sent, stream, seen, gone, usage>>

\* nothing reaches a client that has gone, but the stream is read to its end
Into(r, s) ==
    stream' = [stream EXCEPT ![r] = IF r \in gone THEN [s EXCEPT !.out = stream[r].out] ELSE s]

Chunk(r, what, c) ==
    /\ stage[r] = "streaming"
    /\ Len(seen[r]) < MaxChunks
    /\ seen' = [seen EXCEPT ![r] = Append(@, what)]
    /\ \/ what = "reasoning" /\ Into(r, Reasoning(stream[r])) /\ UNCHANGED stage
       \/ what = "text" /\ Into(r, Text(stream[r])) /\ UNCHANGED stage
       \/ /\ what = "call"
          /\ c \notin stream[r].calls
          /\ Into(r, Announced(stream[r], c))
          /\ UNCHANGED stage
       \/ /\ what = "args"
          /\ c \in stream[r].calls
          /\ Into(r, Arguments(stream[r], c))
          /\ UNCHANGED stage
       \/ /\ what = "args"                      \* of a call not announced: it throws
          /\ c \notin stream[r].calls
          /\ stage' = [stage EXCEPT ![r] = "failed"]
          /\ UNCHANGED stream
    /\ UNCHANGED <<file, cached, sent, gone, usage>>

StreamEnds(r) ==
    /\ stage[r] = "streaming"
    /\ Into(r, Ended(stream[r]))
    /\ stage' = [stage EXCEPT ![r] = "done"]
    /\ usage' = usage \cup {r}
    /\ UNCHANGED <<file, cached, sent, seen, gone>>

\* the backend goes away: the stream is closed without a message_stop
StreamBreaks(r) ==
    /\ stage[r] = "streaming"
    /\ stage' = [stage EXCEPT ![r] = "failed"]
    /\ UNCHANGED <<file, cached, sent, stream, seen, gone, usage>>

ClientLeaves(r) ==
    /\ stage[r] = "streaming"
    /\ r \notin gone
    /\ gone' = gone \cup {r}
    /\ UNCHANGED <<file, cached, sent, stage, stream, seen, usage>>

\* PUT /config, and the host; the file is written in place
ConfigWritten(b) ==
    /\ \/ file' = "torn" /\ file # "torn"
       \/ file = "torn" /\ file' = b
    /\ UNCHANGED <<cached, sent, stage, stream, seen, gone, usage>>

Next ==
    \/ \E r \in Requests :
          \/ \E h \in Histories : Asked(r, h)
          \/ Refused(r) \/ StreamStarts(r) \/ StreamEnds(r) \/ StreamBreaks(r)
          \/ ClientLeaves(r)
          \/ \E x, t \in BOOLEAN, n \in 0 .. Cardinality(Calls) :
                \E cs \in [1 .. n -> Calls] : Answered(r, x, t, cs)
          \/ \E w \in {"reasoning", "text", "call", "args"}, c \in Calls : Chunk(r, w, c)
    \/ \E b \in Models : ConfigWritten(b)

Spec == Init /\ [][Next]_vars

-----------------------------------------------------------------------------
(* Properties                                                              *)

\* every tool call of the assistant is followed at once by its results
CallsAnswered(ms) ==
    \A i \in 1 .. Len(ms) :
        ms[i].tools # {} /\ ms[i].role = "assistant" =>
            i < Len(ms) /\ ms[i + 1] = [role |-> "tool", tools |-> ms[i].tools]

\* blocks are numbered in order, one open at a time, and a piece goes to its own
InBlocks(out) ==
    LET starts == {k \in 1 .. Len(out) : out[k].kind = "start"}
        Open(k) == {j \in starts : /\ j < k
                                   /\ out[j].index = out[k].index
                                   /\ \A i \in j .. k - 1 : out[i].kind # "stop"}
    IN  /\ \A k \in starts : IF k = 1 THEN out[k].index = 0
                             ELSE /\ out[k - 1].kind = "stop"
                                  /\ out[k].index = out[k - 1].index + 1
        /\ \A k \in 1 .. Len(out) : out[k].kind = "stop" => Open(k) # {}
        /\ \A k \in 1 .. Len(out) :
              out[k].kind = "delta" => \E j \in Open(k) : /\ out[j].what = out[k].what
                                                          /\ out[j].call = out[k].call

Rank(what) == CASE what = "reasoning" -> 1 [] what = "text" -> 2
                [] what = "call" -> 3      [] what = "args" -> 4

\* thinking, then text, then at most one call: what the translation is made for
Ordinary(chunks) ==
    \A i, j \in 1 .. Len(chunks) :
        i < j => /\ Rank(chunks[i]) <= Rank(chunks[j])
                 /\ ~(chunks[i] = "call" /\ chunks[j] = "call")

\* Both translations keep the shape the other side requires: results follow their
\* calls in the request, and the blocks of the answer nest, wherever the stream
\* stops and the client leaves; a complete answer leaves no block open. A stream
\* with two calls, or out of the usual order, is exempt: see the README.
KeepsShape ==
    \A r \in Requests :
        /\ CallsAnswered(sent[r])
        /\ Ordinary(seen[r]) =>
              /\ InBlocks(stream[r].out)
              /\ stage[r] = "done" /\ r \notin gone /\ stream[r].out # <<>> =>
                     Last(stream[r].out).kind = "stop"
=============================================================================
