---------------------------- MODULE GenAITrace ----------------------------
(***************************************************************************)
(* internal/otelgenai: a session's agent events as one OpenTelemetry trace *)
(* (ExportReplayEvents) and a trace as event drafts (ImportTraceJSON),     *)
(* with content included.                                                  *)
(*                                                                         *)
(* An event is a record with its seq, its wall time, its kind ("session",  *)
(* "message", "usage", "call" or "result"), the id of its tool call, which *)
(* may be empty, and its text.  A text is                                  *)
(*   "plain"   no JSON                                                     *)
(*   "json"    one JSON value                                              *)
(*   "head"    a JSON value with other text behind it: 42 tests passed     *)
(***************************************************************************)
EXTENDS Integers, Sequences, FiniteSets, SequencesExt

CONSTANT MaxSpanEvents    \* otlp.go MaxEventsPerSpan

NoResult == [kind |-> "none"]
NoTrace  == [spans |-> <<>>]

\* The elements of a finite set, each behind those that are before it.
InOrder(S, before) ==
    [n \in 1 .. Cardinality(S) |-> CHOOSE i \in S : Cardinality(before[i]) = n - 1]

\* The events of one kind, in their order.
OfKind(events, kind) ==
    LET at    == {i \in DOMAIN events : events[i].kind = kind}
        order == InOrder(at, [i \in at |-> {j \in at : j < i}])
    IN  [m \in DOMAIN order |-> events[order[m]]]

---------------------------------------------------------------------------
\* Export

\* toolKey, made unique when the id was used before.
ToolKey(pairs, e) ==
    CASE e.id = "" -> <<"seq", e.seq>>
      [] \E i \in DOMAIN pairs : pairs[i].key = <<"call", e.id>> -> <<"call", e.id, e.seq>>
      [] OTHER -> <<"call", e.id>>

Open(pairs, e) == {i \in DOMAIN pairs : e.id # "" /\ pairs[i].id = e.id /\ pairs[i].result = NoResult}

\* Mutant of Newest: the first call with an id gets the first result.
Oldest(S) == CHOOSE i \in S : \A j \in S : i <= j

Newest(S) == CHOOSE i \in S : \A j \in S : j <= i

\* A result closes the newest open call with its id; without one it becomes a
\* tool of its own.
AddResult(pairs, e) ==
    IF Open(pairs, e) # {}
    THEN [pairs EXCEPT ![Newest(Open(pairs, e))].result = e]
    ELSE Append(pairs, [key |-> <<"result", e.seq>>, id |-> e.id, name |-> "unknown",
                        call |-> e, result |-> e])

AddTool(pairs, e) ==
    CASE e.kind = "call"   -> Append(pairs, [key |-> ToolKey(pairs, e), id |-> e.id, name |-> "tool",
                                             call |-> e, result |-> NoResult])
      [] e.kind = "result" -> AddResult(pairs, e)
      [] OTHER             -> pairs

Tools(events) ==
    LET tools[n \in 0 .. Len(events)] ==
            IF n = 0 THEN <<>> ELSE AddTool(tools[n - 1], events[n])
    IN  tools[Len(events)]

Later(a, b) == IF a < b THEN b ELSE a

AgentTimeBounds(events) ==
    LET times == {e.wall : e \in ToSet(events)}
    IN  [first |-> CHOOSE t \in times : \A u \in times : t <= u,
         last  |-> CHOOSE t \in times : \A u \in times : u <= t]

\* serializedAnyValue decodes the first JSON value of the text.
Serialized(text) == IF text = "head" THEN "json" ELSE text

RootSpan(events) ==
    [key    |-> <<"root">>,
     start  |-> AgentTimeBounds(events).first,
     end    |-> AgentTimeBounds(events).last,
     tokens |-> OfKind(events, "usage") # <<>>,
     events |-> [m \in DOMAIN OfKind(events, "message") |->
                    [wall |-> OfKind(events, "message")[m].wall,
                     text |-> OfKind(events, "message")[m].text]]]

\* Mutant of ToolEnd: the clock is trusted.
ToolResultTime(pair) == IF pair.result = NoResult THEN pair.call.wall ELSE pair.result.wall

ToolEnd(pair) == IF pair.result = NoResult THEN pair.call.wall
                                           ELSE Later(pair.call.wall, pair.result.wall)

ToolSpan(pair) ==
    [key       |-> pair.key,
     start     |-> pair.call.wall,
     end       |-> ToolEnd(pair),
     name      |-> pair.name,
     id        |-> pair.id,
     seq       |-> pair.call.seq,
     arguments |-> IF pair.name = "unknown" THEN {} ELSE {Serialized(pair.call.text)},
     results   |-> IF pair.result = NoResult THEN {} ELSE {Serialized(pair.result.text)}]

\* ValidateTraceExport refuses a span with too many events.
Export(events) ==
    IF events = <<>> \/ Len(OfKind(events, "message")) > MaxSpanEvents
    THEN NoTrace
    ELSE [spans |-> <<RootSpan(events)>> \o
                    [i \in DOMAIN Tools(events) |-> ToolSpan(Tools(events)[i])]]

---------------------------------------------------------------------------
\* Import

Draft(wall, kind, id, text) == [wall |-> wall, kind |-> kind, id |-> id, text |-> text]

SpanDraft(span) == Draft(span.start, "span", "", "")

RootDrafts(span) ==
    <<SpanDraft(span)>>
    \o (IF span.tokens THEN <<Draft(span.end, "usage", "", "")>> ELSE <<>>)
    \o [m \in DOMAIN span.events |->
            Draft(span.events[m].wall, "message", "", span.events[m].text)]

\* appendImportedToolEvents: a result only where the span has one.
ToolDrafts(span) ==
    <<SpanDraft(span)>>
    \o (IF span.arguments = {} THEN <<Draft(span.start, "call", span.id, "")>>
        ELSE <<Draft(span.start, "call", span.id, CHOOSE t \in span.arguments : TRUE)>>)
    \o (IF span.results = {} THEN <<>>
        ELSE <<Draft(span.end, "result", span.id, CHOOSE t \in span.results : TRUE)>>)

SpanDrafts(span) == IF span.key = <<"root">> THEN RootDrafts(span) ELSE ToolDrafts(span)

\* The drafts of all spans, stably sorted by wall time.
SortedByWall(drafts) ==
    LET before(i) == {j \in DOMAIN drafts : \/ drafts[j].wall < drafts[i].wall
                                            \/ drafts[j].wall = drafts[i].wall /\ j < i}
        order     == InOrder(DOMAIN drafts, [i \in DOMAIN drafts |-> before(i)])
    IN  [n \in DOMAIN order |-> drafts[order[n]]]

Import(trace) == SortedByWall(FlattenSeq([s \in DOMAIN trace.spans |-> SpanDrafts(trace.spans[s])]))
============================================================================
