---------------------------- MODULE CodexTrace ----------------------------
(***************************************************************************)
(* What the Codex adapter recorded (Rollout), exported as an OpenTelemetry *)
(* trace and imported again (GenAITrace).  The wall clock may stand still  *)
(* or step back between two events, so every assignment of times is taken. *)
(***************************************************************************)
EXTENDS Rollout, GenAITrace

\* A line's text is one of those that GenAITrace tells apart.
ASSUME TextAssumption == \A l \in Lines : l.text \in {"plain", "json", "head"}

Stamps == [0 .. Len(emitted) -> {0, 1}]

Event(k, wall) ==
    LET line == file[emitted[k]]
    IN  [seq |-> k + 1, wall |-> wall, kind |-> line.kind, id |-> line.id, text |-> line.text]

Recorded(walls) ==
    <<[seq |-> 1, wall |-> walls[0], kind |-> "session", id |-> "", text |-> "plain"]>>
    \o [k \in DOMAIN emitted |-> Event(k, walls[k])]

---------------------------------------------------------------------------
\* Reference definitions

\* How often e's tool call occurs as the given kind in events[i .. j].
Count(events, e, kind, i, j) ==
    Cardinality({k \in i .. j : events[k].kind = kind /\ events[k].id = e.id})

\* The result of call i: calls and results with one id nest like brackets.
Closes(events, i, j) ==
    /\ i < j /\ events[i].id # "" /\ events[j].kind = "result" /\ events[j].id = events[i].id
    /\ Count(events, events[i], "result", i, j) = Count(events, events[i], "call", i, j)
    /\ \A k \in i .. j - 1 :
          Count(events, events[i], "result", i, k) < Count(events, events[i], "call", i, k)

Calls(events)   == {i \in DOMAIN events : events[i].kind = "call"}
Orphans(events) == {j \in DOMAIN events : /\ events[j].kind = "result"
                                          /\ ~\E i \in Calls(events) : Closes(events, i, j)}

Drafts(events, kind) == OfKind(Import(Export(events)), kind)

\* The drafts of one kind with the given fields.
Alike(events, kind, wall, id, text) ==
    Cardinality({d \in DOMAIN Drafts(events, kind) :
                    Drafts(events, kind)[d] = Draft(wall, kind, id, text)})

RanItsCourse == pc = "done" /\ announced /\ cancelled = "exit" /\ failed = "no"

---------------------------------------------------------------------------
\* Properties

\* Of whatever a stream that ran its course recorded, the exported trace has one tool span for
\* each call, holding the result that closes it and no other, and one for each
\* result without a call; spans have ids of their own and lie within the root
\* span, though the clock may have gone back (mapping.go:130-170, 253-317).
SpansTellTheCalls ==
    RanItsCourse => \A walls \in Stamps :
        LET events == Recorded(walls)
            spans  == Export(events).spans
            tools  == 2 .. Len(spans)
        IN  Export(events) # NoTrace =>
            /\ \A i \in Calls(events) : \E s \in tools :
                  /\ spans[s].seq = events[i].seq /\ spans[s].name # "unknown"
                  /\ spans[s].results = {Serialized(events[j].text) :
                                            j \in {j \in DOMAIN events : Closes(events, i, j)}}
            /\ \A j \in Orphans(events) : \E s \in tools :
                  spans[s].seq = events[j].seq /\ spans[s].name = "unknown"
            /\ Len(spans) = 1 + Cardinality(Calls(events)) + Cardinality(Orphans(events))
            /\ \A s, t \in DOMAIN spans : spans[s].key = spans[t].key => s = t
            /\ \A s \in tools : /\ spans[1].start <= spans[s].start
                                /\ spans[s].start <= spans[s].end
                                /\ spans[s].end <= spans[1].end

\* A trace that Replay exports and imports again yields the messages, calls
\* and results it was made of, each as often and no result before its call.
\* Conceded: a result is dated no earlier than its call; a result without a
\* call brings one; of a text that begins with a JSON value only that value is
\* left (mapping.go:447-455, 508-597).
RoundTrip ==
    RanItsCourse => \A walls \in Stamps :
        LET events == Recorded(walls)
            dated(j) == LET open == {i \in Calls(events) : Closes(events, i, j)}
                        IN  IF open = {} THEN events[j].wall
                            ELSE Later(events[j].wall, events[CHOOSE i \in open : TRUE].wall)
        IN  Export(events) # NoTrace =>
            /\ Drafts(events, "message") =
                  [m \in DOMAIN OfKind(events, "message") |->
                      LET e == OfKind(SortedByWall(events), "message")[m]
                      IN  Draft(e.wall, "message", "", e.text)]
            /\ \A i \in Calls(events) :
                  Alike(events, "call", events[i].wall, events[i].id, Serialized(events[i].text))
                  = Cardinality({k \in Calls(events) :
                        /\ events[k].wall = events[i].wall /\ events[k].id = events[i].id
                        /\ Serialized(events[k].text) = Serialized(events[i].text)})
            /\ \A j \in DOMAIN events : events[j].kind = "result" =>
                  Alike(events, "result", dated(j), events[j].id, Serialized(events[j].text))
                  = Cardinality({k \in DOMAIN events :
                        /\ events[k].kind = "result" /\ dated(k) = dated(j)
                        /\ events[k].id = events[j].id
                        /\ Serialized(events[k].text) = Serialized(events[j].text)})
            /\ LET drafts == Import(Export(events))
               IN  \A d \in DOMAIN drafts :
                      Count(drafts, drafts[d], "result", 1, d) <= Count(drafts, drafts[d], "call", 1, d)
============================================================================
