------------------------------ MODULE Rollout ------------------------------
(***************************************************************************)
(* The Codex adapter's event stream (adapters/codex/rollout.go, started    *)
(* and stopped by internal/record/adapter_hooks.go): it polls Codex's own  *)
(* database for the thread of this run, then follows the thread's rollout  *)
(* file, which Codex appends to, and emits the lines that mean something   *)
(* as agent events.                                                        *)
(*                                                                         *)
(* A line is a record with its kind and the tool call it belongs to.  Only *)
(* the first half of the line being written may be on disk; positions in   *)
(* the file count halves.                                                  *)
(***************************************************************************)
EXTENDS Integers, Sequences

CONSTANTS
    Lines,       \* the lines Codex may write
    NoLine,      \* no line is half written
    Resumed,     \* the command names the thread: codex resume <id>
    Faults,      \* the database, the file and the recorder's sink may fail
    MaxLines     \* how many lines Codex writes at most

Kinds == {"message", "usage", "call", "result",
          "silent",     \* private, of another role, empty, older than the run or unknown
          "broken",     \* not the JSON it should be
          "long",       \* over maxRolloutLineBytes
          "refused"}    \* becomes an event that emitAdapterEvent does not let pass

ASSUME LinesAssumption == \A l \in Lines : l.kind \in Kinds
ASSUME NoLineAssumption == NoLine \notin Lines
ASSUME BoundAssumption == Resumed \in BOOLEAN /\ Faults \in BOOLEAN /\ MaxLines \in Nat

VARIABLES
    \* Codex
    rows,        \* how many threads of its database match this run
    exists,      \* the rollout file is there
    file,        \* its whole lines
    half,        \* the line of which only a part is written
    exited,
    \* the stream
    pc,
    offset,      \* halves of lines read so far
    next,        \* the line to treat next
    final,       \* the stream was cancelled, and reads for the last time
    announced,   \* agent.codex.session was emitted
    emitted,     \* the lines emitted after it
    failed,      \* the error StreamEvents returned: "no", or of "thread", "event",
                 \* "read" or "line"
    \* the recorder
    cancelled,   \* the stream's context is: "no", "exit" or "interrupt"
    sinkBroken,  \* an append has failed, and every later one does
    diagnosed    \* agent.adapter.error was recorded

codexVars  == <<rows, exists, file, half, exited>>
streamVars == <<pc, offset, next, final, announced, emitted, failed>>
sinkVars   == <<cancelled, sinkBroken, diagnosed>>
rolloutVars == <<codexVars, streamVars, sinkVars>>

Size == 2 * Len(file) + (IF half = NoLine THEN 0 ELSE 1)

Means(line) == line.kind \in {"message", "usage", "call", "result"}

---------------------------------------------------------------------------
\* Codex

\* Threads of the same directory start, are updated or archived, this run's
\* among them.  A named thread has one row at most.
Correlate ==
    /\ pc \in {"look", "wait"}
    /\ rows' \in 0 .. (IF Resumed THEN 1 ELSE 2) \ {rows}
    /\ UNCHANGED <<exists, file, half, exited, streamVars, sinkVars>>

CreateRollout ==
    /\ ~exited /\ ~exists
    /\ exists' = TRUE
    /\ UNCHANGED <<rows, file, half, exited, streamVars, sinkVars>>

BeginLine ==
    /\ ~exited /\ exists /\ half = NoLine /\ Len(file) < MaxLines
    /\ half' \in Lines
    /\ UNCHANGED <<rows, exists, file, exited, streamVars, sinkVars>>

EndLine ==
    /\ ~exited /\ half # NoLine
    /\ file' = Append(file, half) /\ half' = NoLine
    /\ UNCHANGED <<rows, exists, exited, streamVars, sinkVars>>

Exit ==
    /\ ~exited
    /\ exited' = TRUE
    /\ UNCHANGED <<rows, exists, file, half, streamVars, sinkVars>>

---------------------------------------------------------------------------
\* The recorder

\* stopEventStream, after the child was waited for.
StopStream ==
    /\ exited /\ cancelled = "no"
    /\ cancelled' = "exit"
    /\ UNCHANGED <<codexVars, streamVars, sinkBroken, diagnosed>>

\* The command's context ends while Codex still runs.
Interrupt ==
    /\ ~exited /\ cancelled = "no"
    /\ cancelled' = "interrupt"
    /\ UNCHANGED <<codexVars, streamVars, sinkBroken, diagnosed>>

BreakSink ==
    /\ Faults /\ ~sinkBroken
    /\ sinkBroken' = TRUE
    /\ UNCHANGED <<codexVars, streamVars, cancelled, diagnosed>>

---------------------------------------------------------------------------
\* The stream

\* Mutant of CanEmit: the final read has the context of a poll.
CanEmitUntilCancelled == cancelled = "no" /\ ~sinkBroken

\* emitAdapterEvent with the context of a poll, or with the one of the final
\* read, which cannot be cancelled.
CanEmit == (cancelled = "no" \/ final) /\ ~sinkBroken

GoTo(label) == pc' = label /\ UNCHANGED <<offset, next, final, announced, emitted, failed>>

Return(error) ==
    /\ pc' = "returned" /\ failed' = error
    /\ UNCHANGED <<offset, next, final, announced, emitted>>

\* selectThread: one matching thread is taken, none is waited for, several
\* are ambiguous; the database may be unreadable or busy for too long.
Look ==
    /\ pc = "look"
    /\ \/ rows = 0 /\ GoTo("wait")
       \/ rows = 1 /\ GoTo("check")
       \/ rows > 1 /\ Return("thread")
       \/ Faults /\ Return("thread")
    /\ UNCHANGED <<codexVars, sinkVars>>

LookAgain ==
    /\ pc = "wait"
    /\ GoTo("look")
    /\ UNCHANGED <<codexVars, sinkVars>>

\* Mutant of GiveUpLooking: only an answer of the database ends the wait.
KeepLooking ==
    /\ pc = "wait" /\ cancelled # "no"
    /\ GoTo("look")
    /\ UNCHANGED <<codexVars, sinkVars>>

\* No last look when the context ends.
GiveUpLooking ==
    /\ pc = "wait" /\ cancelled # "no"
    /\ Return("no")
    /\ UNCHANGED <<codexVars, sinkVars>>

\* validateRolloutPath: the row may precede the file.
Check ==
    /\ pc = "check"
    /\ IF exists THEN GoTo("announce") ELSE Return("thread")
    /\ UNCHANGED <<codexVars, sinkVars>>

Announce ==
    /\ pc = "announce"
    /\ IF CanEmit
       THEN /\ announced' = TRUE /\ pc' = "read"
            /\ UNCHANGED <<offset, next, final, emitted, failed>>
       ELSE Return("event")
    /\ UNCHANGED <<codexVars, sinkVars>>

\* A read returns any part of what is on disk.  With no newline pending, a
\* line that is too long is noticed while a part of it is read, or later.
PartOf(n) == IF n <= Len(file) THEN file[n] ELSE half

TooLongAlready(to) == to = 2 * next - 1 /\ PartOf(next).kind = "long"

Read ==
    /\ pc = "read"
    /\ \E to \in offset + 1 .. Size :
        /\ offset' = to
        /\ \/ pc' = "lines" /\ UNCHANGED failed
           \/ TooLongAlready(to) /\ pc' = "returned" /\ failed' = "line"
        /\ UNCHANGED <<next, final, announced, emitted>>
    /\ UNCHANGED <<codexVars, sinkVars>>

ReadFails ==
    /\ Faults /\ pc = "read"
    /\ Return("read")
    /\ UNCHANGED <<codexVars, sinkVars>>

EndOfFile ==
    /\ pc = "read" /\ offset = Size
    /\ IF final THEN Return("no") ELSE GoTo("idle")
    /\ UNCHANGED <<codexVars, sinkVars>>

Pending == 2 * next <= offset

Unreadable(line) == line.kind \in {"broken", "long", "refused"}

\* Mutant of Fails: an event refused because of the cancellation is passed over.
FailsIfUnreadable(line) == Unreadable(line)

\* emitRolloutLine: a line that cannot be read or emitted ends the stream.
Fails(line) == Unreadable(line) \/ (Means(line) /\ ~CanEmit)

TreatLine ==
    /\ pc = "lines" /\ Pending
    /\ LET line == file[next]
       IN  /\ failed' = IF Fails(line) THEN "line" ELSE failed
           /\ pc' = IF Fails(line) THEN "returned" ELSE "lines"
           /\ emitted' = IF Means(line) /\ CanEmit THEN Append(emitted, next) ELSE emitted
    /\ next' = next + 1
    /\ UNCHANGED <<offset, final, announced, codexVars, sinkVars>>

NoLineLeft ==
    /\ pc = "lines" /\ ~Pending
    /\ GoTo("read")
    /\ UNCHANGED <<codexVars, sinkVars>>

\* The ticker and the end of the context may both be ready.
Tick ==
    /\ pc = "idle"
    /\ GoTo("read")
    /\ UNCHANGED <<codexVars, sinkVars>>

ReadForTheLastTime ==
    /\ pc = "idle" /\ cancelled # "no"
    /\ final' = TRUE /\ pc' = "read"
    /\ UNCHANGED <<offset, next, announced, emitted, failed, codexVars, sinkVars>>

\* The goroutine of startEventStream reports an error unless the stream was
\* cancelled, and closes done.
Report ==
    /\ pc = "returned"
    /\ pc' = "done"
    /\ diagnosed' = (failed # "no" /\ cancelled = "no" /\ ~sinkBroken)
    /\ UNCHANGED <<offset, next, final, announced, emitted, failed, codexVars, cancelled, sinkBroken>>

---------------------------------------------------------------------------
RolloutInit ==
    /\ rows = 0 /\ exists = FALSE /\ file = <<>> /\ half = NoLine /\ exited = FALSE
    /\ pc = "look" /\ offset = 0 /\ next = 1 /\ final = FALSE
    /\ announced = FALSE /\ emitted = <<>> /\ failed = "no"
    /\ cancelled = "no" /\ sinkBroken = FALSE /\ diagnosed = FALSE

Poll == \/ Look \/ LookAgain \/ Check \/ Announce
        \/ Read \/ ReadFails \/ EndOfFile \/ TreatLine \/ NoLineLeft \/ Tick

Cease == GiveUpLooking \/ ReadForTheLastTime

Stream == Poll \/ Cease \/ Report

Codex == Correlate \/ CreateRollout \/ BeginLine \/ EndLine \/ Exit

Surroundings == Codex \/ StopStream \/ Interrupt \/ BreakSink

RolloutNext == Stream \/ Surroundings

\* The adapter's goroutine runs, and the recorder stops it once the child is
\* gone.  A select with a tick and the end of the context ready takes either,
\* but no tick is ready when a poll ends sooner than the next one is due, so
\* the end of the context is not passed over for ever.
RolloutFair ==
    /\ WF_rolloutVars(Poll) /\ WF_rolloutVars(Report) /\ SF_rolloutVars(Cease)
    /\ WF_rolloutVars(StopStream)

---------------------------------------------------------------------------
\* Properties

RolloutTypeOK ==
    /\ rows \in 0 .. 2 /\ exists \in BOOLEAN /\ exited \in BOOLEAN
    /\ file \in Seq(Lines) /\ half \in Lines \cup {NoLine}
    /\ pc \in {"look", "wait", "check", "announce", "read", "lines", "idle", "returned", "done"}
    /\ offset \in 0 .. Size /\ next \in Nat \ {0}
    /\ final \in BOOLEAN /\ announced \in BOOLEAN
    /\ failed \in {"no", "thread", "event", "read", "line"}
    /\ emitted \in Seq(Nat)
    /\ cancelled \in {"no", "exit", "interrupt"}
    /\ sinkBroken \in BOOLEAN /\ diagnosed \in BOOLEAN

\* The lines of file[1 .. n] that mean something, all and in order.
Tells(n) ==
    /\ {emitted[k] : k \in DOMAIN emitted} = {i \in 1 .. n : Means(file[i])}
    /\ \A j, k \in DOMAIN emitted : j < k => emitted[j] < emitted[k]

\* However the reads cut the file and whenever the stream ends, what was
\* recorded is a prefix of the transcript: no line is told twice, skipped,
\* told before it is whole or before its session is announced
\* (rollout.go:262-303).
TranscriptIsAPrefix ==
    /\ \E n \in 0 .. Len(file) : Tells(n)
    /\ emitted # <<>> => announced

\* The final read stopped on its way: what is told ends at a line that cannot be
\* read, or reading failed.
FinalReadStopped ==
    /\ final
    /\ failed = "read" \/ \E n \in 1 .. Len(file) : Unreadable(file[n]) /\ Tells(n)

\* When Codex has exited and the stream is over, lines it did not tell are
\* explained by a recorded adapter error or by a recording that fails itself, by
\* a cancellation before the exit or before there was a session to follow, or by
\* one of two losses that nothing records, because the error of a cancelled
\* stream is dropped (adapter_hooks.go:205-208): the stream failed before its
\* final read and was cancelled before it could report that, or the final read
\* (rollout.go:310-318) met a line it cannot read and told none behind it.  A
\* final read that comes to the end of the file has told everything.
LossIsExplained ==
    exited /\ pc = "done" /\ ~Tells(Len(file))
        => \/ diagnosed \/ sinkBroken
           \/ cancelled = "interrupt"
           \/ /\ cancelled = "exit"
              /\ ~announced \/ (failed # "no" /\ ~final) \/ FinalReadStopped

\* Every stream that is cancelled ends (rollout.go:93-97, 308-325), so that
\* stopEventStream need not wait for its grace period.
StreamEnds == cancelled # "no" ~> pc = "done"
============================================================================
