----------------------------- MODULE Recorder -----------------------------
(***************************************************************************)
(* One recording (internal/record): Run, and the goroutines it starts      *)
(* while the child command executes.  They share the event sink, whose     *)
(* mutex is held from the reading of the run clock to the commit of the    *)
(* event, and whose first error is sticky; and they share two contexts,    *)
(* the caller's and the command's, the second cancelled with the first or  *)
(* by a goroutine that fails.  Run ends the session with EndSession, which *)
(* does not go through the sink.                                           *)
(*                                                                         *)
(* The threads: main (Run), out (os/exec's copying into streamEventWriter, *)
(* or the PTY output pump), input (the PTY input and resize pumps), tree   *)
(* (the process tree monitor), check (the checkpoint loop) and adapter     *)
(* (the adapter's event stream).  pc[t] names the call t makes next; the   *)
(* names in After and in SinkCalls are calls of the sink, made in two      *)
(* steps: Acquire, then the commit or the failure of the named event.      *)
(***************************************************************************)
EXTENDS Naturals, Sequences

CONSTANTS
    Options,    \* the ways a run may be configured: see Option
    Faults,     \* whether storage may fail (a full disk, SQLITE_BUSY, corruption)
    MaxOut,     \* bound on the segments of terminal output of the child
    MaxWrites,  \* bound on the child's changes to the workspace
    MaxTime,    \* bound on the run clock
    MaxEmits    \* bound on the discoveries, inputs, adapter events, watcher errors

Threads == {"main", "out", "input", "tree", "check", "adapter"}

Option == [pty : BOOLEAN, stdin : BOOLEAN, watcher : BOOLEAN,
           adapter : {"none", "prompt", "deaf"}]   \* deaf: ignores cancellation

ASSUME RecorderAssumption ==
    /\ Options \subseteq Option
    /\ \A o \in Options : o.stdin => o.pty
    /\ Faults \in BOOLEAN
    /\ MaxOut \in Nat /\ MaxWrites \in Nat /\ MaxTime \in Nat /\ MaxEmits \in Nat

VARIABLES
    opts,       \* the options of this run
    pc,         \* pc[t]: what thread t does next
    lock,       \* the sink's mutex: who holds it, and the clock reading taken
    firstErr,   \* eventSink.firstErr is set
    lost,       \* history: Run or a joined goroutine had an event refused
    log,        \* which of the events in Boundaries are committed
    last,       \* the monotonic reading of the last event
    states,     \* the roots published, in order; a root is a workspace version
    session,    \* the session's status
    pos,        \* pos[t]: the checkpointPosition of main and of check, in states
    root,       \* root[t]: what the last capture of main and of check found
    cause,      \* Run holds an error and will abort
    ended,      \* the clock reading Run took for EndSession
    now,        \* the run clock
    cancelled,  \* the caller's context is done
    killed,     \* cancelCommand was called
    child,      \* the command: "none", "running", "success" or "failure"
    workspace,  \* the version of the workspace
    out,        \* segments of output [written, captured, recorded]
    trigger,    \* a change notification or its debounce timer is pending
    left        \* the discoveries, inputs, ... still possible, of MaxEmits

sink == <<lock, firstErr, lost>>
db   == <<log, last, states, session>>
run  == <<opts, pos, root, cause, ended, trigger, left>>
env  == <<now, cancelled, killed, child, workspace, out>>
vars == <<pc, sink, db, run, env>>

---------------------------------------------------------------------------
(* Control.                                                                *)

\* Run's calls of the sink that only append an event, and what follows them.
After == [started |-> "hints",           hints        |-> "initial",
          environment |-> "git",         git          |-> "agentEnv",
          agentEnv |-> "watch",          unavailable  |-> "launch",
          opened |-> "spawn"]

\* Those an adapter that has nothing to say skips.
Optional == {"hints", "agentEnv", "enrich"}

SinkCalls == DOMAIN After \cup
    {"publishInitial", "publish", "publishFinal", "scanFailed", "artifacts",
     "finalArtifacts", "processStarted", "enrich", "drain", "flush",
     "adapterError", "watcherError", "exited", "emit", "discovered", "summary"}

\* The events that bound what is observed of the command.
Boundaries == {"processStarted", "drain", "discovered", "summary", "exited"}

\* The goroutines Run does not join: a PTY pump blocked in a read, an adapter.
Stragglers == {"input", "adapter"}

Free == [by |-> "none", at |-> 0]

Gone == {"off", "done", "broken", "failed"}       \* a goroutine that has returned
Over == {"returned", "refused", "failed", "unrecorded"}   \* Run has returned

Goto(t, step) == pc' = [pc EXCEPT ![t] = step]
At(t, step) == pc[t] = step

CommandDone == cancelled \/ killed
Exited == child \in {"success", "failure"}

\* Cancelling the command's context kills the child.
Cancel == killed' = TRUE /\ UNCHANGED <<now, cancelled, child, workspace, out>>

---------------------------------------------------------------------------
(* The event sink (events.go).                                             *)

\* Thread t has a call of the sink to make: a hook may have none, and Flush has
\* none without pending output.
Calls(t) ==
    /\ pc[t] \in SinkCalls
    /\ pc[t] \in Optional => opts.adapter # "none"
    /\ pc[t] = "flush" => out.recorded < out.captured

\* append, publishSnapshot and publishArtifact lock the mutex and read the clock.
Acquire(t) ==
    /\ Calls(t)
    /\ lock = Free /\ ~firstErr
    /\ lock' = [by |-> t, at |-> now]
    /\ UNCHANGED <<pc, firstErr, lost, db, run, env>>

\* The database accepts the event of t: the session records, time has not gone
\* back (SessionLog), and the context of the call is not done.
Accepted(t, done) ==
    /\ lock.by = t /\ lock' = Free
    /\ session = "recording" /\ lock.at >= last /\ ~done
    /\ last' = lock.at
    /\ UNCHANGED <<firstErr, lost>>

Appended(t, done) ==
    /\ Accepted(t, done)
    /\ log' = log \cup ({pc[t]} \cap Boundaries)
    /\ UNCHANGED <<states, session>>

\* Mutant of Stick: a failed append is reported to its caller only.
Forget == UNCHANGED firstErr

Stick == firstErr' = TRUE

\* The call fails: in the database, or at once on an earlier failure.
SinkFailed(t, done) ==
    /\ \/ /\ lock.by = t /\ lock' = Free
          /\ Faults \/ session # "recording" \/ lock.at < last \/ done
          /\ Stick
       \/ /\ Calls(t) /\ lock = Free /\ firstErr
          /\ UNCHANGED <<lock, firstErr>>
    /\ lost' = (lost \/ t \notin Stragglers)
    /\ UNCHANGED <<log, last, states>>
    /\ session' = session

\* PublishSnapshot finds an object of its snapshot corrupt and degrades the session.
FoundCorrupt(t) ==
    /\ lock.by = t /\ lock' = Free /\ Faults
    /\ Stick /\ lost' = (lost \/ t \notin Stragglers)
    /\ session' = IF session = "recording" THEN "degraded" ELSE session
    /\ UNCHANGED <<log, last, states>>

NotPublished(t, done) == SinkFailed(t, done) \/ FoundCorrupt(t)

\* A snapshot's event, state and session pointer in one transaction.
Published(t, done) ==
    /\ Accepted(t, done)
    /\ pos[t] = Len(states)
    /\ states' = Append(states, root[t])
    /\ pos' = [pos EXCEPT ![t] = Len(states) + 1]
    /\ UNCHANGED <<log, session, opts, root, cause, ended, trigger, left>>

---------------------------------------------------------------------------
(* Run up to the start of the command (recorder.go).                       *)

CreateSession ==
    /\ At("main", "create")
    /\ \/ session' = "recording" /\ Goto("main", "started")
       \/ (Faults \/ cancelled) /\ UNCHANGED session /\ Goto("main", "unrecorded")
    /\ UNCHANGED <<sink, log, last, states, run, env>>

AppendStep ==
    /\ pc["main"] \in DOMAIN After
    /\ \/ Appended("main", cancelled) /\ Goto("main", After[pc["main"]])
       \/ SinkFailed("main", cancelled) /\ Goto("main", "abort")
    /\ UNCHANGED <<run, env>>

SkipHook ==
    /\ pc["main"] \in {"hints", "agentEnv"} /\ lock.by # "main"
    /\ Goto("main", After[pc["main"]])
    /\ UNCHANGED <<sink, db, run, env>>

\* Mutant of Found: the result of an earlier scan is used again.
FoundBefore(t) == root[t]

Found(t) == workspace

\* captureWithRetry finds the workspace as it is, or gives up.
Capture(t, found, failed) ==
    /\ \/ root' = [root EXCEPT ![t] = Found(t)] /\ Goto(t, found)
       \/ UNCHANGED root /\ Goto(t, failed)
    /\ UNCHANGED <<opts, pos, cause, ended, trigger, left>>
    /\ UNCHANGED <<sink, db, env>>

CaptureInitial == At("main", "initial") /\ Capture("main", "publishInitial", "abort")

PublishInitial ==
    /\ At("main", "publishInitial")
    /\ \/ Published("main", cancelled) /\ Goto("main", "storeEnv")
       \/ NotPublished("main", cancelled) /\ Goto("main", "abort") /\ UNCHANGED run
    /\ UNCHANGED env

\* captureExecutionEnvironment and StoreEnvironment, outside the sink.
StoreEnvironment ==
    /\ At("main", "storeEnv")
    /\ \/ session = "recording" /\ ~cancelled /\ Goto("main", "environment")
       \/ (Faults \/ session # "recording" \/ cancelled) /\ Goto("main", "abort")
    /\ UNCHANGED <<sink, db, run, env>>

\* newWorkspaceWatcher: with a watcher Run reconciles once, without it says so.
Watch ==
    /\ At("main", "watch")
    /\ Goto("main", IF opts.watcher THEN "scan" ELSE "unavailable")
    /\ UNCHANGED <<sink, db, run, env>>

Launch ==
    /\ At("main", "launch")
    /\ Goto("main", IF opts.pty THEN "opened" ELSE "spawn")
    /\ UNCHANGED <<sink, db, run, env>>

\* Mutant of BeforeGate: output is copied as soon as the child runs.
Ungated == "copy"

BeforeGate == "off"

Spawn ==
    /\ At("main", "spawn")
    /\ \/ /\ ~cancelled /\ child' = "running"
          /\ pc' = [pc EXCEPT !["main"] = "processStarted", !["out"] = BeforeGate]
       \/ UNCHANGED child /\ Goto("main", "abort")
    /\ UNCHANGED <<sink, db, run, now, cancelled, killed, workspace, out>>

\* The gate of the pipe writers opens, the PTY pumps start.
Started == pc' = [pc EXCEPT !["main"] = "enrich", !["out"] = "copy",
                            !["input"] = IF opts.stdin THEN "copy" ELSE "off"]

\* Mutant of AfterKill: nobody waits for the child that was killed.
NoWait == "abort"

AfterKill == "reap"

\* On a failed append the child is killed and waited for; the gate of a pipe
\* opens all the same.
AppendProcessStarted ==
    /\ At("main", "processStarted")
    /\ \/ Appended("main", cancelled) /\ Started /\ UNCHANGED env
       \/ /\ SinkFailed("main", cancelled) /\ Cancel
          /\ pc' = [pc EXCEPT !["main"] = AfterKill,
                              !["out"] = IF opts.pty THEN "off" ELSE "copy"]
    /\ UNCHANGED run

Reap ==
    /\ At("main", "reap") /\ Exited /\ pc["out"] \in Gone
    /\ Goto("main", "abort")
    /\ UNCHANGED <<sink, db, run, env>>

\* The hook for the root process; then the goroutines start.
Watched == pc' = [pc EXCEPT !["main"] = "wait", !["tree"] = "tick",
                            !["check"] = IF opts.watcher THEN "select" ELSE "off",
                            !["adapter"] = IF opts.adapter = "none" THEN "off" ELSE "stream"]

Enrich ==
    /\ At("main", "enrich")
    /\ \/ lock.by # "main" /\ UNCHANGED <<sink, db>>
       \/ Appended("main", cancelled)
    /\ Watched
    /\ pos' = [pos EXCEPT !["check"] = pos["main"]]
    /\ UNCHANGED <<opts, root, cause, ended, trigger, left, env>>

EnrichFailed ==
    /\ At("main", "enrich")
    /\ SinkFailed("main", cancelled) /\ Cancel
    /\ cause' = TRUE /\ Goto("main", "wait")
    /\ UNCHANGED <<opts, pos, root, ended, trigger, left>>

---------------------------------------------------------------------------
(* Run from the exit of the command to its own return.                     *)

\* Wait returns when the child has exited and, without a PTY, its output ended.
Wait ==
    /\ At("main", "wait") /\ Exited /\ (opts.pty \/ pc["out"] \in Gone)
    /\ Goto("main", "finalize")
    /\ UNCHANGED <<sink, db, run, env>>

AtGrace == "drain"

\* Finalize waits for the end of a PTY's output for a grace period.
Finalize ==
    /\ At("main", "finalize")
    /\ \/ pc["out"] \in Gone /\ Goto("main", "flush")
       \/ opts.pty /\ pc["out"] \notin Gone /\ Goto("main", AtGrace)
    /\ UNCHANGED <<sink, db, run, env>>

Drain ==
    /\ At("main", "drain")
    /\ Appended("main", cancelled) \/ SinkFailed("main", cancelled)
    /\ Goto("main", "closing")
    /\ UNCHANGED <<run, env>>

Closed ==
    /\ At("main", "closing") /\ pc["out"] \in Gone
    /\ Goto("main", "flush")
    /\ UNCHANGED <<sink, db, run, env>>

\* An event for all the segments captured so far.
RecordOutput == out' = [out EXCEPT !.recorded = out.captured]

KeepEnvBut == UNCHANGED <<now, cancelled, killed, child, workspace>>

Flush ==
    /\ At("main", "flush")
    /\ \/ /\ out.recorded = out.captured /\ lock.by # "main"
          /\ UNCHANGED <<sink, db, out>>
       \/ Appended("main", cancelled) /\ RecordOutput
       \/ SinkFailed("main", cancelled) /\ UNCHANGED out
    /\ Goto("main", "flushed")
    /\ UNCHANGED run /\ KeepEnvBut

\* What Finalize returns: the sink's error, or that of a PTY pump.
ExecutionErr == firstErr \/ (opts.pty /\ (pc["input"] = "failed" \/ pc["out"] = "broken"))

SetCause(failed) ==
    cause' = (cause \/ failed) /\ UNCHANGED <<opts, pos, root, ended, trigger, left>>

Flushed ==
    /\ At("main", "flushed") /\ lock = Free
    /\ SetCause(ExecutionErr)
    /\ Goto("main", IF cause THEN "abort" ELSE "stopAdapter")
    /\ UNCHANGED <<sink, db, env>>

\* stopEventStream: an adapter that ignores the cancellation is left behind.
StopAdapter ==
    /\ At("main", "stopAdapter")
    /\ \/ pc["adapter"] \in Gone /\ lock = Free
          /\ SetCause(opts.adapter # "none" /\ firstErr) /\ Goto("main", "joinTree")
       \/ opts.adapter = "deaf" /\ pc["adapter"] \notin Gone
          /\ UNCHANGED run /\ Goto("main", "adapterError")
    /\ UNCHANGED <<sink, db, env>>

\* Mutant of Joined: Run does not wait for the monitor's result.
DoNotWait(t) == TRUE

Joined(t) == pc[t] \in Gone

JoinTree ==
    /\ At("main", "joinTree") /\ Joined("tree")
    /\ SetCause(pc["tree"] = "failed")
    /\ Goto("main", "joinCheck")
    /\ UNCHANGED <<sink, db, env>>

\* Mutant of TakePosition: the result of the checkpoint loop is ignored.
KeepPosition == pos

TakePosition == IF opts.watcher THEN [pos EXCEPT !["main"] = pos["check"]] ELSE pos

JoinCheck ==
    /\ At("main", "joinCheck") /\ Joined("check")
    /\ pos' = TakePosition
    /\ cause' = (cause \/ pc["check"] = "failed")
    /\ Goto("main", "closeWatcher")
    /\ UNCHANGED <<sink, db, env, opts, root, ended, trigger, left>>

CloseWatcher ==
    /\ At("main", "closeWatcher")
    /\ \/ Goto("main", "exit")
       \/ opts.watcher /\ pc["check"] # "failed" /\ Goto("main", "watcherError")
    /\ UNCHANGED <<sink, db, run, env>>

\* Calls whose failure Run keeps for later.
DeferredCalls == [adapterError |-> "joinTree", watcherError |-> "exit", exited |-> "decide"]

DeferredStep ==
    /\ pc["main"] \in DOMAIN DeferredCalls
    /\ \/ Appended("main", cancelled) /\ UNCHANGED run
       \/ SinkFailed("main", cancelled) /\ SetCause(TRUE)
    /\ Goto("main", DeferredCalls[pc["main"]])
    /\ UNCHANGED env

\* Without a PTY, Wait reports a failed output writer unless the child failed too;
\* Run aborts on it unless the command was cancelled for another reason.
Exit ==
    /\ At("main", "exit")
    /\ Goto("main", IF /\ ~opts.pty /\ pc["out"] = "broken" /\ child = "success"
                       /\ ~(CommandDone /\ (cancelled \/ cause))
                    THEN "abort" ELSE "exited")
    /\ UNCHANGED <<sink, db, run, env>>

Decide ==
    /\ At("main", "decide") /\ lock = Free
    /\ Goto("main", IF cause \/ firstErr \/ cancelled THEN "abort" ELSE "finalScan")
    /\ UNCHANGED <<sink, db, run, env>>

CaptureFinal == At("main", "finalScan") /\ Capture("main", "publishFinal", "abort")

PublishFinal ==
    /\ At("main", "publishFinal")
    /\ \/ Published("main", FALSE) /\ Goto("main", "finalArtifacts")
       \/ NotPublished("main", FALSE) /\ Goto("main", "abort") /\ UNCHANGED run
    /\ UNCHANGED env

FinalArtifacts ==
    /\ At("main", "finalArtifacts")
    /\ \/ lock.by # "main" /\ UNCHANGED <<sink, db>> /\ Goto("main", "complete")
       \/ Appended("main", FALSE) /\ Goto("main", "complete")
       \/ SinkFailed("main", FALSE) /\ Goto("main", "abort")
    /\ UNCHANGED <<run, env>>

\* Run and abortWithError read the clock for EndSession without the sink's mutex.
SampleEnd ==
    /\ pc["main"] \in {"complete", "abort"}
    /\ ended' = now
    /\ Goto("main", IF pc["main"] = "complete" THEN "completing" ELSE "aborting")
    /\ UNCHANGED <<sink, db, env, opts, pos, root, cause, trigger, left>>

\* EndSession, and Run's deferred calls.
EndSession ==
    /\ pc["main"] \in {"completing", "aborting"}
    /\ \/ /\ session = "recording" /\ ended >= last
          /\ session' = IF pc["main"] = "completing" THEN "completed" ELSE "aborted"
          /\ last' = ended
          /\ Goto("main", "returned")
       \/ /\ session # "recording" \/ ended < last
          /\ Goto("main", "refused") /\ UNCHANGED <<last, session>>
       \/ Faults /\ Goto("main", "failed") /\ UNCHANGED <<last, session>>
    /\ Cancel
    /\ UNCHANGED <<sink, log, states, run>>

---------------------------------------------------------------------------
(* Reconciliation: by Run once, then by the checkpoint loop.               *)

Home(t) == IF t = "main" THEN "launch" ELSE "select"
Done(t) == IF t = "main" THEN cancelled ELSE CommandDone

\* An error ends Run, or the loop, which cancels the command unless that is why.
GiveUp(t) ==
    CASE t = "main"                    -> Goto(t, "abort") /\ UNCHANGED env
      [] t = "check" /\ CommandDone    -> Goto(t, "done") /\ UNCHANGED env
      [] t = "check" /\ ~CommandDone   -> Goto(t, "failed") /\ Cancel

Scan(t) ==
    /\ At(t, "scan")
    /\ \/ /\ root' = [root EXCEPT ![t] = workspace]
          /\ Goto(t, IF states[pos[t]] = workspace THEN Home(t) ELSE "publish")
          /\ UNCHANGED <<opts, pos, cause, ended, trigger, left, env>>
       \/ ~Done(t) /\ Goto(t, "scanFailed") /\ UNCHANGED <<run, env>>
       \/ Done(t) /\ GiveUp(t) /\ UNCHANGED run
    /\ UNCHANGED <<sink, db>>

ScanFailed(t) ==
    /\ At(t, "scanFailed")
    /\ \/ Appended(t, cancelled) /\ Goto(t, Home(t)) /\ UNCHANGED env
       \/ SinkFailed(t, cancelled) /\ GiveUp(t)
    /\ UNCHANGED run

Publish(t) ==
    /\ At(t, "publish")
    /\ \/ Published(t, Done(t)) /\ Goto(t, "artifacts") /\ UNCHANGED env
       \/ NotPublished(t, Done(t)) /\ GiveUp(t) /\ UNCHANGED run

Artifacts(t) ==
    /\ At(t, "artifacts")
    /\ \/ lock.by # t /\ UNCHANGED <<sink, db>> /\ Goto(t, Home(t)) /\ UNCHANGED env
       \/ Appended(t, Done(t)) /\ Goto(t, Home(t)) /\ UNCHANGED env
       \/ SinkFailed(t, Done(t)) /\ GiveUp(t)
    /\ UNCHANGED run

Reconcile(t) == Scan(t) \/ ScanFailed(t) \/ Publish(t) \/ Artifacts(t)

Emit ==
    /\ left > 0 /\ left' = left - 1
    /\ UNCHANGED <<opts, pos, root, cause, ended, trigger>>

\* Mutant of LoopStops: the stop channel is not closed.
LoopStopsLate == CommandDone

LoopStops == At("main", "joinCheck") \/ CommandDone

\* The select of runCheckpointLoop: whichever channel is ready.
CheckpointSelect ==
    /\ At("check", "select")
    /\ \/ LoopStops /\ Goto("check", "done") /\ UNCHANGED run
       \/ /\ trigger /\ trigger' = FALSE /\ Goto("check", "scan")
          /\ UNCHANGED <<opts, pos, root, cause, ended, left>>
       \/ Emit /\ Goto("check", "watcherError")
    /\ UNCHANGED <<sink, db, env>>

WatcherError ==
    /\ At("check", "watcherError")
    /\ \/ /\ Appended("check", cancelled)
          /\ trigger' = TRUE /\ Goto("check", "select")
          /\ UNCHANGED <<opts, pos, root, cause, ended, left, env>>
       \/ /\ SinkFailed("check", cancelled)
          /\ Goto("check", "failed") /\ Cancel /\ UNCHANGED run

---------------------------------------------------------------------------
(* The process tree monitor (process_tree.go).                             *)

TreeSelect ==
    /\ At("tree", "tick")
    /\ \/ Emit /\ Goto("tree", "discovered")
       \/ At("main", "joinTree") /\ Goto("tree", "summary") /\ UNCHANGED run
       \/ CommandDone /\ Goto("tree", "done") /\ UNCHANGED run
    /\ UNCHANGED <<sink, db, env>>

TreeAppend ==
    /\ pc["tree"] \in {"discovered", "summary"}
    /\ \/ /\ Appended("tree", cancelled) /\ UNCHANGED env
          /\ Goto("tree", IF pc["tree"] = "summary" THEN "done" ELSE "tick")
       \/ SinkFailed("tree", cancelled) /\ Goto("tree", "failed") /\ Cancel
    /\ UNCHANGED run

---------------------------------------------------------------------------
(* The adapter's event stream (adapter_hooks.go).                          *)

StreamDone == CommandDone \/ At("main", "stopAdapter")

AdapterEmits ==
    /\ At("adapter", "stream")
    /\ opts.adapter = "deaf" \/ ~StreamDone
    /\ Emit /\ Goto("adapter", "emit")
    /\ UNCHANGED <<sink, db, env>>

AdapterAppend ==
    /\ At("adapter", "emit")
    /\ Appended("adapter", cancelled) \/ SinkFailed("adapter", cancelled)
    /\ Goto("adapter", "stream")
    /\ UNCHANGED <<run, env>>

AdapterEnds ==
    /\ At("adapter", "stream")
    /\ Goto("adapter", "done")
    /\ UNCHANGED <<sink, db, run, env>>

---------------------------------------------------------------------------
(* Terminal output and input (execution.go, streamEventWriter).            *)

\* A chunk is captured: up to a newline it stays pending, else it is emitted.
OutRead ==
    /\ At("out", "copy") /\ out.captured < out.written
    /\ out' = [out EXCEPT !.captured = @ + 1]
    /\ UNCHANGED pc \/ Goto("out", "emit")
    /\ UNCHANGED <<sink, db, run>> /\ KeepEnvBut

\* A refused event is not reported here: Flush reads the sink's error.
OutAppend ==
    /\ At("out", "emit")
    /\ \/ Appended("out", cancelled) /\ RecordOutput
       \/ SinkFailed("out", cancelled) /\ UNCHANGED out
    /\ Goto("out", "copy")
    /\ UNCHANGED run /\ KeepEnvBut

\* The end of the output: at EOF, or when Finalize closes the PTY.
OutEnds ==
    /\ At("out", "copy")
    /\ \/ Exited /\ out.captured = out.written
       \/ opts.pty /\ At("main", "closing")
    /\ Goto("out", "done")
    /\ UNCHANGED <<sink, db, run, env>>

\* The user's output writer fails: a PTY pump cancels the command.
OutBreaks ==
    /\ At("out", "copy") /\ out.captured < out.written
    /\ Goto("out", "broken")
    /\ IF opts.pty THEN Cancel ELSE UNCHANGED env
    /\ UNCHANGED <<sink, db, run>>

\* A pump delivers input (or a resize) to the child and records it.
InputDelivers ==
    /\ At("input", "copy") /\ Emit /\ Goto("input", "emit")
    /\ UNCHANGED <<sink, db, env>>

InputAppend ==
    /\ At("input", "emit")
    /\ \/ Appended("input", cancelled) /\ Goto("input", "copy") /\ UNCHANGED env
       \/ SinkFailed("input", cancelled) /\ Goto("input", "failed") /\ Cancel
    /\ UNCHANGED run

\* A failed read, or a failed transfer to the terminal; at EOF, or once the stop
\* channel is closed, the pump just delivers nothing more.
InputBreaks ==
    /\ At("input", "copy") /\ Goto("input", "failed") /\ Cancel
    /\ UNCHANGED <<sink, db, run>>

---------------------------------------------------------------------------
(* The command, its caller, other processes and time.                      *)

ChildWrites ==
    /\ child = "running" /\ out.written < MaxOut
    /\ out' = [out EXCEPT !.written = @ + 1]
    /\ UNCHANGED <<pc, sink, db, run>> /\ KeepEnvBut

ChildChanges ==
    /\ child = "running" /\ workspace < MaxWrites
    /\ workspace' = workspace + 1
    /\ trigger' = opts.watcher
    /\ UNCHANGED <<pc, sink, db, opts, pos, root, cause, ended, left>>
    /\ UNCHANGED <<now, cancelled, killed, child, out>>

ChildExits ==
    /\ child = "running"
    /\ child' \in {"success", "failure"}
    /\ UNCHANGED <<pc, sink, db, run, now, cancelled, killed, workspace, out>>

CallerCancels ==
    /\ ~cancelled /\ pc["main"] \notin Over
    /\ cancelled' = TRUE
    /\ UNCHANGED <<pc, sink, db, run, now, killed, child, workspace, out>>

\* Another process verifies a state of this session and finds it corrupt.
Degrade ==
    /\ Faults /\ session = "recording" /\ states # <<>>
    /\ session' = "degraded"
    /\ UNCHANGED <<pc, sink, log, last, states, run, env>>

\* Time passes; nobody can tell but who has read the clock and not yet committed.
Tick ==
    /\ now < MaxTime /\ now' = now + 1
    /\ lock # Free \/ pc["main"] \in {"completing", "aborting"}
    /\ UNCHANGED <<pc, sink, db, run, cancelled, killed, child, workspace, out>>

---------------------------------------------------------------------------

Init ==
    /\ opts \in Options
    /\ pc = [t \in Threads |-> IF t = "main" THEN "create" ELSE "off"]
    /\ lock = Free /\ firstErr = FALSE /\ lost = FALSE
    /\ log = {} /\ last = 0 /\ states = <<>> /\ session = "absent"
    /\ pos = [t \in {"main", "check"} |-> 0]
    /\ root = [t \in {"main", "check"} |-> 0]
    /\ cause = FALSE /\ ended = 0 /\ trigger = FALSE
    /\ left = MaxEmits
    /\ now = 0 /\ cancelled = FALSE /\ killed = FALSE
    /\ child = "none" /\ workspace = 0
    /\ out = [written |-> 0, captured |-> 0, recorded |-> 0]

Main ==
    \/ CreateSession \/ AppendStep \/ SkipHook \/ CaptureInitial \/ PublishInitial
    \/ StoreEnvironment \/ Watch \/ Launch \/ Spawn \/ AppendProcessStarted \/ Reap
    \/ Enrich \/ EnrichFailed \/ Wait \/ Finalize \/ Drain \/ Closed \/ Flush \/ Flushed
    \/ StopAdapter \/ JoinTree \/ JoinCheck \/ CloseWatcher \/ DeferredStep \/ Exit
    \/ Decide \/ CaptureFinal \/ PublishFinal \/ FinalArtifacts \/ SampleEnd \/ EndSession
    \/ Reconcile("main") \/ Acquire("main")

Output  == OutRead \/ OutAppend \/ OutEnds \/ OutBreaks \/ Acquire("out")
Input   == InputDelivers \/ InputAppend \/ InputBreaks \/ Acquire("input")
Tree    == TreeSelect \/ TreeAppend \/ Acquire("tree")
Check   == CheckpointSelect \/ WatcherError \/ Reconcile("check") \/ Acquire("check")
Adapter == AdapterEmits \/ AdapterAppend \/ AdapterEnds \/ Acquire("adapter")

Environment == ChildWrites \/ ChildChanges \/ ChildExits \/ CallerCancels \/ Degrade \/ Tick

\* Run has returned and every goroutine it joined is gone.
Terminated ==
    /\ pc["main"] \in Over /\ \A t \in {"out", "tree", "check"} : pc[t] \in Gone
    /\ UNCHANGED vars

Next == Main \/ Output \/ Input \/ Tree \/ Check \/ Adapter \/ Environment \/ Terminated

Spec == Init /\ [][Next]_vars

\* The Go scheduler runs every goroutine that can run; a call of the database
\* returns; an adapter that honours cancellation ends its stream; and the kernel
\* ends a child that was killed.  Nothing else is promised of the child, of its
\* input, of the caller or of a deaf adapter.
Fairness ==
    /\ WF_vars(Main) /\ WF_vars(Output) /\ WF_vars(Tree) /\ WF_vars(Check)
    /\ WF_vars(Acquire("adapter") \/ AdapterAppend) /\ WF_vars(InputAppend)
    /\ WF_vars(opts.adapter = "prompt" /\ StreamDone /\ AdapterEnds)
    /\ WF_vars(CommandDone /\ ChildExits)

FairSpec == Spec /\ Fairness

---------------------------------------------------------------------------
(* Properties.                                                             *)

Locations == SinkCalls \cup Gone \cup Over \cup
    {"create", "initial", "storeEnv", "watch", "scan", "launch", "spawn", "reap", "wait",
     "finalize", "closing", "flushed", "stopAdapter", "joinTree", "joinCheck",
     "closeWatcher", "exit", "decide", "finalScan", "complete", "abort", "completing",
     "aborting", "copy", "tick", "select", "stream"}

\* Types, and who may be where: only a thread at a call of the sink holds its
\* mutex, and the captured output lies between the recorded and the written.
TypeOK ==
    /\ opts \in Options
    /\ pc \in [Threads -> Locations]
    /\ lock \in {Free} \cup [by : Threads, at : 0 .. MaxTime]
    /\ lock # Free => Calls(lock.by)
    /\ {last, ended, now} \subseteq 0 .. MaxTime
    /\ {firstErr, lost, cause, cancelled, killed, trigger} \subseteq BOOLEAN
    /\ log \subseteq Boundaries
    /\ states \in Seq(0 .. MaxWrites)
    /\ session \in {"absent", "recording", "completed", "aborted", "degraded"}
    /\ pos \in [{"main", "check"} -> 0 .. Len(states)]
    /\ root \in [{"main", "check"} -> 0 .. MaxWrites]
    /\ child \in {"none", "running", "success", "failure"}
    /\ workspace \in 0 .. MaxWrites
    /\ out \in [written : 0 .. MaxOut, captured : 0 .. MaxOut, recorded : 0 .. MaxOut]
    /\ out.recorded <= out.captured /\ out.captured <= out.written
    /\ left \in 0 .. MaxEmits

\* Terminal output is recorded behind process.started, and process.exited behind
\* the last output, process and checkpoint event: the two boundaries enclose
\* everything the joined goroutines observe of the command (ADR-022, ADR-023).
ProcessBoundaries ==
    /\ out.recorded > 0 \/ log \cap {"discovered", "summary"} # {} =>
         "processStarted" \in log
    /\ "exited" \in log => Exited /\ \A t \in {"out", "tree", "check"} : pc[t] \in Gone

\* Whoever is about to publish a snapshot holds the position of the latest state:
\* Run and the checkpoint loop never publish from a stale one, which the database
\* would refuse.
LatestPosition ==
    \A t \in {"main", "check"} :
        pc[t] \in {"publishInitial", "publish", "publishFinal"} => pos[t] = Len(states)

\* All the output of the child is recorded, or a terminal.drain event says that it
\* is not (ADR-023).  The exception is a pipe whose user's end failed and whose
\* child then failed too: Wait reports the child's failure only.
OutputIsAccountedFor ==
    \/ out.recorded = out.written
    \/ "drain" \in log
    \/ ~opts.pty /\ pc["out"] = "broken" /\ child = "failure"

\* A session completes only if no event of a joined goroutine or of Run was
\* refused, whichever thread met the first error and whoever was told of it, and
\* if its output is accounted for.
CompletedIsWhole ==
    session = "completed" => ~lost /\ "exited" \in log /\ OutputIsAccountedFor

\* The state a completed session ends on is the workspace the child left.
FinalStateIsTheWorkspace ==
    session = "completed" => states # <<>> /\ states[Len(states)] = workspace

\* However Run returns, it leaves no child running behind it.
ChildIsReaped == pc["main"] \in Over => child # "running"

\* EndSession is refused only because the session was degraded: with an adapter
\* that stops and no PTY input, no goroutine is left to overtake its clock reading.
RefusedOnlyIfDegraded ==
    pc["main"] = "refused" /\ opts.adapter # "deaf" /\ ~opts.stdin => session = "degraded"

\* The same of every run: an adapter's stream is additive, and does not decide
\* whether the recording ends (ADR-026, ADR-020).
EndIsNeverOvertaken == pc["main"] = "refused" => session = "degraded"

\* Once the child has exited or the command is cancelled, Run returns: no join
\* waits for a goroutine that waits for Run.
RunReturns == (Exited \/ CommandDone) ~> (pc["main"] \in Over)
============================================================================
