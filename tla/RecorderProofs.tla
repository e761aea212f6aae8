--------------------------- MODULE RecorderProofs ---------------------------
(* What Recorder.Run guarantees for every run, proved of Recorder: the     *)
(* boundaries of the process, the chain of state checkpoints, what a       *)
(* completed session contains, that no child is left behind and when the   *)
(* end of a session is refused.                                            *)
(*                                                                         *)
(* Each property needs to know where the other goroutines can be while Run *)
(* is at a given place: that is Control. The rest of the invariant says    *)
(* what Run has learnt by the time it gets there.                          *)
EXTENDS Recorder, TLAPS

---------------------------------------------------------------------------
(* The invariant.                                                          *)

\* The phases of Run, in their order: a session that fails leaves for Aborting
\* from any phase of its own.
Preparing  == {"create", "started", "hints", "initial", "publishInitial", "storeEnv",
               "environment", "git", "agentEnv", "watch", "unavailable", "scan",
               "scanFailed", "publish", "artifacts", "launch", "opened", "spawn"}
Starting   == {"processStarted", "reap", "enrich"}
Attending  == {"wait", "finalize", "drain", "closing", "flush", "flushed"}
Joining    == {"stopAdapter", "adapterError", "joinTree", "joinCheck"}
Closing    == {"closeWatcher", "watcherError", "exit", "exited", "decide"}
Completing == {"finalScan", "publishFinal", "finalArtifacts", "complete", "completing"}
Aborting   == {"abort", "aborting"}
Leaving    == Completing \cup Aborting \cup Over

MainIn(S) == pc["main"] \in S

\* Each goroutine is in its own part of the program.
Places ==
    /\ pc \in [Threads -> Locations]
    /\ MainIn(Preparing \cup Starting \cup Attending \cup Joining \cup Closing \cup Leaving)
    /\ pc["out"] \in {"off", "copy", "emit", "done", "broken"}
    /\ pc["input"] \in {"off", "copy", "emit", "failed"}
    /\ pc["tree"] \in {"off", "tick", "discovered", "summary", "done", "failed"}
    /\ pc["check"] \in {"off", "select", "scan", "scanFailed", "publish", "artifacts",
                        "watcherError", "done", "failed"}
    /\ pc["adapter"] \in {"off", "stream", "emit", "done"}

\* What Run has not started yet does not run: the child before it is spawned, the
\* pumps before the output gate opens, the loops and the adapter before the process
\* is enriched. Nothing has failed by then that Run would go on from.
Unstarted ==
    /\ MainIn(Preparing) => child = "none"
    /\ MainIn(Preparing \cup {"processStarted"}) => pc["out"] = "off" /\ pc["input"] = "off"
    /\ MainIn(Preparing \cup Starting) =>
         pc["tree"] = "off" /\ pc["check"] = "off" /\ pc["adapter"] = "off"
    /\ MainIn(Preparing \cup Starting) => ~cause
    /\ ~opts.watcher => pc["check"] = "off"
    /\ ~opts.stdin => pc["input"] = "off"

\* From the gate on the output has a pump. From wait on either the loops have been
\* started, or enriching the process failed and Run only waits to abort.
StartedAll ==
    /\ MainIn({"enrich"} \cup Attending \cup Joining \cup Closing \cup Completing) =>
         pc["out"] # "off"
    /\ MainIn(Attending \cup Joining \cup Closing \cup Completing) =>
         \/ /\ pc["tree"] # "off" /\ (opts.watcher => pc["check"] # "off")
            /\ MainIn(Attending) => ~cause
         \/ /\ MainIn(Attending) /\ cause
            /\ pc["tree"] = "off" /\ pc["check"] = "off" /\ pc["adapter"] = "off"

\* What Run has waited for is over: the child, the output pump, and one joined
\* goroutine after the other. An adapter that is deaf to its stop is not joined.
Joins ==
    /\ MainIn((Attending \ {"wait"}) \cup Joining \cup Closing \cup Completing) => Exited
    /\ MainIn(Leaving) => child # "running"
    /\ MainIn({"flush", "flushed"} \cup Joining \cup Closing \cup Leaving) => pc["out"] \in Gone
    /\ MainIn({"joinCheck"} \cup Closing \cup Leaving) => pc["tree"] \in Gone
    /\ MainIn(Closing \cup Leaving) => pc["check"] \in Gone
    /\ opts.adapter # "deaf"
       /\ MainIn({"adapterError", "joinTree", "joinCheck"} \cup Closing \cup Leaving) =>
         pc["adapter"] \in Gone

Control == Places /\ Unstarted /\ StartedAll /\ Joins

\* A sink that has failed holds nobody, and what it lost it lost to its first
\* error. No reading of the clock is ahead of the clock. The session exists from
\* CreateSession on and is ended by EndSession alone.
SinkInv ==
    /\ firstErr => lock = Free
    /\ lost => firstErr
    /\ last <= now /\ lock.at <= now /\ ended <= now
    /\ MainIn({"create", "unrecorded"}) => session = "absent"
    /\ session = "absent" => MainIn({"create", "unrecorded"}) /\ states = <<>>
    /\ session \in {"completed", "aborted"} => MainIn({"returned"})

\* The position belongs to Run but while the checkpoint loop runs.
Owned ==
    /\ MainIn(Preparing \cup {"processStarted", "enrich"} \cup Closing) =>
         pos["main"] = Len(states)
    /\ MainIn(Completing) => pos["main"] = Len(states)
    /\ MainIn(Attending \cup Joining) /\ ~opts.watcher => pos["main"] = Len(states)
    /\ MainIn(Attending \cup Joining) /\ pc["check"] # "off" => pos["check"] = Len(states)

\* process.started is recorded before anything that can observe the process runs;
\* when it cannot be, the child is reaped behind a sink that has failed.
Bounded ==
    /\ MainIn({"enrich"} \cup Attending \cup Joining \cup Closing \cup Completing) =>
         "processStarted" \in log
    /\ MainIn({"reap"}) => firstErr
    /\ out.recorded > 0 \/ log \cap {"discovered", "summary"} # {} => "processStarted" \in log
    /\ "exited" \in log => Exited /\ MainIn({"decide"} \cup Leaving)

\* Output that is not in the log has left a trace: the note that it was drained
\* too late, the first error of the sink, or a cause that Run will abort for.
Accounted ==
    /\ MainIn({"closing"}) => "drain" \in log \/ firstErr
    /\ pc["out"] = "done" =>
         "drain" \in log \/ firstErr \/ (Exited /\ out.captured = out.written)
    /\ MainIn({"flushed"} \cup Joining \cup Closing) => firstErr \/ out.recorded = out.captured
    /\ MainIn(Joining \cup Closing) /\ opts.pty /\ pc["out"] = "broken" => cause
    /\ MainIn({"exited", "decide"}) /\ ~opts.pty /\ pc["out"] = "broken" =>
         child = "failure" \/ cancelled \/ cause
    /\ MainIn({"decide"}) => "exited" \in log \/ cause

\* Once Run has decided to complete, nothing is lost any more.
Whole ==
    MainIn(Completing) \/ session = "completed" =>
        ~lost /\ "exited" \in log /\ OutputIsAccountedFor

\* The final scan sees the workspace for good: its only writer has exited.
Last ==
    /\ MainIn({"publishFinal"}) => root["main"] = workspace
    /\ MainIn({"finalArtifacts", "complete", "completing"}) \/ session = "completed" =>
         states # <<>> /\ states[Len(states)] = workspace

\* When nothing can outlive the joins, the end is read behind the last event.
Ending ==
    opts.adapter # "deaf" /\ ~opts.stdin =>
        /\ MainIn({"completing", "aborting"}) => ended >= last
        /\ MainIn({"refused"}) => session = "degraded"

RecInv ==
    /\ TypeOK /\ Control /\ SinkInv /\ Owned /\ Bounded
    /\ Accounted /\ Whole /\ Last /\ Ending

---------------------------------------------------------------------------
(* Steps.                                                                  *)

\* What Run does, by what it waits for.
Prepare ==
    \/ CreateSession \/ AppendStep \/ SkipHook \/ CaptureInitial \/ PublishInitial
    \/ StoreEnvironment \/ Watch \/ Launch \/ Reconcile("main")
Start    == Spawn \/ AppendProcessStarted \/ Reap \/ Enrich \/ EnrichFailed
Attend   == Wait \/ Finalize \/ Drain \/ Closed \/ Flush \/ Flushed
Join     == StopAdapter \/ JoinTree \/ JoinCheck
Close    == CloseWatcher \/ DeferredStep \/ Exit \/ Decide
Complete == CaptureFinal \/ PublishFinal \/ FinalArtifacts \/ SampleEnd \/ EndSession

Pumps     == OutRead \/ OutAppend \/ OutEnds \/ OutBreaks
Delivers  == InputDelivers \/ InputAppend \/ InputBreaks
Monitors  == TreeSelect \/ TreeAppend
Watches   == CheckpointSelect \/ WatcherError \/ Reconcile("check")
Streams   == AdapterEmits \/ AdapterAppend \/ AdapterEnds

\* The actions, grouped by who takes them and in which phase of Run.
LEMMA Steps ==
  ASSUME [Next]_vars
  PROVE  \/ Prepare \/ Start \/ Attend \/ Join \/ Close \/ Complete
         \/ Pumps \/ Delivers \/ Monitors \/ Watches \/ Streams
         \/ (\E t \in Threads : Acquire(t)) \/ Environment \/ UNCHANGED vars
  BY DEF Next, Main, Output, Input, Tree, Check, Adapter, Terminated, Threads, Prepare, Start,
     Attend, Join, Close, Complete, Pumps, Delivers, Monitors, Watches, Streams

\* The places of the groups are places of the program.
LEMMA LocationsAre ==
  Preparing \cup Starting \cup Attending \cup Joining \cup Closing \cup Leaving
  \cup {"off", "copy", "emit", "done", "broken", "failed", "tick", "discovered", "summary",
        "select", "stream"} \subseteq Locations
  BY DEF Preparing, Starting, Attending, Joining, Closing, Completing, Aborting, Leaving, Over,
     Locations, SinkCalls, After, Boundaries, Gone

\* The appends Run puts off move it to three places and touch nothing else.
LEMMA DeferredMoves ==
  ASSUME DeferredStep
  PROVE  /\ \/ At("main", "adapterError") /\ Goto("main", "joinTree")
            \/ At("main", "watcherError") /\ Goto("main", "exit")
            \/ At("main", "exited") /\ Goto("main", "decide")
         /\ UNCHANGED <<opts, child>>
  <1>1. UNCHANGED <<opts, child>> /\ pc["main"] \in {"adapterError", "watcherError", "exited"}
    BY DEF DeferredStep, DeferredCalls, SetCause, run, env
  <1>2. Goto("main", DeferredCalls[pc["main"]])
    BY DEF DeferredStep
  <1>3. /\ DeferredCalls["adapterError"] = "joinTree" /\ DeferredCalls["watcherError"] = "exit"
        /\ DeferredCalls["exited"] = "decide"
    BY DEF DeferredCalls
  <1> QED  BY <1>1, <1>2, <1>3, Zenon DEF At

\* Control is inductive.
LEMMA ControlKeeps ==
  ASSUME opts.adapter \in {"none", "prompt", "deaf"}, Control, [Next]_vars
  PROVE  Control'
  <1> USE LocationsAre
      DEF Control, Places, Unstarted, StartedAll, Joins, Threads, MainIn, At, Goto, Exited, Gone,
       Over, run, env, Cancel, Preparing, Starting, Attending, Joining, Closing, Completing,
       Aborting, Leaving
  <1>1. CASE Prepare
    <2>1. CASE Reconcile("main")
      BY <2>1 DEF Reconcile, Scan, ScanFailed, Publish, Published, Artifacts, Home, GiveUp
    <2>2. CASE AppendStep \/ SkipHook
      BY <2>2 DEF AppendStep, SkipHook, After
    <2> QED
      BY <1>1, <2>1, <2>2 DEF Prepare, CreateSession, CaptureInitial, Capture, PublishInitial,
         Published, StoreEnvironment, Watch, Launch
  <1>2. CASE Start
    <2>1. CASE Spawn \/ AppendProcessStarted \/ Reap
      BY <2>1 DEF Spawn, BeforeGate, AppendProcessStarted, Started, AfterKill, Reap
    <2>2. CASE Enrich \/ EnrichFailed
      BY <2>2 DEF Enrich, Watched, EnrichFailed
    <2> QED  BY <1>2, <2>1, <2>2 DEF Start
  <1>3. CASE Attend
    <2>1. CASE Flushed
      <3>1. pc["main"] = "flushed" /\ pc' = [pc EXCEPT !["main"] = IF cause THEN "abort" ELSE "stopAdapter"]
            /\ (cause => cause') /\ UNCHANGED <<opts, child>>
        BY <2>1 DEF Flushed, SetCause
      <3>2. CASE cause
        BY <3>1, <3>2
      <3>3. CASE ~cause
        BY <3>1, <3>3
      <3> QED  BY <3>2, <3>3
    <2> QED  BY <1>3, <2>1 DEF Attend, Wait, Finalize, AtGrace, Drain, Closed, Flush, KeepEnvBut
  <1>4. CASE Join
    BY <1>4 DEF Join, StopAdapter, SetCause, JoinTree, Joined, JoinCheck
  <1>5. CASE Close
    <2>1. CASE DeferredStep
      BY <2>1, DeferredMoves
    <2> QED  BY <1>5, <2>1 DEF Close, CloseWatcher, Exit, Decide
  <1>6. CASE Complete
    <2>1. /\ \/ pc["main"] \in Completing /\ \E x \in Completing \cup {"abort"} :
                  pc' = [pc EXCEPT !["main"] = x]
             \/ pc["main"] \in Leaving /\ \E x \in {"aborting", "returned", "refused", "failed"} :
                  pc' = [pc EXCEPT !["main"] = x]
          /\ UNCHANGED <<opts, child>>
      BY <1>6 DEF Complete, CaptureFinal, Capture, PublishFinal, Published, FinalArtifacts,
         SampleEnd, EndSession
    <2> QED  BY <2>1
  <1>7. CASE Pumps
    BY <1>7 DEF Pumps, OutRead, OutAppend, OutEnds, OutBreaks, KeepEnvBut
  <1>8. CASE Delivers \/ Monitors \/ Streams
    BY <1>8 DEF Delivers, InputDelivers, InputAppend, InputBreaks, Monitors, TreeSelect,
       TreeAppend, Streams, AdapterEmits, AdapterAppend, AdapterEnds, Emit
  <1>9. CASE Watches
    <2> PICK x \in {"select", "scan", "scanFailed", "publish", "artifacts", "watcherError",
                       "done", "failed"} :
          /\ pc["check"] \notin Gone /\ pc' = [pc EXCEPT !["check"] = x]
          /\ UNCHANGED <<opts, child, cause>>
      BY <1>9 DEF Watches, CheckpointSelect, WatcherError, Emit, Reconcile, Scan, ScanFailed,
         Publish, Published, Artifacts, Home, GiveUp
    <2>1. Places'
      OBVIOUS
    <2>3. Unstarted'
      OBVIOUS
    <2>2. StartedAll' /\ Joins'
      OBVIOUS
    <2> QED  BY <2>1, <2>2, <2>3
  <1>10. CASE \E t \in Threads : Acquire(t)
    BY <1>10 DEF Acquire
  <1>11. CASE Environment
    BY <1>11 DEF Environment, ChildWrites, ChildChanges, ChildExits, CallerCancels, Degrade, Tick,
       KeepEnvBut
  <1>12. CASE UNCHANGED vars
    BY <1>12 DEF vars
  <1> QED
    BY <1>1, <1>2, <1>3, <1>4, <1>5, <1>6, <1>7, <1>8, <1>9, <1>10, <1>11, <1>12, Steps

---------------------------------------------------------------------------
(* What a step may do to the sink, the database and the rest.              *)

Dones == {cancelled, CommandDone, FALSE}

\* At most one thread uses the sink; the database is only written through it, by
\* CreateSession, by EndSession and by another process.
SinkStep ==
    \/ UNCHANGED <<sink, db>>
    \/ \E t \in Threads : Acquire(t)
    \/ \E t \in Threads : \E done \in Dones :
         \/ Appended(t, done) \/ SinkFailed(t, done) \/ FoundCorrupt(t)
         \/ /\ t \in {"main", "check"} /\ pc[t] \in {"publishInitial", "publish", "publishFinal"}
            /\ Published(t, done)
    \/ CreateSession \/ EndSession \/ Degrade

\* What every step does to the sink, its lock and its first error.
LEMMA SinkSteps ==
  ASSUME [Next]_vars
  PROVE  SinkStep
  <1> USE DEF SinkStep, Dones, Threads, At
  <1>1. CASE Prepare
    BY <1>1 DEF Prepare, AppendStep, SkipHook, CaptureInitial, Capture, PublishInitial,
       NotPublished, StoreEnvironment, Watch, Launch, Reconcile, Scan, ScanFailed, Publish,
       Artifacts, Done
  <1>2. CASE Start
    BY <1>2 DEF Start, Spawn, AppendProcessStarted, Reap, Enrich, EnrichFailed
  <1>3. CASE Attend \/ Join
    BY <1>3 DEF Attend, Wait, Finalize, Drain, Closed, Flush, Flushed, Join, StopAdapter,
       JoinTree, JoinCheck
  <1>4. CASE Close \/ Complete
    BY <1>4 DEF Close, CloseWatcher, DeferredStep, Exit, Decide, Complete, CaptureFinal, Capture,
       PublishFinal, NotPublished, FinalArtifacts, SampleEnd
  <1>5. CASE Pumps \/ Delivers
    BY <1>5 DEF Pumps, OutRead, OutAppend, OutEnds, OutBreaks, Delivers, InputDelivers,
       InputAppend, InputBreaks
  <1>6. CASE Monitors \/ Streams
    BY <1>6 DEF Monitors, TreeSelect, TreeAppend, Streams, AdapterEmits, AdapterAppend, AdapterEnds
  <1>7. CASE Watches
    BY <1>7 DEF Watches, CheckpointSelect, WatcherError, Reconcile, Scan, ScanFailed, Publish,
       NotPublished, Artifacts, Done
  <1>8. CASE Environment \/ UNCHANGED vars
    BY <1>8 DEF Environment, ChildWrites, ChildChanges, ChildExits, CallerCancels, Tick, vars,
       sink, db
  <1> QED
    BY <1>1, <1>2, <1>3, <1>4, <1>5, <1>6, <1>7, <1>8, Steps

\* Who changes what else.
OtherStep ==
    /\ opts' = opts
    /\ now' = now \/ Tick
    /\ cancelled' = cancelled \/ cancelled' = TRUE
    /\ killed' = killed \/ killed' = TRUE
    /\ child' = child \/ Spawn \/ ChildExits
    /\ workspace' = workspace \/ ChildChanges
    /\ out' = out \/ Flush \/ OutRead \/ OutAppend \/ ChildWrites
    /\ ended' = ended \/ SampleEnd
    /\ root' = root \/ \E t \in {"main", "check"} : root' = [root EXCEPT ![t] = workspace]
    /\ left' = left \/ (left > 0 /\ left' = left - 1)
    /\ trigger' \in {trigger, TRUE, FALSE, opts.watcher}
    /\ pos' = pos \/ Enrich \/ JoinCheck
       \/ \E t \in {"main", "check"} : \E done \in Dones : Published(t, done)

\* What every step does to what is not the sink.
LEMMA OtherSteps ==
  ASSUME [Next]_vars
  PROVE  OtherStep
  <1> USE DEF OtherStep, Dones, Threads, run, env, Cancel, KeepEnvBut
  <1>1. CASE Prepare
    BY <1>1 DEF Prepare, CreateSession, AppendStep, SkipHook, CaptureInitial, Capture, Found,
       PublishInitial, Published, StoreEnvironment, Watch, Launch, Reconcile, Scan, ScanFailed,
       Publish, Artifacts, GiveUp, Done
  <1>2. CASE Start
    BY <1>2 DEF Start, AppendProcessStarted, Reap, EnrichFailed, Enrich, Spawn
  <1>3. CASE Attend \/ Join
    BY <1>3 DEF Attend, Wait, Finalize, Drain, Closed, Flushed, SetCause, Join, StopAdapter,
       JoinTree, JoinCheck, Flush
  <1>4. CASE Close \/ Complete
    BY <1>4 DEF Close, CloseWatcher, DeferredStep, SetCause, Exit, Decide, Complete, CaptureFinal,
       Capture, Found, PublishFinal, Published, FinalArtifacts, SampleEnd, EndSession
  <1>5. CASE Pumps \/ Delivers
    BY <1>5 DEF Pumps, OutEnds, OutBreaks, Delivers, InputDelivers, InputAppend, InputBreaks, Emit,
       OutRead, OutAppend
  <1>6. CASE Monitors \/ Streams
    BY <1>6 DEF Monitors, TreeSelect, TreeAppend, Streams, AdapterEmits, AdapterAppend,
       AdapterEnds, Emit
  <1>7. CASE Watches
    BY <1>7 DEF Watches, CheckpointSelect, Emit, WatcherError, Reconcile, Scan, ScanFailed,
       Publish, Published, Artifacts, GiveUp, Done
  <1>8. CASE Environment
    BY <1>8 DEF Environment, CallerCancels, Degrade, ChildWrites, ChildChanges, ChildExits, Tick
  <1>9. CASE (\E t \in Threads : Acquire(t)) \/ UNCHANGED vars
    BY <1>9 DEF Acquire, vars
  <1> QED
    BY <1>1, <1>2, <1>3, <1>4, <1>5, <1>6, <1>7, <1>8, <1>9, Steps

---------------------------------------------------------------------------
(* Types.                                                                  *)

\* The parts of the type invariant that leaves cite.
LEMMA Types ==
  ASSUME TypeOK
  PROVE  /\ opts \in Options /\ opts.adapter \in {"none", "prompt", "deaf"}
         /\ pc \in [Threads -> Locations]
         /\ lock \in {Free} \cup [by : Threads, at : 0 .. MaxTime]
         /\ lock.by \in Threads \cup {"none"} /\ lock.at \in 0 .. MaxTime
         /\ lock.by \in Threads <=> lock # Free
         /\ lock # Free => Calls(lock.by)
         /\ last \in 0 .. MaxTime /\ ended \in 0 .. MaxTime /\ now \in 0 .. MaxTime
         /\ firstErr \in BOOLEAN /\ lost \in BOOLEAN /\ cause \in BOOLEAN
         /\ cancelled \in BOOLEAN /\ killed \in BOOLEAN /\ trigger \in BOOLEAN
         /\ log \subseteq Boundaries /\ states \in Seq(0 .. MaxWrites)
         /\ session \in {"absent", "recording", "completed", "aborted", "degraded"}
         /\ pos \in [{"main", "check"} -> 0 .. Len(states)]
         /\ root \in [{"main", "check"} -> 0 .. MaxWrites]
         /\ child \in {"none", "running", "success", "failure"}
         /\ workspace \in 0 .. MaxWrites
         /\ out \in [written : 0 .. MaxOut, captured : 0 .. MaxOut, recorded : 0 .. MaxOut]
         /\ out.recorded <= out.captured /\ out.captured <= out.written
         /\ left \in 0 .. MaxEmits
  BY RecorderAssumption DEF RecorderAssumption, Option, TypeOK, Free, Threads

\* The places where a thread calls the sink.
LEMMA SinkCallsAre ==
  SinkCalls = {"started", "hints", "environment", "git", "agentEnv", "unavailable", "opened",
     "publishInitial", "publish", "publishFinal", "scanFailed", "artifacts", "finalArtifacts",
     "processStarted", "enrich", "drain", "flush", "adapterError", "watcherError", "exited",
     "emit", "discovered", "summary"}
  BY DEF SinkCalls, After

\* The cause of an abort stays.
LEMMA CauseKeeps ==
  ASSUME TypeOK, [Next]_vars
  PROVE  cause' \in BOOLEAN /\ (cause => cause')
  <1> USE Types DEF run, SetCause
  <1>1. CASE Prepare
    BY <1>1 DEF Prepare, CreateSession, AppendStep, SkipHook, CaptureInitial, Capture,
       PublishInitial, Published, StoreEnvironment, Watch, Launch, Reconcile, Scan, ScanFailed,
       Publish, Artifacts
  <1>2. CASE Start
    BY <1>2 DEF Start, AppendProcessStarted, Reap, EnrichFailed, Enrich, Spawn
  <1>3. CASE Attend \/ Join
    BY <1>3 DEF Attend, Wait, Finalize, Drain, Closed, Flushed, ExecutionErr, Join, StopAdapter,
       JoinTree, JoinCheck, Flush
  <1>4. CASE Close \/ Complete
    BY <1>4 DEF Close, CloseWatcher, DeferredStep, Exit, Decide, Complete, CaptureFinal, Capture,
       PublishFinal, Published, FinalArtifacts, SampleEnd, EndSession
  <1>5. CASE Pumps \/ Delivers
    BY <1>5 DEF Pumps, OutEnds, OutBreaks, Delivers, InputDelivers, InputAppend, InputBreaks, Emit,
       OutRead, OutAppend
  <1>6. CASE Monitors \/ Streams
    BY <1>6 DEF Monitors, TreeSelect, TreeAppend, Streams, AdapterEmits, AdapterAppend,
       AdapterEnds, Emit
  <1>7. CASE Watches
    BY <1>7 DEF Watches, CheckpointSelect, Emit, WatcherError, Reconcile, Scan, ScanFailed,
       Publish, Published, Artifacts
  <1>8. CASE Environment
    BY <1>8 DEF Environment, CallerCancels, Degrade, ChildWrites, ChildChanges, ChildExits, Tick
  <1>9. CASE (\E t \in Threads : Acquire(t)) \/ UNCHANGED vars
    BY <1>9 DEF Acquire, vars
  <1> QED
    BY <1>1, <1>2, <1>3, <1>4, <1>5, <1>6, <1>7, <1>8, <1>9, Steps

\* One thread moves, but for those it starts; and one that has the mutex does
\* nothing but use it.
Only(t) ==
    /\ \A u \in Threads \ {t} : pc[u] = "off" \/ pc'[u] = pc[u]
    /\ lock' = Free \/ Acquire(t) \/ lock.by # t \/ (lock' = lock /\ pc'[t] = pc[t])

\* A step moves one thread at most.
LEMMA OneMoves ==
  ASSUME TypeOK, Control, [Next]_vars
  PROVE  \E t \in Threads : Only(t)
  <1>c. lock.by \in Threads => pc[lock.by] \in SinkCalls
    BY Types DEF Calls
  <1>p. pc \in [Threads -> Locations]
    BY Types
  <1> USE <1>p, <1>c, SinkCallsAre DEF Threads, At, Goto, sink, Only, Appended, Accepted, SinkFailed
  <1>1. CASE Prepare
    <2>1. CASE AppendStep \/ SkipHook
      BY <2>1 DEF AppendStep, SkipHook
    <2>2. CASE CreateSession \/ CaptureInitial \/ StoreEnvironment \/ Watch \/ Launch
      BY <2>2 DEF CreateSession, CaptureInitial, Capture, StoreEnvironment, Watch, Launch
    <2>3. CASE PublishInitial
      BY <2>3 DEF PublishInitial, Published, NotPublished, FoundCorrupt
    <2>4. CASE Reconcile("main")
      BY <2>4 DEF Reconcile, Scan, ScanFailed, Publish, Published, NotPublished, FoundCorrupt,
         Artifacts, GiveUp
    <2> QED  BY <1>1, <2>1, <2>2, <2>3, <2>4 DEF Prepare
  <1>2. CASE Start
    <2> USE DEF Control, Unstarted, MainIn, Starting
    <2>1. CASE AppendProcessStarted
      BY <2>1 DEF AppendProcessStarted, Started
    <2>3. CASE Reap \/ Spawn
      BY <2>3 DEF Reap, Spawn, Preparing
    <2>2. CASE Enrich \/ EnrichFailed
      BY <2>2 DEF Enrich, Watched, EnrichFailed
    <2> QED  BY <1>2, <2>1, <2>2, <2>3 DEF Start
  <1>3. CASE Attend
    BY <1>3 DEF Attend, Wait, Finalize, Drain, Closed, Flush, Flushed
  <1>4. CASE Join
    BY <1>4 DEF Join, StopAdapter, JoinTree, JoinCheck
  <1>5. CASE Close
    BY <1>5 DEF Close, CloseWatcher, DeferredStep, Exit, Decide
  <1>6. CASE Complete
    <2>1. CASE PublishFinal
      BY <2>1 DEF PublishFinal, Published, NotPublished, FoundCorrupt
    <2>2. CASE SampleEnd
      BY <2>2 DEF SampleEnd
    <2> QED
      BY <1>6, <2>1, <2>2 DEF Complete, CaptureFinal, Capture, FinalArtifacts, EndSession
  <1>7. CASE Pumps
    BY <1>7 DEF Pumps, OutRead, OutAppend, OutEnds, OutBreaks
  <1>8. CASE Delivers
    BY <1>8 DEF Delivers, InputDelivers, InputAppend, InputBreaks
  <1>9. CASE Monitors
    BY <1>9 DEF Monitors, TreeSelect, TreeAppend
  <1>10. CASE Watches
    BY <1>10 DEF Watches, CheckpointSelect, WatcherError, Reconcile, Scan, ScanFailed, Publish,
       Published, NotPublished, FoundCorrupt, Artifacts, GiveUp
  <1>11. CASE Streams
    BY <1>11 DEF Streams, AdapterEmits, AdapterAppend, AdapterEnds
  <1>12. CASE \E t \in Threads : Acquire(t)
    BY <1>12 DEF Acquire
  <1>13. CASE Environment \/ UNCHANGED vars
    BY <1>13 DEF Environment, ChildWrites, ChildChanges, ChildExits, CallerCancels, Degrade, Tick,
       vars
  <1> QED
    BY <1>1, <1>2, <1>3, <1>4, <1>5, <1>6, <1>7, <1>8, <1>9, <1>10, <1>11, <1>12, <1>13, Steps

\* The holder of the mutex is still at its call of the sink.
LEMMA HolderKeeps ==
  ASSUME TypeOK, Control, [Next]_vars
  PROVE  /\ lock' \in {Free} \cup [by : Threads, at : 0 .. MaxTime]
         /\ (lock # Free => Calls(lock.by))'
  <1> USE Types
  <1>1. PICK t \in Threads : Only(t)
    BY OneMoves
  <1>2. CASE \E u \in Threads : Acquire(u)
    BY <1>2, SinkCallsAre, LocationsAre DEF Acquire, Calls, run, env
  <1>3. CASE lock' = Free
    BY <1>3
  <1>4. CASE lock' = lock
    <2>1. ASSUME NEW h \in Threads, lock.by = h, lock # Free
          PROVE  Calls(h)'
      <3>1. Calls(h) /\ pc[h] # "off"
        BY <2>1, SinkCallsAre DEF Calls
      <3>2. pc'[h] = pc[h]
        BY <1>1, <1>4, <2>1, <3>1 DEF Only, Free, Acquire
      <3>3. CASE pc[h] # "flush"
        BY <3>1, <3>2, <3>3, OtherSteps DEF Calls, OtherStep
      <3>4. CASE pc[h] = "flush"
        <4>1. h = "main" /\ pc["out"] \in Gone /\ child # "running"
          BY <3>4, Types DEF Threads, Control, Places, Joins, MainIn, Exited, Attending
        <4>2. ~Flush
          BY <3>2, <3>4, <4>1 DEF Flush, Goto, At
        <4>3. out' = out
          BY <4>1, <4>2, OtherSteps DEF OtherStep, OutRead, OutAppend, ChildWrites, At, Gone
        <4> QED  BY <3>1, <3>2, <4>3, OtherSteps DEF Calls, OtherStep
      <3> QED  BY <3>3, <3>4
    <2> QED  BY <2>1, <1>4
  <1>5. (\E u \in Threads : Acquire(u)) \/ lock' = Free \/ lock' = lock
    BY SinkSteps DEF SinkStep, sink, Appended, Accepted, SinkFailed, FoundCorrupt, Published,
       CreateSession, EndSession, Degrade
  <1> QED  BY <1>2, <1>3, <1>4, <1>5

\* Times and counters stay within their bounds.
LEMMA NumbersKeep ==
  ASSUME TypeOK, [Next]_vars
  PROVE  /\ last' \in 0 .. MaxTime /\ ended' \in 0 .. MaxTime /\ now' \in 0 .. MaxTime
         /\ workspace' \in 0 .. MaxWrites /\ left' \in 0 .. MaxEmits
         /\ root' \in [{"main", "check"} -> 0 .. MaxWrites]
  <1> USE Types, RecorderAssumption DEF RecorderAssumption
  <1>1. last' \in 0 .. MaxTime
    BY SinkSteps DEF SinkStep, sink, db, Acquire, Appended, Accepted, SinkFailed, FoundCorrupt,
       Published, CreateSession, EndSession, Degrade
  <1>2. ended' \in 0 .. MaxTime
    BY OtherSteps DEF OtherStep, SampleEnd
  <1>3. now' \in 0 .. MaxTime
    <2>1. now' = now \/ (now < MaxTime /\ now' = now + 1)
      BY OtherSteps DEF OtherStep, Tick
    <2> QED  BY <2>1
  <1>4. workspace' \in 0 .. MaxWrites
    <2>1. workspace' = workspace \/ (workspace < MaxWrites /\ workspace' = workspace + 1)
      BY OtherSteps DEF OtherStep, ChildChanges
    <2> QED  BY <2>1
  <1>5. left' \in 0 .. MaxEmits
    <2>1. left' = left \/ (left > 0 /\ left' = left - 1)
      BY OtherSteps DEF OtherStep
    <2> QED  BY <2>1
  <1>6. root' \in [{"main", "check"} -> 0 .. MaxWrites]
    <2>1. root' = root \/ \E t \in {"main", "check"} : root' = [root EXCEPT ![t] = workspace]
      BY OtherSteps DEF OtherStep
    <2> QED  BY <2>1
  <1> QED  BY <1>1, <1>2, <1>3, <1>4, <1>5, <1>6

\* Flags and states stay of their types.
LEMMA FlagsKeep ==
  ASSUME TypeOK, [Next]_vars
  PROVE  /\ firstErr' \in BOOLEAN /\ lost' \in BOOLEAN /\ cancelled' \in BOOLEAN
         /\ killed' \in BOOLEAN /\ trigger' \in BOOLEAN
         /\ session' \in {"absent", "recording", "completed", "aborted", "degraded"}
         /\ child' \in {"none", "running", "success", "failure"}
         /\ log' \subseteq Boundaries
  <1> USE Types
  <1>1. firstErr' \in BOOLEAN /\ lost' \in BOOLEAN
    BY SinkSteps DEF SinkStep, sink, Acquire, Appended, Accepted, SinkFailed, FoundCorrupt,
       Published, Stick, CreateSession, EndSession, Degrade
  <1>2. log' \subseteq Boundaries
    BY SinkSteps DEF SinkStep, db, Acquire, Appended, SinkFailed, FoundCorrupt, Published,
       CreateSession, EndSession, Degrade
  <1>3. session' \in {"absent", "recording", "completed", "aborted", "degraded"}
    BY SinkSteps DEF SinkStep, db, Acquire, Appended, SinkFailed, FoundCorrupt, Published,
       CreateSession, EndSession, Degrade
  <1>4. child' \in {"none", "running", "success", "failure"}
    BY OtherSteps DEF OtherStep, Spawn, ChildExits
  <1>5. cancelled' \in BOOLEAN /\ killed' \in BOOLEAN /\ trigger' \in BOOLEAN
    BY RecorderAssumption, OtherSteps DEF OtherStep, RecorderAssumption, Option
  <1> QED  BY <1>1, <1>2, <1>3, <1>4, <1>5

\* No more output is recorded than was read, nor read than was written.
LEMMA OutKeeps ==
  ASSUME TypeOK, [Next]_vars
  PROVE  /\ out' \in [written : 0 .. MaxOut, captured : 0 .. MaxOut, recorded : 0 .. MaxOut]
         /\ (out.recorded <= out.captured /\ out.captured <= out.written)'
  <1> USE Types, RecorderAssumption DEF RecorderAssumption
  <1>1. \/ out' = out \/ RecordOutput
        \/ out.captured < out.written /\ out' = [out EXCEPT !.captured = @ + 1]
        \/ out.written < MaxOut /\ out' = [out EXCEPT !.written = @ + 1]
    BY OtherSteps DEF OtherStep, Flush, OutRead, OutAppend, ChildWrites
  <1>2. PICK w \in 0 .. MaxOut, c \in 0 .. MaxOut, r \in 0 .. MaxOut :
          out = [written |-> w, captured |-> c, recorded |-> r]
    <2>1. out \in [written : 0 .. MaxOut, captured : 0 .. MaxOut, recorded : 0 .. MaxOut]
      OBVIOUS
    <2> HIDE Types
    <2> QED  BY <2>1
  <1>3. r <= c /\ c <= w
    BY <1>2
  <1>4. \/ out' = out \/ out' = [written |-> w, captured |-> c, recorded |-> c]
        \/ c < w /\ out' = [written |-> w, captured |-> c + 1, recorded |-> r]
        \/ w < MaxOut /\ out' = [written |-> w + 1, captured |-> c, recorded |-> r]
    BY <1>1, <1>2 DEF RecordOutput
  <1> HIDE Types
  <1>5. \E x \in 0 .. MaxOut, y \in 0 .. MaxOut, z \in 0 .. MaxOut :
          out' = [written |-> x, captured |-> y, recorded |-> z] /\ z <= y /\ y <= x
    BY <1>2, <1>3, <1>4
  <1> QED  BY <1>5

\* Positions point into the chain of published states.
LEMMA StatesKeep ==
  ASSUME TypeOK, Control, [Next]_vars
  PROVE  /\ states' \in Seq(0 .. MaxWrites)
         /\ pos' \in [{"main", "check"} -> 0 .. Len(states')]
  <1> USE Types
  <1>1. CASE \E t \in {"main", "check"} : \E done \in Dones : Published(t, done)
    BY <1>1 DEF Published
  <1>2. CASE ~\E t \in {"main", "check"} : \E done \in Dones : Published(t, done)
    <2>1. states' = states
      BY <1>2, SinkSteps DEF SinkStep, db, Acquire, Appended, SinkFailed, FoundCorrupt,
         CreateSession, EndSession, Degrade
    <2>2. pos' = pos \/ Enrich \/ JoinCheck
      BY <1>2, OtherSteps DEF OtherStep
    <2> QED  BY <2>1, <2>2 DEF Enrich, JoinCheck, TakePosition
  <1> QED  BY <1>1, <1>2

\* The type invariant is inductive, given Control.
LEMMA TypeKeeps ==
  ASSUME TypeOK, Control, [Next]_vars
  PROVE  TypeOK'
  <1>1. opts' \in Options /\ pc' \in [Threads -> Locations]
    BY Types, OtherSteps, ControlKeeps DEF OtherStep, Control, Places
  <1> QED
    BY <1>1, HolderKeeps, NumbersKeep, FlagsKeep, CauseKeeps, OutKeeps, StatesKeep DEF TypeOK

---------------------------------------------------------------------------
(* The way of Run.                                                         *)

Enters(S) == MainIn(S)' /\ ~MainIn(S)

\* Where Run can come from, and by which of its steps.
Way ==
    /\ MainIn({"create"} \cup Over) => pc'["main"] = pc["main"] \/ CreateSession
    /\ Enters({"unrecorded"}) => CreateSession
    /\ Enters({"returned", "refused", "failed"}) => EndSession
    /\ ~Enters({"create"}) /\ ~Enters(Preparing)
    /\ Enters({"processStarted"}) => MainIn(Preparing)
    /\ Enters({"reap"}) \/ Enters({"enrich"}) => AppendProcessStarted
    /\ Enters(Attending \cup Joining) => Enrich \/ EnrichFailed
    /\ Enters({"closing"}) => Drain
    /\ Enters({"flushed"}) => Flush
    /\ Enters(Joining) => Flushed
    /\ Enters(Closing) => JoinCheck
    /\ Enters({"exited"}) => Exit
    /\ Enters({"decide"}) => DeferredStep /\ At("main", "exited")
    /\ Enters(Completing) => Decide
    /\ Enters({"publishFinal"}) => CaptureFinal
    /\ Enters({"finalArtifacts", "complete", "completing"}) => PublishFinal
    /\ Enters({"completing"}) => SampleEnd /\ At("main", "complete")
    /\ Enters({"aborting"}) => SampleEnd /\ At("main", "abort")

\* The way Run goes from the start of the child to the end of the session.
LEMMA RunsWay ==
  ASSUME Control, [Next]_vars
  PROVE  Way
  <1> USE DEF Control, Places, Threads, Way, Enters, MainIn, At, Goto, Over, Preparing, Starting,
       Attending, Joining, Closing, Completing, Aborting, Leaving
  <1>1. CASE Prepare
    <2>1. CASE Reconcile("main")
      BY <2>1 DEF Reconcile, Scan, ScanFailed, Publish, Artifacts, Home, GiveUp
    <2>2. CASE AppendStep \/ SkipHook
      BY <2>2 DEF AppendStep, SkipHook, After
    <2> QED
      BY <1>1, <2>1, <2>2 DEF Prepare, CreateSession, CaptureInitial, Capture, PublishInitial,
         StoreEnvironment, Watch, Launch
  <1>2. CASE Start
    BY <1>2 DEF Start, Spawn, AppendProcessStarted, Started, AfterKill, Reap, Enrich, Watched,
       EnrichFailed
  <1>3. CASE Attend
    BY <1>3 DEF Attend, Wait, Finalize, AtGrace, Drain, Closed, Flush, Flushed
  <1>4. CASE Join
    BY <1>4 DEF Join, StopAdapter, JoinTree, JoinCheck
  <1>5. CASE Close
    BY <1>5, DeferredMoves DEF Close, CloseWatcher, Exit, Decide
  <1>6. CASE Complete
    BY <1>6 DEF Complete, CaptureFinal, Capture, PublishFinal, FinalArtifacts, SampleEnd, EndSession
  <1>7. CASE pc'["main"] = pc["main"]
    BY <1>7
  <1>8. CASE Pumps \/ Delivers \/ Monitors \/ Streams
    BY <1>7, <1>8 DEF Pumps, OutRead, OutAppend, OutEnds, OutBreaks, Delivers, InputDelivers,
       InputAppend, InputBreaks, Monitors, TreeSelect, TreeAppend, Streams, AdapterEmits,
       AdapterAppend, AdapterEnds
  <1>9. CASE Watches
    BY <1>7, <1>9 DEF Watches, CheckpointSelect, WatcherError, Reconcile, Scan, ScanFailed,
       Publish, Artifacts, GiveUp
  <1>10. CASE (\E t \in Threads : Acquire(t)) \/ Environment \/ UNCHANGED vars
    BY <1>7, <1>10 DEF Acquire, Environment, ChildWrites, ChildChanges, ChildExits, CallerCancels,
       Degrade, Tick, vars
  <1> QED
    BY <1>1, <1>2, <1>3, <1>4, <1>5, <1>6, <1>8, <1>9, <1>10, Steps

\* SinkInv is inductive.
LEMMA SinkKeeps ==
  ASSUME TypeOK, Control, SinkInv, [Next]_vars
  PROVE  SinkInv'
  <1> USE Types DEF SinkInv
  <1>1. (firstErr => lock = Free)' /\ (lost => firstErr)'
    <2>1. \/ UNCHANGED sink
          \/ ~firstErr /\ UNCHANGED <<firstErr, lost>>
          \/ lock' = Free /\ (UNCHANGED <<firstErr, lost>> \/ firstErr' = TRUE)
          \/ lock' = lock /\ firstErr' = firstErr /\ firstErr = TRUE
      BY SinkSteps DEF SinkStep, Acquire, Appended, Accepted, SinkFailed, FoundCorrupt,
         Published, Stick, CreateSession, EndSession, Degrade, sink
    <2> QED  BY <2>1 DEF sink
  <1>2. (lock.at <= now)' /\ (ended <= now)' /\ (last <= now)'
    <2>1. now' = now \/ now' = now + 1
      BY OtherSteps DEF OtherStep, Tick
    <2>2. ended' = ended \/ ended' = now
      BY OtherSteps DEF OtherStep, SampleEnd
    <2>3. lock'.at \in {lock.at, 0, now}
      BY SinkSteps DEF SinkStep, sink, Acquire, Appended, Accepted, SinkFailed, FoundCorrupt,
         Published, CreateSession, EndSession, Degrade, Free
    <2>4. last' \in {last, lock.at, ended}
      BY SinkSteps DEF SinkStep, db, Acquire, Appended, Accepted, SinkFailed, FoundCorrupt,
         Published, CreateSession, EndSession, Degrade
    <2>5. /\ now \in Nat /\ ended \in Nat /\ lock.at \in Nat /\ last \in Nat
          /\ lock.at <= now /\ ended <= now /\ last <= now
      BY RecorderAssumption DEF RecorderAssumption
    <2> HIDE Types DEF SinkInv
    <2> QED  BY <2>1, <2>2, <2>3, <2>4, <2>5
  <1>4. /\ (MainIn({"create", "unrecorded"}) => session = "absent")'
        /\ (session = "absent" => MainIn({"create", "unrecorded"}) /\ states = <<>>)'
        /\ (session \in {"completed", "aborted"} => MainIn({"returned"}))'
    <2>1. CASE CreateSession
      BY <2>1 DEF CreateSession, MainIn, At, Goto, Control, Places, Threads
    <2>2. CASE EndSession
      BY <2>2 DEF EndSession, MainIn, At, Goto, Control, Places, Threads
    <2>3. CASE ~CreateSession /\ ~EndSession
      <3>1. /\ session' = session \/ (session = "recording" /\ session' = "degraded")
            /\ session = "absent" => states' = states
        BY <2>3, SinkSteps DEF SinkStep, db, Acquire, Appended, Accepted, SinkFailed, FoundCorrupt,
           Published, Degrade
      <3>2. /\ MainIn({"create"} \cup Over) => pc'["main"] = pc["main"]
            /\ ~Enters({"create"}) /\ ~Enters({"unrecorded"})
        BY <2>3, RunsWay DEF Way
      <3> QED  BY <3>1, <3>2 DEF MainIn, Enters, Over
    <2> QED  BY <2>1, <2>2, <2>3
  <1> QED  BY <1>1, <1>2, <1>4

\* Goroutines that have returned, and what only one step can do.
Rest ==
    /\ \A t \in {"out", "tree", "check"} : pc[t] \in {"done", "broken", "failed"} => pc'[t] = pc[t]
    /\ pc["check"] = "off" => pc'["check"] = "off" \/ Enrich
    /\ pc'["out"] = "done" => pc["out"] = "done" \/ OutEnds
    /\ MainIn({"decide"} \cup Leaving) => MainIn({"decide"} \cup Leaving)'

\* Every step is like this.
LEMMA RestSteps ==
  ASSUME Control, [Next]_vars
  PROVE  Rest
  <1> USE DEF Control, Places, Threads, Rest, MainIn, At, Goto, Over, Completing, Aborting, Leaving
  <1>1. CASE Prepare
    BY <1>1 DEF Prepare, AppendStep, SkipHook, CreateSession, CaptureInitial, Capture,
       PublishInitial, StoreEnvironment, Watch, Launch, Reconcile, Scan, ScanFailed, Publish,
       Artifacts, Home, GiveUp, After
  <1>2. CASE Start
    BY <1>2 DEF Start, Spawn, BeforeGate, AppendProcessStarted, Started, AfterKill, Reap, Enrich,
       Watched, EnrichFailed, Unstarted, Starting, Preparing
  <1>3. CASE Attend
    BY <1>3 DEF Attend, Wait, Finalize, AtGrace, Drain, Closed, Flush, Flushed
  <1>4. CASE Join
    BY <1>4 DEF Join, StopAdapter, JoinTree, JoinCheck
  <1>5. CASE Close
    BY <1>5, DeferredMoves DEF Close, CloseWatcher, Exit, Decide
  <1>6. CASE Complete
    BY <1>6 DEF Complete, CaptureFinal, Capture, PublishFinal, FinalArtifacts, SampleEnd, EndSession
  <1>7. CASE Pumps \/ Delivers
    BY <1>7 DEF Pumps, OutRead, OutAppend, OutEnds, OutBreaks, Delivers, InputDelivers,
       InputAppend, InputBreaks
  <1>8. CASE Monitors \/ Streams
    BY <1>8 DEF Monitors, TreeSelect, TreeAppend, Streams, AdapterEmits, AdapterAppend, AdapterEnds
  <1>9. CASE Watches
    BY <1>9 DEF Watches, CheckpointSelect, WatcherError, Reconcile, Scan, ScanFailed,
       Publish, Artifacts, GiveUp
  <1>10. CASE (\E t \in Threads : Acquire(t)) \/ Environment \/ UNCHANGED vars
    BY <1>10 DEF Acquire, Environment, ChildWrites, ChildChanges, ChildExits, CallerCancels,
       Degrade, Tick, vars
  <1> QED
    BY <1>1, <1>2, <1>3, <1>4, <1>5, <1>6, <1>7, <1>8, <1>9, <1>10, Steps

\* Nothing is forgotten.
LEMMA Monotone ==
  ASSUME TypeOK, SinkInv, Control, [Next]_vars
  PROVE  /\ log \subseteq log' /\ (firstErr => firstErr') /\ (cause => cause')
         /\ (cancelled => cancelled') /\ opts' = opts
         /\ Exited => child' = child
         /\ ~MainIn(Preparing) /\ child # "running" => child' = child
  <1>1. log \subseteq log'
    BY SinkSteps DEF SinkStep, db, Acquire, Appended, SinkFailed, FoundCorrupt, Published,
       CreateSession, EndSession, Degrade
  <1>2. firstErr => firstErr'
    BY SinkSteps, Types DEF SinkStep, sink, Acquire, Appended, Accepted, SinkFailed, FoundCorrupt,
       Published, Stick, CreateSession, EndSession, Degrade
  <1>3. opts' = opts /\ (cancelled => cancelled')
    <2>1. opts' = opts /\ (cancelled' = cancelled \/ cancelled' = TRUE)
      BY OtherSteps DEF OtherStep
    <2>2. cancelled \in BOOLEAN /\ cancelled' \in BOOLEAN
      BY Types, FlagsKeep
    <2> QED  BY <2>1, <2>2
  <1>4. child' = child \/ (MainIn(Preparing) /\ At("main", "spawn")) \/ child = "running"
    BY OtherSteps DEF OtherStep, Spawn, ChildExits, MainIn, At, Preparing
  <1>5. MainIn(Preparing) => child = "none"
    BY DEF Control, Unstarted
  <1> QED  BY <1>1, <1>2, <1>3, <1>4, <1>5, CauseKeeps DEF Exited

\* Only a thread at its call of the sink uses it.
LEMMA SinkUsers ==
  ASSUME TypeOK, [Next]_vars
  PROVE  \/ UNCHANGED <<sink, db>>
         \/ \E t \in Threads : Acquire(t)
         \/ \E t \in Threads : \E done \in Dones :
              /\ pc[t] \in SinkCalls
              /\ \/ (Appended(t, done) /\ lock.by = t) \/ SinkFailed(t, done) \/ FoundCorrupt(t)
                 \/ /\ t \in {"main", "check"}
                    /\ pc[t] \in {"publishInitial", "publish", "publishFinal"}
                    /\ Published(t, done)
         \/ CreateSession \/ EndSession \/ Degrade
  <1>1. \A t \in Threads : lock.by = t => pc[t] \in SinkCalls
    BY Types DEF Calls
  <1>2. ASSUME NEW t \in Threads, NEW done \in Dones,
               Appended(t, done) \/ SinkFailed(t, done) \/ FoundCorrupt(t) \/ Published(t, done)
        PROVE  pc[t] \in SinkCalls
    BY <1>1, <1>2 DEF Appended, Published, Accepted, SinkFailed, FoundCorrupt, Calls
  <1> QED  BY <1>2, SinkSteps DEF SinkStep, Appended, Accepted

\* Owned is inductive.
LEMMA OwnedKeeps ==
  ASSUME TypeOK, Control, Control', Owned, [Next]_vars
  PROVE  Owned'
  <1> USE Types
  <1>o. opts' = opts
    BY OtherSteps DEF OtherStep
  <1>1. ASSUME NEW done \in Dones, Published("main", done),
               pc["main"] \in {"publishInitial", "publish", "publishFinal"}
        PROVE  Owned'
    <2>1. pos'["main"] = Len(states')
      BY <1>1 DEF Published
    <2>2. ~MainIn(Attending \cup Joining)'
      BY <1>1, RunsWay DEF Way, Enters, MainIn, Attending, Joining, Enrich, EnrichFailed, At
    <2> QED  BY <2>1, <2>2 DEF Owned, MainIn
  <1>2. ASSUME NEW done \in Dones, Published("check", done), pc["check"] = "publish"
        PROVE  Owned'
    <2>1. pos'["check"] = Len(states')
      BY <1>2 DEF Published
    <2>2. MainIn(Attending \cup Joining) /\ ~JoinCheck /\ opts.watcher
      BY <1>2 DEF Control, Places, Unstarted, Joins, MainIn, JoinCheck, Joined, Gone
    <2>3. /\ ~MainIn(Preparing)' /\ ~MainIn({"processStarted"})' /\ ~MainIn({"enrich"})'
          /\ ~MainIn(Closing)' /\ ~MainIn(Completing)'
      <3>1. /\ ~Enters(Preparing) /\ ~Enters({"processStarted"}) /\ ~Enters({"reap"})
            /\ ~Enters({"enrich"})
            /\ ~Enters(Closing) /\ ~Enters(Completing)
        BY <2>2, RunsWay
           DEF Way, MainIn, AppendProcessStarted, Decide, At, Attending, Joining, Preparing
      <3> QED
        BY <2>2, <3>1 DEF Enters, MainIn, Attending, Joining, Preparing, Closing, Completing
    <2> QED  BY <1>o, <2>1, <2>2, <2>3 DEF Owned, MainIn
  <1>3. CASE Enrich
    <2>1. states' = states /\ pos' = [pos EXCEPT !["check"] = pos["main"]]
          /\ pc["main"] = "enrich" /\ pc'["main"] = "wait"
      BY <1>3 DEF Enrich, Watched, db, Appended, At, Threads
    <2> QED
      BY <2>1 DEF Owned, MainIn, Preparing, Closing, Completing, Attending, Joining
  <1>4. CASE JoinCheck
    <2>1. /\ states' = states /\ pos' = TakePosition
          /\ pc["main"] = "joinCheck" /\ pc'["main"] = "closeWatcher"
      BY <1>4 DEF JoinCheck, db, At, Goto, Threads
    <2>2. opts.watcher => pc["check"] # "off"
      BY <2>1 DEF Control, StartedAll, MainIn, Joining, Attending
    <2> QED
      BY <2>1, <2>2 DEF TakePosition, Owned, MainIn, Preparing, Closing, Completing, Attending,
         Joining
  <1>5. CASE states' = states /\ pos' = pos /\ ~Enrich /\ ~JoinCheck
    <2> USE DEF Owned, MainIn, Enters
    <2>1. MainIn(Preparing \cup {"processStarted", "enrich"} \cup Closing \cup Completing)'
          => MainIn(Preparing \cup {"processStarted", "enrich"} \cup Closing \cup Completing)
      BY <1>5, RunsWay DEF Way, AppendProcessStarted, Decide, At, Closing, Preparing
    <2>2. MainIn(Attending \cup Joining)'
          => MainIn(Attending \cup Joining) \/ pc["main"] = "enrich"
      BY <1>5, RunsWay DEF Way, EnrichFailed, At
    <2>3. pc["main"] = "enrich" => pc["check"] = "off"
      BY DEF Control, Unstarted, Starting
    <2>4. pc["check"] = "off" => pc'["check"] = "off"
      BY <1>5, RestSteps DEF Rest
    <2>5. (MainIn(Preparing \cup {"processStarted", "enrich"} \cup Closing) => pos["main"] = Len(states))'
          /\ (MainIn(Completing) => pos["main"] = Len(states))'
      BY <1>5, <2>1
    <2>6. /\ (MainIn(Attending \cup Joining) /\ ~opts.watcher => pos["main"] = Len(states))'
          /\ (MainIn(Attending \cup Joining) /\ pc["check"] # "off" => pos["check"] = Len(states))'
      BY <1>5, <1>o, <2>2, <2>3, <2>4
    <2> QED  BY <2>5, <2>6
  <1>6. \/ states' = states
        \/ \E t \in {"main", "check"} : \E done \in Dones :
             pc[t] \in {"publishInitial", "publish", "publishFinal"} /\ Published(t, done)
    BY SinkSteps DEF SinkStep, db, Acquire, Appended, SinkFailed, FoundCorrupt, CreateSession,
       EndSession, Degrade
  <1>7. ASSUME NEW t \in {"main", "check"}, NEW done \in Dones, Published(t, done)
        PROVE  states' # states
    <2>1. states' = Append(states, root[t]) /\ root[t] \in 0 .. MaxWrites
      BY <1>7 DEF Published
    <2>2. Len(states') = Len(states) + 1 /\ Len(states) \in Nat
      BY <2>1
    <2> HIDE Types
    <2> QED  BY <2>2
  <1>8. states' = states => pos' = pos \/ Enrich \/ JoinCheck
    BY <1>7, OtherSteps DEF OtherStep
  <1>9. pc["check"] \in {"publishInitial", "publish", "publishFinal"} => pc["check"] = "publish"
    BY DEF Control, Places
  <1> QED  BY <1>1, <1>2, <1>3, <1>4, <1>5, <1>6, <1>8, <1>9

\* process.exited is appended by one step.
LEMMA ExitedOnce ==
  ASSUME TypeOK, Control, [Next]_vars
  PROVE  "exited" \in log' => "exited" \in log \/ (DeferredStep /\ At("main", "exited"))
  <1> SUFFICES ASSUME "exited" \in log', "exited" \notin log
               PROVE  DeferredStep /\ At("main", "exited")
    OBVIOUS
  <1>1. PICK t \in Threads : \E done \in Dones :
          Appended(t, done) /\ lock.by = t /\ pc[t] = "exited"
    BY SinkUsers DEF db, Acquire, Appended, SinkFailed, FoundCorrupt, Published,
       CreateSession, EndSession, Degrade
  <1>2. t = "main"
    BY <1>1 DEF Control, Places, Threads
  <1>4. ~Prepare /\ ~Start /\ ~Attend /\ ~Join /\ ~Complete
    BY <1>1, <1>2 DEF Prepare, CreateSession, AppendStep, After, SkipHook, CaptureInitial, Capture,
       PublishInitial, StoreEnvironment, Watch, Launch, Reconcile, Scan, ScanFailed, Publish,
       Artifacts, Start, Spawn, AppendProcessStarted, Reap, Enrich, EnrichFailed, Attend, Wait,
       Finalize, Drain, Closed, Flush, Flushed, Join, StopAdapter, JoinTree, JoinCheck, Complete,
       CaptureFinal, PublishFinal, FinalArtifacts, SampleEnd, EndSession, At
  <1>5. ~Pumps /\ ~Delivers /\ ~Monitors /\ ~Watches /\ ~Streams
    BY <1>1, <1>2, Types DEF Pumps, OutRead, OutAppend, OutEnds, OutBreaks, Delivers,
       InputDelivers, InputAppend, InputBreaks, Monitors, TreeSelect, TreeAppend, Watches,
       CheckpointSelect, WatcherError, Reconcile, Scan, ScanFailed, Publish, Artifacts,
       Streams, AdapterEmits, AdapterAppend, AdapterEnds, db, Appended, Accepted, Published,
       SinkFailed, FoundCorrupt, NotPublished
  <1>6. Close
    BY <1>4, <1>5, Steps DEF Acquire, Environment, ChildWrites, ChildChanges, ChildExits,
       CallerCancels, Degrade, Tick, vars, db
  <1> QED
    BY <1>1, <1>2, <1>6 DEF Close, CloseWatcher, Exit, Decide, db, At

\* Bounded is inductive.
LEMMA BoundedKeeps ==
  ASSUME TypeOK, Control, SinkInv, Bounded, [Next]_vars
  PROVE  Bounded'
  <1>m. /\ log \subseteq log' /\ (firstErr => firstErr') /\ (Exited => child' = child)
    BY Monotone
  <1>w. Way /\ Rest
    BY RunsWay, RestSteps
  <1>1. (MainIn({"enrich"} \cup Attending \cup Joining \cup Closing \cup Completing) =>
           "processStarted" \in log)'
    <2>1. Enters({"enrich"}) => "processStarted" \in log'
      BY <1>w, Types DEF Way, AppendProcessStarted, Appended, At, Boundaries, Enters, MainIn,
         AfterKill, Threads
    <2>2. \/ Enters({"enrich"})
          \/ MainIn({"enrich"} \cup Attending \cup Joining \cup Closing \cup Completing)
          \/ ~MainIn({"enrich"} \cup Attending \cup Joining \cup Closing \cup Completing)'
      BY <1>w DEF Way, Enters, MainIn, Enrich, EnrichFailed, JoinCheck, Decide, At, Joining, Closing
    <2> QED  BY <1>m, <2>1, <2>2 DEF Bounded
  <1>2. (MainIn({"reap"}) => firstErr)'
    <2>1. Enters({"reap"}) => firstErr'
      BY <1>w, Types DEF Way, AppendProcessStarted, Started, SinkFailed, Stick, Enters, MainIn,
         Threads
    <2> QED  BY <1>m, <2>1 DEF Bounded, Enters
  <1>3. (out.recorded > 0 \/ log \cap {"discovered", "summary"} # {} => "processStarted" \in log)'
    <2>1. \/ pc["out"] = "emit" /\ ~MainIn({"reap"})
          \/ pc["tree"] \in {"discovered", "summary"} \/ MainIn({"flush"})
          => "processStarted" \in log
      BY DEF Control, Places, Unstarted, Joins, MainIn, Starting, Preparing, Attending, Joining,
         Closing, Completing, Aborting, Leaving, Gone, Bounded
    <2>2. \/ out'.recorded = out.recorded \/ MainIn({"flush"})
          \/ pc["out"] = "emit" /\ lock.by = "out"
      BY OtherSteps, Types DEF OtherStep, Flush, OutRead, OutAppend, Appended, Accepted,
         ChildWrites, At, MainIn
    <2>3. \/ log' \cap {"discovered", "summary"} = log \cap {"discovered", "summary"}
          \/ \E t \in Threads : lock.by = t /\ pc[t] \in {"discovered", "summary"}
      BY SinkSteps DEF SinkStep, db, Acquire, Appended, Accepted, SinkFailed, FoundCorrupt,
         Published, CreateSession, EndSession, Degrade
    <2>4. \A t \in Threads :
            pc[t] \in {"discovered", "summary"} => pc["tree"] \in {"discovered", "summary"}
      BY DEF Control, Places, Threads, MainIn, Preparing, Starting, Attending, Joining, Closing,
         Completing, Aborting, Leaving, Over
    <2>5. \A t \in Threads : lock.by = t => ~MainIn({"reap"})
      BY Types DEF SinkInv, Bounded
    <2> QED
      BY <1>m, <2>1, <2>2, <2>3, <2>4, <2>5 DEF Bounded, Threads
  <1>4. ("exited" \in log => Exited /\ MainIn({"decide"} \cup Leaving))'
    <2>1. "exited" \in log' => "exited" \in log \/ (DeferredStep /\ At("main", "exited"))
      BY ExitedOnce
    <2>2. DeferredStep /\ At("main", "exited") => pc'["main"] = "decide" /\ Exited
      BY Types DEF DeferredStep, DeferredCalls, At, Goto, Threads, Control, Joins, MainIn, Closing
    <2> QED
      BY <1>m, <1>w, <2>1, <2>2 DEF Rest, Bounded, MainIn, Exited
  <1> QED  BY <1>1, <1>2, <1>3, <1>4 DEF Bounded

\* While the pumps are gone and the child does not run, the output is what it is.
LEMMA OutStays ==
  ASSUME TypeOK, Control, pc["out"] \in Gone, child # "running", [Next]_vars
  PROVE  /\ out'.written = out.written /\ out'.captured = out.captured
         /\ out'.recorded = out.recorded \/ Flush
         /\ pc["out"] # "off" => pc'["out"] = pc["out"]
  <1>1. out' = out \/ (Flush /\ out' = [out EXCEPT !.recorded = out.captured])
    BY OtherSteps DEF OtherStep, Flush, RecordOutput, OutRead, OutAppend, ChildWrites, At, Gone
  <1>2. pc["out"] # "off" => pc'["out"] = pc["out"]
    BY RestSteps DEF Rest, Gone
  <1> QED  BY <1>1, <1>2, Types

\* Accounted is inductive.
LEMMA AccountedKeeps ==
  ASSUME TypeOK, Control, SinkInv, Bounded, Accounted, [Next]_vars
  PROVE  Accounted'
  <1>m. /\ log \subseteq log' /\ (firstErr => firstErr') /\ (cause => cause')
        /\ (cancelled => cancelled') /\ opts' = opts /\ (Exited => child' = child)
    BY Monotone
  <1>w. Way /\ Rest
    BY RunsWay, RestSteps
  <1>g. MainIn({"flush", "flushed"} \cup Joining \cup Closing) =>
          /\ pc["out"] \in Gone \ {"off"} /\ Exited /\ child # "running"
          /\ out'.captured = out.captured /\ (out'.recorded = out.recorded \/ Flush)
          /\ pc'["out"] = pc["out"]
    <2>1. MainIn({"flush", "flushed"} \cup Joining \cup Closing) =>
            pc["out"] \in Gone /\ Exited /\ pc["out"] # "off"
      BY DEF Control, Joins, StartedAll, MainIn, Attending
    <2> QED  BY <2>1, OutStays DEF Exited, Gone
  <1>1. (MainIn({"closing"}) => "drain" \in log \/ firstErr)'
    <2>1. Drain => "drain" \in log' \/ firstErr'
      BY DEF Drain, At, Appended, SinkFailed, Stick, Boundaries
    <2>2. Enters({"closing"}) => Drain
      BY <1>w DEF Way
    <2> QED  BY <1>m, <2>1, <2>2 DEF Accounted, Enters
  <1>2. (pc["out"] = "done" =>
          "drain" \in log \/ firstErr \/ (Exited /\ out.captured = out.written))'
    <2>1. OutEnds => "drain" \in log \/ firstErr \/ (Exited /\ out.captured = out.written)
      BY DEF OutEnds, Accounted, At, MainIn
    <2>2. OutEnds => out' = out
      BY DEF OutEnds, env
    <2>3. Exited /\ pc["out"] = "done" => out'.captured = out.captured /\ out'.written = out.written
      BY OutStays DEF Exited, Gone
    <2> QED  BY <1>m, <1>w, <2>1, <2>2, <2>3 DEF Rest, Accounted, Exited
  <1>3. (MainIn({"flushed"} \cup Joining \cup Closing) => firstErr \/ out.recorded = out.captured)'
    <2>1. Flush => firstErr' \/ out'.recorded = out'.captured
      BY Types DEF Flush, RecordOutput, SinkFailed, Stick
    <2>2. Enters({"flushed"}) => Flush
      BY <1>w DEF Way
    <2>3. Enters({"flushed"} \cup Joining \cup Closing) => Flush
      BY <1>w DEF Way, Enters, MainIn, Flushed, JoinCheck, At, Joining
    <2> QED  BY <1>m, <1>g, <2>1, <2>3 DEF Accounted, Enters, MainIn
  <1>4. (MainIn(Joining \cup Closing) /\ opts.pty /\ pc["out"] = "broken" => cause)'
    <2>1. Flushed /\ opts.pty /\ pc["out"] = "broken" => cause'
      BY DEF Flushed, SetCause, ExecutionErr
    <2>2. Enters(Joining \cup Closing) => Flushed
      BY <1>w DEF Way, Enters, MainIn, JoinCheck, At, Joining
    <2>3. Flushed => MainIn({"flushed"})
      BY DEF Flushed, At, MainIn
    <2> QED  BY <1>m, <1>g, <2>1, <2>2, <2>3 DEF Accounted, Enters, MainIn
  <1>5. (MainIn({"exited", "decide"}) /\ ~opts.pty /\ pc["out"] = "broken" =>
           child = "failure" \/ cancelled \/ cause)'
    <2>1. Enters({"exited"}) => Exit /\ MainIn({"exit"})
      BY <1>w DEF Way, Exit, At, MainIn
    <2>2. Exit /\ MainIn({"exited"})' /\ ~opts.pty /\ pc["out"] = "broken" /\ Exited =>
            child = "failure" \/ cancelled \/ cause
      BY Types DEF Exit, MainIn, Goto, Exited, Threads
    <2>3. Enters({"decide"}) => MainIn({"exited"})
      BY <1>w DEF Way, At, MainIn
    <2> QED  BY <1>m, <1>g, <2>1, <2>2, <2>3 DEF Accounted, Enters, MainIn, Closing
  <1>6. (MainIn({"decide"}) => "exited" \in log \/ cause)'
    <2>1. DeferredStep /\ At("main", "exited") => "exited" \in log' \/ cause'
      BY DEF DeferredStep, At, Appended, Boundaries, SetCause
    <2> QED  BY <1>m, <1>w, <2>1 DEF Way, Accounted, Enters
  <1> QED  BY <1>1, <1>2, <1>3, <1>4, <1>5, <1>6 DEF Accounted

\* What completes a session, and what can still be refused after that.
LEMMA WholeKeeps ==
  ASSUME TypeOK, Control, SinkInv, Bounded, Accounted, Whole, [Next]_vars
  PROVE  Whole'
  <1>m. log \subseteq log' /\ opts' = opts
    BY Monotone
  <1>1. CASE Decide /\ MainIn(Completing)'
    <2>1. /\ ~firstErr /\ ~cause /\ MainIn({"decide"})
          /\ UNCHANGED <<lost, log, out, opts, child>> /\ pc'["out"] = pc["out"]
      BY <1>1, Types DEF Decide, MainIn, At, Goto, Completing, sink, db, env, run, Threads
    <2>2. ~lost /\ "exited" \in log
      BY <2>1 DEF SinkInv, Accounted
    <2>3. pc["out"] \in {"done", "broken"} /\ Exited
      BY <2>1 DEF Control, Places, Joins, StartedAll, MainIn, Closing, Gone
    <2>4. OutputIsAccountedFor
      <3>1. CASE pc["out"] = "done"
        BY <2>1, <3>1 DEF Accounted, OutputIsAccountedFor, MainIn, Closing
      <3>2. CASE pc["out"] = "broken"
        BY <1>1, <2>1, <3>2, Types DEF Accounted, OutputIsAccountedFor, MainIn, Closing, Decide,
           Goto, Completing, Threads
      <3> QED  BY <2>3, <3>1, <3>2
    <2> QED  BY <2>1, <2>2, <2>4 DEF Whole, OutputIsAccountedFor
  <1>2. CASE MainIn(Completing) \/ session = "completed"
    <2>1. ~lost /\ "exited" \in log /\ OutputIsAccountedFor
      BY <1>2 DEF Whole
    <2>2. /\ MainIn(Completing \cup {"returned"}) /\ pc["out"] \in Gone /\ child # "running"
          /\ pc["tree"] \in Gone /\ pc["check"] \in Gone /\ ~MainIn(Preparing)
      BY <1>2 DEF SinkInv, Control, Joins, MainIn, Leaving, Over, Completing, Preparing
    <2>3. OutputIsAccountedFor'
      <3>1. ~Flush
        BY <2>2 DEF Flush, At, MainIn, Completing
      <3>2. out'.recorded = out.recorded /\ out'.written = out.written
        BY <2>2, <3>1, OutStays
      <3>3. child' = child /\ (pc["out"] = "broken" => pc'["out"] = "broken")
        BY <2>2, Monotone, RestSteps DEF Rest
      <3> QED  BY <1>m, <2>1, <3>2, <3>3 DEF OutputIsAccountedFor
    <2>4. lost' = lost \/ ~(MainIn(Completing) \/ session = "completed")'
      <3>1. CASE Complete
        <4>1. CASE PublishFinal \/ FinalArtifacts
          <5>1. session # "completed" /\ ~MainIn({"returned"})
            BY <4>1 DEF PublishFinal, FinalArtifacts, SinkInv, At, MainIn
          <5>2. \/ lost' = lost
                \/ pc'["main"] = "abort" /\ session' \in {session, "degraded"}
            BY <4>1, Types DEF PublishFinal, Published, Accepted, NotPublished, FoundCorrupt,
               SinkFailed, FinalArtifacts, Appended, sink, Goto, Threads
          <5> QED  BY <5>1, <5>2 DEF MainIn, Completing
        <4> QED
          BY <3>1, <4>1 DEF Complete, CaptureFinal, Capture, SampleEnd, EndSession, sink
      <3>2. ~Prepare /\ ~Start /\ ~Attend /\ ~Join /\ ~Close
        BY <2>2 DEF MainIn, Completing, At, Prepare, CreateSession, AppendStep, After, SkipHook,
           CaptureInitial, PublishInitial, StoreEnvironment, Watch, Launch, Reconcile, Scan,
           ScanFailed, Publish, Artifacts, Start, Spawn, AppendProcessStarted, Reap, Enrich,
           EnrichFailed, Attend, Wait, Finalize, Drain, Closed, Flush, Flushed, Join, StopAdapter,
           JoinTree, JoinCheck, Close, CloseWatcher, DeferredStep, DeferredCalls, Exit, Decide
      <3>3. ~Pumps /\ ~Monitors /\ ~Watches
        BY <2>2 DEF Gone, At, Pumps, OutRead, OutAppend, OutEnds, OutBreaks, Monitors, TreeSelect,
           TreeAppend, Watches, CheckpointSelect, WatcherError, Reconcile, Scan, ScanFailed,
           Publish, Artifacts
      <3>4. CASE Delivers \/ Streams
        BY <3>4, Types DEF Delivers, InputDelivers, InputAppend, InputBreaks, Streams, AdapterEmits,
           AdapterAppend, AdapterEnds, Appended, Accepted, SinkFailed, Stragglers, sink
      <3>5. CASE (\E t \in Threads : Acquire(t)) \/ Environment \/ UNCHANGED vars
        BY <3>5 DEF Acquire, Environment, ChildWrites, ChildChanges, ChildExits, CallerCancels,
           Degrade, Tick, vars, sink
      <3> QED  BY <3>1, <3>2, <3>3, <3>4, <3>5, Steps
    <2> QED  BY <1>m, <2>1, <2>3, <2>4 DEF Whole
  <1>3. CASE ~Decide /\ ~MainIn(Completing) /\ session # "completed"
    <2>1. ~MainIn(Completing)'
      BY <1>3, RunsWay DEF Way, Enters
    <2>2. session' # "completed"
      BY <1>3, SinkSteps DEF SinkStep, db, Acquire, Appended, Accepted, SinkFailed, FoundCorrupt,
         Published, CreateSession, EndSession, Degrade, MainIn, Completing
    <2> QED  BY <2>1, <2>2 DEF Whole
  <1>4. CASE Decide /\ ~MainIn(Completing)'
    <2>1. session' = session /\ session # "completed"
      BY <1>4 DEF Decide, db, SinkInv, At, MainIn
    <2> QED  BY <1>4, <2>1 DEF Whole
  <1> QED  BY <1>1, <1>2, <1>3, <1>4

\* Last is inductive.
LEMMA LastKeeps ==
  ASSUME TypeOK, Control, SinkInv, Last, [Next]_vars
  PROVE  Last'
  <1>w. Way
    BY RunsWay
  <1>e. MainIn(Completing \cup {"returned"}) =>
          workspace' = workspace /\ pc["check"] \in Gone
    <2>1. MainIn(Completing \cup {"returned"}) => child # "running" /\ pc["check"] \in Gone
      BY DEF Control, Joins, MainIn, Leaving, Over
    <2> QED  BY <2>1, OtherSteps DEF OtherStep, ChildChanges
  <1>1. (MainIn({"publishFinal"}) => root["main"] = workspace)'
    <2>1. Enters({"publishFinal"}) => root'["main"] = workspace /\ workspace' = workspace
      BY <1>w, Types DEF Way, CaptureFinal, Capture, Found, env, Enters, MainIn, Goto, Threads
    <2>2. root'["main"] \in {root["main"], workspace}
      BY OtherSteps, Types DEF OtherStep
    <2> QED  BY <1>e, <2>1, <2>2 DEF Last, Enters, MainIn, Completing
  <1>2. (MainIn({"finalArtifacts", "complete", "completing"}) \/ session = "completed" =>
           states # <<>> /\ states[Len(states)] = workspace)'
    <2>1. CASE Enters({"finalArtifacts", "complete", "completing"})
      <3>1. /\ states' = Append(states, root["main"]) /\ MainIn({"publishFinal"})
            /\ workspace' = workspace
        BY <2>1, <1>w, Types DEF Way, PublishFinal, Published, At, Goto, env, Enters, MainIn,
           Threads
      <3>2. root["main"] = workspace
        BY <3>1 DEF Last
      <3> QED  BY <3>1, <3>2, Types
    <2>2. CASE MainIn({"finalArtifacts", "complete", "completing"}) \/ session = "completed"
      <3>1. states # <<>> /\ states[Len(states)] = workspace
        BY <2>2 DEF Last
      <3>2. MainIn({"finalArtifacts", "complete", "completing", "returned"})
        BY <2>2 DEF SinkInv, MainIn
      <3>3. pc["main"] \notin {"publishInitial", "publish", "publishFinal"}
            /\ pc["check"] \notin {"publishInitial", "publish", "publishFinal"}
        BY <3>2, <1>e DEF MainIn, Completing, Gone
      <3>4. states' = states
        BY <3>3, SinkSteps DEF SinkStep, db, Acquire, Appended, SinkFailed, FoundCorrupt,
           CreateSession, EndSession, Degrade
      <3> QED  BY <1>e, <3>1, <3>2, <3>4 DEF MainIn, Completing
    <2>3. session' = "completed" => session = "completed" \/ MainIn({"completing"})
      BY SinkSteps DEF SinkStep, db, Acquire, Appended, Accepted, SinkFailed, FoundCorrupt,
         Published, CreateSession, EndSession, Degrade, MainIn
    <2> QED  BY <2>1, <2>2, <2>3 DEF Enters, MainIn
  <1> QED  BY <1>1, <1>2 DEF Last

\* A run whose other threads have all stopped has the clock for itself.
LEMMA EndingKeeps ==
  ASSUME TypeOK, Control, SinkInv, Ending, [Next]_vars
  PROVE  Ending'
  <1> SUFFICES ASSUME opts.adapter # "deaf", ~opts.stdin
               PROVE  /\ (MainIn({"completing", "aborting"}) => ended >= last)'
                      /\ (MainIn({"refused"}) => session = "degraded")'
    BY Monotone DEF Ending
  <1>w. Way
    BY RunsWay
  <1>1. (MainIn({"completing", "aborting"}) => ended >= last)'
    <2>1. SampleEnd => ended' = now /\ last' = last
      BY DEF SampleEnd, db
    <2>2. Enters({"completing"}) \/ Enters({"aborting"}) => SampleEnd
      BY <1>w DEF Way
    <2>3. CASE MainIn({"completing", "aborting"}) /\ MainIn({"completing", "aborting"})'
      <3>1. \A t \in Threads : pc[t] \notin SinkCalls
        BY <2>3, SinkCallsAre DEF Threads, MainIn, Control, Unstarted, Joins, Leaving, Completing,
           Aborting, Gone
      <3>2. ~CreateSession /\ ~EndSession
        BY <2>3, Types DEF CreateSession, EndSession, At, Goto, MainIn, Threads
      <3>3. last' = last
        BY <3>1, <3>2, SinkUsers DEF db, Acquire, Degrade
      <3>4. ended' = ended
        BY <2>3, OtherSteps DEF OtherStep, SampleEnd, MainIn
      <3> QED  BY <2>3, <3>3, <3>4 DEF Ending
    <2>4. ended' = now /\ last' = last => ended' >= last'
      BY Types, RecorderAssumption DEF SinkInv, RecorderAssumption
    <2> QED  BY <2>1, <2>2, <2>3, <2>4 DEF Enters, MainIn
  <1>2. (MainIn({"refused"}) => session = "degraded")'
    <2>1. EndSession /\ MainIn({"refused"})' => session' = "degraded"
      <3> SUFFICES ASSUME EndSession, MainIn({"refused"})' PROVE session' = "degraded"
        OBVIOUS
      <3>1. MainIn({"completing", "aborting"}) /\ session' = session
            /\ (session # "recording" \/ ended < last)
        BY Types DEF EndSession, MainIn, Goto, Threads
      <3>2. ended >= last /\ ended \in Nat /\ last \in Nat
        BY <3>1, Types, RecorderAssumption DEF Ending, RecorderAssumption
      <3>3. session \notin {"absent", "completed", "aborted"}
        BY <3>1 DEF SinkInv, MainIn
      <3> QED  BY <3>1, <3>2, <3>3, Types
    <2>2. MainIn({"refused"}) /\ session = "degraded" => session' = "degraded"
      BY SinkSteps DEF SinkStep, db, Acquire, Appended, Accepted, SinkFailed, FoundCorrupt,
         Published, CreateSession, EndSession, Degrade, At, MainIn
    <2>3. Enters({"refused"}) => EndSession
      BY <1>w DEF Way, Enters, MainIn, Over, CreateSession, At
    <2> QED  BY <2>1, <2>2, <2>3 DEF Ending, Enters
  <1> QED  BY <1>1, <1>2

---------------------------------------------------------------------------
(* The invariant, and what follows from it.                                *)

\* The invariant holds in the beginning.
LEMMA RecInit == Init => RecInv
  <1> SUFFICES ASSUME Init PROVE RecInv
    OBVIOUS
  <1> USE RecorderAssumption DEF Init, RecorderAssumption
  <1>1. TypeOK
    <2>1. pc \in [Threads -> Locations] /\ root \in [{"main", "check"} -> 0 .. MaxWrites]
      BY DEF Locations, Gone
    <2>2. states \in Seq(0 .. MaxWrites) /\ pos \in [{"main", "check"} -> 0 .. Len(states)]
      OBVIOUS
    <2>3. /\ out \in [written : 0 .. MaxOut, captured : 0 .. MaxOut, recorded : 0 .. MaxOut]
          /\ out.recorded <= out.captured /\ out.captured <= out.written
      OBVIOUS
    <2>4. /\ {last, ended, now} \subseteq 0 .. MaxTime
          /\ workspace \in 0 .. MaxWrites /\ left \in 0 .. MaxEmits
      OBVIOUS
    <2>5. {firstErr, lost, cause, cancelled, killed, trigger} \subseteq BOOLEAN
      <3>1. firstErr \in BOOLEAN /\ lost \in BOOLEAN /\ cause \in BOOLEAN /\ cancelled \in BOOLEAN
            /\ killed \in BOOLEAN /\ trigger \in BOOLEAN
        OBVIOUS
      <3> QED  BY <3>1
    <2> QED  BY <2>1, <2>2, <2>3, <2>4, <2>5 DEF TypeOK
  <1>2. Control
    BY DEF Control, Places, Unstarted, StartedAll, Joins, MainIn, Threads, Locations, Gone,
       Preparing, Starting, Attending, Joining, Closing, Completing, Aborting, Leaving, Over
  <1>3. SinkInv /\ Owned /\ Bounded
    BY DEF SinkInv, Owned, Bounded, MainIn, Free, Threads, Preparing, Attending, Joining, Closing,
       Completing
  <1>4. Accounted /\ Whole /\ Last /\ Ending
    BY DEF Accounted, Whole, Last, Ending, MainIn, Threads, Joining, Closing, Completing
  <1> QED  BY <1>1, <1>2, <1>3, <1>4 DEF RecInv

\* The invariant is inductive.
LEMMA RecKeeps == RecInv /\ [Next]_vars => RecInv'
  <1> SUFFICES ASSUME RecInv, [Next]_vars PROVE RecInv'
    OBVIOUS
  <1> USE DEF RecInv
  <1>1. TypeOK'
    BY TypeKeeps
  <1>2. Control'
    BY ControlKeeps, Types
  <1>3. SinkInv'
    BY SinkKeeps
  <1>4. Owned'
    BY <1>2, OwnedKeeps
  <1>5. Bounded'
    BY BoundedKeeps
  <1>6. Accounted'
    BY AccountedKeeps
  <1>7. Whole'
    BY WholeKeeps
  <1>8. Last'
    BY LastKeeps
  <1>9. Ending'
    BY EndingKeeps
  <1> QED  BY <1>1, <1>2, <1>3, <1>4, <1>5, <1>6, <1>7, <1>8, <1>9

\* The invariant holds in every reachable state.
LEMMA RecHolds == Spec => []RecInv
  BY RecInit, RecKeeps, PTL DEF Spec

\* The threads, the sink and what was recorded keep their types.
THEOREM Typing == Spec => []TypeOK
  <1>1. RecInv => TypeOK
    BY DEF RecInv
  <1> QED  BY <1>1, RecHolds, PTL

(* Terminal output and the process tree are recorded behind                *)
(* process.started, and process.exited behind everything the joined        *)
(* goroutines observe (ADR-022, ADR-023).                                  *)
THEOREM BoundariesEnclose == Spec => []ProcessBoundaries
  <1>1. RecInv => ProcessBoundaries
    BY DEF RecInv, ProcessBoundaries, Bounded, Control, Joins, MainIn, Closing, Leaving, Completing
  <1> QED  BY <1>1, RecHolds, PTL

(* Run and the checkpoint loop publish from the latest state only: each    *)
(* hands the position to the other when it stops publishing.               *)
THEOREM PositionIsLatest == Spec => []LatestPosition
  <1>1. RecInv => LatestPosition
    <2> SUFFICES ASSUME RecInv,
                        NEW t \in {"main", "check"},
                        pc[t] \in {"publishInitial", "publish", "publishFinal"}
                 PROVE  pos[t] = Len(states)
      BY DEF LatestPosition
    <2>1. CASE t = "main"
      BY <2>1 DEF RecInv, Owned, Control, Places, MainIn, Preparing, Completing
    <2>2. CASE t = "check"
      <3>1. MainIn(Attending \cup Joining) /\ pc["check"] # "off"
        BY <2>2 DEF RecInv, Control, Places, Unstarted, Joins, MainIn, Gone
      <3> QED  BY <2>2, <3>1 DEF RecInv, Owned
    <2> QED  BY <2>1, <2>2
  <1> QED  BY <1>1, RecHolds, PTL

(* A session completes only if no event of a joined goroutine or of Run    *)
(* was refused, whichever thread met the first error, and if its output    *)
(* is recorded or said to be missing.                                      *)
THEOREM CompletedAreWhole == Spec => []CompletedIsWhole
  <1>1. RecInv => CompletedIsWhole
    BY DEF RecInv, Whole, CompletedIsWhole
  <1> QED  BY <1>1, RecHolds, PTL

(* A completed session ends on the workspace its child left.               *)
THEOREM CompletedEndThere == Spec => []FinalStateIsTheWorkspace
  <1>1. RecInv => FinalStateIsTheWorkspace
    BY DEF RecInv, Last, FinalStateIsTheWorkspace
  <1> QED  BY <1>1, RecHolds, PTL

(* However Run returns, its child is not running.                          *)
THEOREM NoChildIsLeft == Spec => []ChildIsReaped
  <1>1. RecInv => ChildIsReaped
    BY DEF RecInv, Control, Joins, MainIn, Leaving, ChildIsReaped
  <1> QED  BY <1>1, RecHolds, PTL

(* With an adapter that stops and no terminal input, EndSession is refused *)
(* for a degraded session only: nobody is left to overtake its clock.      *)
THEOREM EndIsOnTime == Spec => []RefusedOnlyIfDegraded
  <1>1. RecInv => RefusedOnlyIfDegraded
    BY DEF RecInv, Ending, MainIn, RefusedOnlyIfDegraded
  <1> QED  BY <1>1, RecHolds, PTL
=============================================================================
