----------------------------- MODULE Observers -----------------------------
(***************************************************************************)
(* What watches a running child and reports on it beside its output: the   *)
(* adapter's event stream (Rollout, and CodexTrace for what becomes of the *)
(* events) and the workspace watcher with its checkpoint loop (Watcher).   *)
(* Both feed the recorder's event sink and share nothing else: the stream  *)
(* reads files outside the workspace, and checkpoints are not agent        *)
(* events.  A behaviour therefore follows one of them; the other is as if  *)
(* it were not configured (the generic adapter has no stream, and a        *)
(* watcher that cannot be had leaves no loop).                             *)
(***************************************************************************)
EXTENDS CodexTrace, Watcher

VARIABLE observer    \* "stream" or "watcher"

observersVars == <<observer, rolloutVars, watcherVars>>

NoWatcher ==
    /\ tree \in StartTrees /\ start = Visible(tree) /\ changes = MaxChanges
    /\ watched = {} /\ queue = <<>> /\ overflow = FALSE
    /\ watcher = "unavailable" /\ walk = <<>> /\ signal = FALSE /\ error = FALSE
    /\ loop = "none" /\ timer = FALSE /\ began = start /\ position = start
    /\ pending = {} /\ artifacts = [n \in Nodes |-> "none"] /\ reported = TRUE /\ missed = FALSE
    /\ start = [n \in Nodes |-> "absent"]

NoStream ==
    /\ rows = 0 /\ exists = FALSE /\ file = <<>> /\ half = NoLine /\ exited = FALSE
    /\ pc = "done" /\ offset = 0 /\ next = 1 /\ final = FALSE
    /\ announced = FALSE /\ emitted = <<>> /\ failed = "no"
    /\ cancelled = "no" /\ sinkBroken = FALSE /\ diagnosed = FALSE

Init == \/ observer = "stream" /\ RolloutInit /\ NoWatcher
        \/ observer = "watcher" /\ WatcherInit /\ NoStream

Next == \/ observer = "stream" /\ RolloutNext /\ UNCHANGED <<observer, watcherVars>>
        \/ observer = "watcher" /\ WatcherNext /\ UNCHANGED <<observer, rolloutVars>>

Spec == Init /\ [][Next]_observersVars /\ RolloutFair /\ WatcherFair
============================================================================
