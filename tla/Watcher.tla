------------------------------ MODULE Watcher ------------------------------
(***************************************************************************)
(* Checkpoints while the child runs: the watcher (internal/record/         *)
(* watcher.go) turns notifications about watched directories into a signal *)
(* that something changed, and the checkpoint loop (reconciliation.go)     *)
(* captures the workspace some time after a signal, publishes what differs *)
(* from the last checkpoint and then records its artifacts (artifacts.go), *)
(* each in a transaction of its own.                                       *)
(*                                                                         *)
(* Nodes of IgnoredDirs are ignored when they are directories, and only    *)
(* then.                                                                   *)
(***************************************************************************)
EXTENDS TreeDiff

CONSTANTS
    IgnoredDirs,
    StartTrees,     \* the workspaces a recording starts from
    QueueSize,      \* how many notifications wait for the watcher
    MaxChanges,     \* how often the workspace changes at most
    WatchesFail,    \* adding a watch may fail
    RecordingFails  \* what the loop publishes and records may be refused

ASSUME WatcherAssumption ==
    /\ IgnoredDirs \subseteq Nodes /\ StartTrees \subseteq Trees
    /\ QueueSize \in Nat \ {0} /\ MaxChanges \in Nat
    /\ WatchesFail \in BOOLEAN /\ RecordingFails \in BOOLEAN

VARIABLES
    start,          \* the initial state of the session
    tree,           \* what each node is now
    changes,        \* how often the workspace has changed
    \* the notification library
    watched,        \* the watched directories
    queue,          \* the notifications, each a node and whether it was created
    overflow,       \* some were lost, and that error is pending
    \* the watcher
    watcher,        \* "creating", "idle", "walking" or "unavailable"
    walk,           \* what addTree has yet to do: to add or to list a directory
    signal,         \* its channel of changes is full
    error,          \* its channel of errors is not empty
    \* the checkpoint loop
    loop,           \* "waiting", "starting", "select", "capturing", "recording",
                    \* "none", or "over": it failed, and the recording is aborted
    timer,          \* the debounce timer is running or has fired
    began,          \* the workspace when the capture under way began
    position,       \* the last published state
    pending,        \* the files of it whose artifacts are not recorded yet
    artifacts,      \* the content last recorded as an artifact at each path
    reported,       \* fs.watcher.error or fs.watcher.unavailable is recorded
    missed          \* the last capture ended in fs.reconcile.failed

worldVars   == <<start, tree, changes>>
libraryVars == <<watched, queue, overflow>>
sourceVars  == <<watcher, walk, signal, error>>
loopVars    == <<loop, timer, began, position, pending, artifacts, reported, missed>>
watcherVars == <<worldVars, libraryVars, sourceVars, loopVars>>

---------------------------------------------------------------------------
\* What is ignored

\* ignore.Policy.Match
Match(n, isDir) == n \in IgnoredDirs /\ isDir

\* What a snapshot of the tree contains.
Visible(t) == [n \in Nodes |->
                  IF \E m \in Ancestors[n] \cup {n} : Match(m, IsDir(t, m)) THEN "absent" ELSE t[n]]

VisibleDirs == {Root} \cup {n \in Nodes : Visible(tree)[n] = "dir"}

---------------------------------------------------------------------------
\* The workspace changes, and the library notices what happens in the
\* directories it watches.  The watch of a directory goes with it.

Happens(n, new, created) ==
    /\ changes < MaxChanges /\ changes' = changes + 1
    /\ new \in Trees /\ new # tree
    /\ tree' = new
    /\ watched' = {d \in watched : IsDir(new, d)}
    /\ IF Parent[n] \notin watched THEN UNCHANGED <<queue, overflow>>
       ELSE IF Len(queue) < QueueSize
       THEN queue' = Append(queue, [node |-> n, created |-> created]) /\ UNCHANGED overflow
       ELSE overflow' = TRUE /\ UNCHANGED queue
    /\ UNCHANGED <<start, sourceVars, loopVars>>

\* A file is written or a directory made.
Write(n) ==
    \E what \in {"dir"} \cup Contents :
        /\ tree[n] # "dir" /\ (what = "dir" => tree[n] = "absent")
        /\ Happens(n, [tree EXCEPT ![n] = what], tree[n] = "absent")

\* Something is removed or moved away, with all that is below.
Delete(n) ==
    /\ tree[n] # "absent"
    /\ Happens(n, [m \in Nodes |-> IF m \in Below(n) \cup {n} THEN "absent" ELSE tree[m]], FALSE)

\* A directory is moved here with what is in it.
Arrive(n) ==
    /\ tree[n] = "absent"
    /\ \E t \in Trees :
          /\ t[n] = "dir" /\ \E m \in Children(n) : t[m] # "absent"
          /\ \A m \in Nodes \ (Below(n) \cup {n}) : t[m] = tree[m]
          /\ Happens(n, t, TRUE)

---------------------------------------------------------------------------
\* The watcher

\* signalChange and signalError never wait: a full channel drops.  (The
\* channel of errors has eight places; one shows what dropping does.)
Signal      == signal' = TRUE /\ UNCHANGED error
SignalError == signal' = TRUE /\ error' = TRUE

\* handleEvent looks at the path when it treats the notification.
Inaccessible(n) == \E m \in Ancestors[n] : tree[m] \in Contents

HandleEvent ==
    /\ watcher = "idle" /\ queue # <<>>
    /\ queue' = Tail(queue)
    /\ LET n == Head(queue).node
       IN  \/ /\ Inaccessible(n)
              /\ SignalError /\ UNCHANGED <<watcher, walk>>
           \/ /\ ~Inaccessible(n) /\ Match(n, IsDir(tree, n))
              /\ UNCHANGED sourceVars
           \/ /\ ~Inaccessible(n) /\ ~Match(n, IsDir(tree, n))
              /\ IF Head(queue).created /\ IsDir(tree, n)
                 THEN watcher' = "walking" /\ walk' = <<[do |-> "add", dir |-> n]>>
                                           /\ UNCHANGED <<signal, error>>
                 ELSE Signal /\ UNCHANGED <<watcher, walk>>
    /\ UNCHANGED <<watched, overflow, worldVars, loopVars>>

HandleOverflow ==
    /\ watcher = "idle" /\ overflow
    /\ overflow' = FALSE
    /\ SignalError
    /\ UNCHANGED <<watched, queue, watcher, walk, worldVars, loopVars>>

\* Mutant of FirstStep: the loop begins with the first signal.
WaitForChanges == "select"

\* Once the watcher has been created the loop starts with a reconciliation
\* ("watcher-start"): what changed before a watch was added is not notified.
FirstStep == "starting"

\* newWorkspaceWatcher and handleEvent, once addTree has returned.  A watcher
\* whose first walk fails is closed.
Walked(failed) ==
    /\ walk' = <<>>
    /\ IF watcher = "walking"
       THEN /\ watcher' = "idle"
            /\ IF failed THEN SignalError ELSE Signal
            /\ UNCHANGED loopVars
       ELSE /\ watcher' = IF failed THEN "unavailable" ELSE "idle"
            /\ loop' = IF failed THEN "none" ELSE FirstStep
            /\ reported' = failed
            /\ UNCHANGED <<signal, error, timer, began, position, pending, artifacts, missed>>

GoOn(rest) ==
    IF rest = <<>> THEN Walked(FALSE)
    ELSE walk' = rest /\ UNCHANGED <<watcher, signal, error, loopVars>>

\* Mutant of ToList: a directory is watched, and not what is in it already.
WatchOnly(d) == <<>>

ToList(d) == <<[do |-> "list", dir |-> d]>>

\* WalkDir calls addTree's function with a directory, which is watched, and
\* reads it afterwards; a directory that is gone by then is passed over, one
\* that has become a file ends the whole walk.
AddWatch ==
    /\ walk # <<>> /\ Head(walk).do = "add"
    /\ LET d == Head(walk).dir
       IN  \/ /\ watched' = IF IsDir(tree, d) THEN watched \cup {d} ELSE watched
              /\ GoOn(ToList(d) \o Tail(walk))
           \/ /\ WatchesFail /\ Walked(TRUE)
              /\ UNCHANGED watched
    /\ UNCHANGED <<queue, overflow, worldVars>>

ListDir ==
    /\ walk # <<>> /\ Head(walk).do = "list"
    /\ LET d    == Head(walk).dir
           dirs == {n \in Children(d) : tree[n] = "dir" /\ ~Match(n, TRUE)}
       IN  IF d # Root /\ (tree[d] \in Contents \/ Inaccessible(d))
           THEN Walked(TRUE)
           ELSE \E order \in SetToSeqs(dirs) :
                    GoOn([i \in DOMAIN order |-> [do |-> "add", dir |-> order[i]]] \o Tail(walk))
    /\ UNCHANGED <<libraryVars, worldVars>>

---------------------------------------------------------------------------
\* The checkpoint loop

\* The first reconciliation follows the creation of the watcher at once, the
\* others the debounce timer.
BeginCapture ==
    /\ \/ loop = "starting" /\ UNCHANGED timer
       \/ loop = "select" /\ timer /\ timer' = FALSE
    /\ loop' = "capturing" /\ began' = tree
    /\ UNCHANGED <<position, pending, artifacts, reported, missed,
                   libraryVars, sourceVars, worldVars>>

TakeSignal ==
    /\ loop = "select" /\ signal
    /\ signal' = FALSE /\ timer' = TRUE
    /\ UNCHANGED <<loop, began, position, pending, artifacts, reported, missed,
                   watcher, walk, error, libraryVars, worldVars>>

TakeError ==
    /\ loop = "select" /\ error
    /\ error' = FALSE
    /\ \/ timer' = TRUE /\ reported' = TRUE /\ UNCHANGED loop
       \/ RecordingFails /\ loop' = "over" /\ UNCHANGED <<timer, reported>>
    /\ UNCHANGED <<began, position, pending, artifacts, missed,
                   watcher, walk, signal, libraryVars, worldVars>>

\* A capture of a workspace that changes meanwhile has what is in each
\* directory of the root from before or from after.
Captures ==
    {[n \in Nodes |-> IF (Ancestors[n] \cup {n}) \cap early # {} THEN Visible(began)[n]
                                                                  ELSE Visible(tree)[n]] :
        early \in SUBSET Children(Root)}

\* Mutant of ArtifactDelta: files that were overwritten are passed over.
NewFiles(from, to) == {n \in Nodes : to[n] \in Contents /\ from[n] \notin Contents}

\* discoverArtifactDelta: the files of the new state whose content the old
\* one does not have at the same path.
ArtifactDelta(from, to) == {n \in Nodes : to[n] \in Contents /\ from[n] # to[n]}

\* What persistArtifactDelta has yet to record; behind the last it returns.
ToRecord(files) ==
    /\ pending' = files
    /\ loop' = IF files = {} THEN "select" ELSE "recording"

\* A checkpoint is published before any of its artifacts is.
Publish(captured) ==
    /\ position' = captured
    /\ ToRecord(IF captured = position THEN {} ELSE ArtifactDelta(position, captured))

EndCapture ==
    /\ loop = "capturing"
    /\ began' = start
    /\ \/ \E captured \in Captures : Publish(captured) /\ missed' = FALSE
       \/ missed' = TRUE /\ ToRecord({}) /\ UNCHANGED position
    /\ UNCHANGED <<artifacts, timer, reported, libraryVars, sourceVars, worldVars>>

\* The walk takes the entries of each directory in the order of their names.
WalkedBefore(m, n) ==
    \E p \in Ancestors[m] \cup {m}, q \in Ancestors[n] \cup {n} :
        Parent[p] = Parent[q] /\ Before(p, q)

RecordArtifact ==
    /\ loop = "recording"
    /\ \E n \in pending :
          /\ \A m \in pending : ~WalkedBefore(m, n)
          /\ artifacts' = [artifacts EXCEPT ![n] = position[n]]
          /\ ToRecord(pending \ {n})
    /\ UNCHANGED <<timer, began, position, reported, missed, libraryVars, sourceVars, worldVars>>

\* reconcileWorkspace returns an error, or its context has ended: the
\* checkpoint was not published, or some of its artifacts were not recorded.
\* What was published stays.
ReconcileFails ==
    /\ RecordingFails /\ loop \in {"capturing", "recording"}
    /\ loop' = "over" /\ began' = start
    /\ UNCHANGED <<timer, position, pending, artifacts, reported, missed,
                   libraryVars, sourceVars, worldVars>>

---------------------------------------------------------------------------
WatcherInit ==
    /\ tree \in StartTrees /\ start = Visible(tree) /\ changes = 0
    /\ watched = {} /\ queue = <<>> /\ overflow = FALSE
    /\ watcher = "creating" /\ walk = <<[do |-> "add", dir |-> Root]>>
    /\ signal = FALSE /\ error = FALSE
    /\ loop = "waiting" /\ timer = FALSE /\ began = start /\ position = start
    /\ pending = {} /\ artifacts = [n \in Nodes |-> "none"]
    /\ reported = FALSE /\ missed = FALSE

World == \E n \in Nodes : Write(n) \/ Delete(n) \/ Arrive(n)

Source == HandleEvent \/ HandleOverflow \/ AddWatch \/ ListDir

Checkpoint == \/ BeginCapture \/ TakeSignal \/ TakeError
              \/ EndCapture \/ RecordArtifact \/ ReconcileFails

WatcherNext == World \/ Source \/ Checkpoint

\* The watcher's goroutine and the loop's run; a select does not pass over a
\* channel for ever.
WatcherFair ==
    /\ WF_watcherVars(HandleEvent) /\ WF_watcherVars(HandleOverflow)
    /\ WF_watcherVars(AddWatch \/ ListDir)
    /\ WF_watcherVars(BeginCapture \/ EndCapture \/ RecordArtifact)
    /\ SF_watcherVars(TakeSignal) /\ SF_watcherVars(TakeError)

---------------------------------------------------------------------------
\* Properties

WatcherTypeOK ==
    /\ tree \in Trees /\ changes \in 0 .. MaxChanges
    /\ {start, began, position} \subseteq [Nodes -> {"absent", "dir"} \cup Contents]
    /\ watched \subseteq Nodes \cup {Root} /\ overflow \in BOOLEAN
    /\ Len(queue) <= QueueSize
    /\ \A i \in DOMAIN queue : queue[i].node \in Nodes /\ queue[i].created \in BOOLEAN
    /\ watcher \in {"creating", "idle", "walking", "unavailable"}
    /\ \A i \in DOMAIN walk : walk[i].do \in {"add", "list"} /\ walk[i].dir \in Nodes \cup {Root}
    /\ signal \in BOOLEAN /\ error \in BOOLEAN
    /\ loop \in {"waiting", "starting", "select", "capturing", "recording", "none", "over"}
    /\ timer \in BOOLEAN /\ pending \subseteq Nodes
    /\ artifacts \in [Nodes -> {"none"} \cup Contents]
    /\ reported \in BOOLEAN /\ missed \in BOOLEAN

\* Something is on its way that will make the watcher add directory d: a
\* notification of it or of a directory above, or a walk that is yet to reach it.
OnItsWay(d) ==
    LET path == {Root, d} \cup (IF d = Root THEN {} ELSE Ancestors[d])
    IN  \/ \E i \in DOMAIN queue : queue[i].created /\ queue[i].node \in path
        \/ \E i \in DOMAIN walk : walk[i].dir \in path

\* Every directory that is part of the workspace is watched, will be, or an
\* error says that some may not be: files made in a directory before its watch
\* and directories made while a tree is walked are not overlooked
\* (watcher.go:117-164).  A loop that has failed aborts the recording and takes
\* no error any more.
NoUnreportedBlindSpot ==
    watcher \in {"idle", "walking"} =>
        \A d \in VisibleDirs : \/ d \in watched \/ OnItsWay(d)
                                \/ error \/ overflow \/ reported \/ loop = "over"

\* Once the workspace rests, the last checkpoint comes to be what it contains,
\* however notifications were merged, delayed, lost or overtaken by captures.
\* Conceded: a watcher that was not to be had, a loop that has failed (and with
\* it the recording), a capture that failed after the last change, what is in a
\* directory that is not watched after an error was recorded, and a path that
\* has become an ignored directory, whose notification is dropped with what it
\* replaced (watcher.go:117-120).
Swallowed(n) == n \in IgnoredDirs /\ tree[n] = "dir"

Blind(n) == reported /\ Parent[n] \notin watched

CheckpointsCatchUp ==
    <>[](\/ watcher = "unavailable" \/ loop = "over" \/ missed
         \/ \A n \in Nodes : Swallowed(n) \/ Blind(n) \/ position[n] = Visible(tree)[n])

\* The artifacts recorded so far are true of the last checkpoint: where a file
\* is, the last artifact of its path has its content, or it is the file that
\* was there from the start and none was recorded.  Only while the artifacts of
\* that very checkpoint are being recorded, or when that has failed and the
\* recording is aborted, some may be missing; no later checkpoint is then
\* published over the gap (artifacts.go:42-136, reconciliation.go:146-156,
\* 195-208).
ArtifactsTellTheFiles ==
    /\ \A n \in Nodes \ pending : position[n] \in Contents =>
          artifacts[n] = position[n] \/ (artifacts[n] = "none" /\ start[n] = position[n])
    /\ pending # {} => loop \in {"recording", "over"}

\* The diff of the state the recording started from and the last checkpoint
\* names every change once, as what it is, and covers every difference
\* (diff/state.go:44-113).
DiffTellsTheChange == TellsTheChange(start, position)

============================================================================
