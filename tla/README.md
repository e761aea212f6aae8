# Verification of Replay

TLA+ models of Rappid Replay, a recorder that runs a command in a workspace, keeps
what it observes as an ordered log of events and content-addressed workspace states,
and later verifies, restores, branches and compares what it kept. The models are
written from the Go source under `src/`; `PROJECT.json` maps each definition to the
lines it stands for.

## 1. The system

    command line ──> Recorder ──append, publish, end──> metadata database (SQLite)
                        │  └──────Put──┐                      │ inspects before it
                        │              v                      v publishes
        workspace ──> Capture ──Put──> content store <──Get── verify, restore, diff
                                                              │
                        Recorder <──── branch / rerun <───────┘

| Part | State it keeps | Operations | What is hard |
|---|---|---|---|
| Metadata database (`internal/persistence`) | rows of sessions, events, states, artifacts, environments | create, append, publish a snapshot or an artifact, store an environment, end, degrade; the reads | several threads and processes; deferred transactions that read before they lock; gap-free numbering; order of clock readings |
| Content store (`internal/store`) | encrypted objects, quarantine markers, the master key | Put, Get, quarantine, opening | commits without replacing, directory syncs and power loss, bit rot, two processes with one object |
| Recorder (`internal/record`) | the event sink with its mutex and sticky first error, the checkpoint position, two contexts, the child | `Run` and its goroutines | joins, cancellation, grace periods, stragglers, errors on a dozen paths, the race for the last clock reading |
| Watcher and checkpoints (`internal/record/watcher.go`, `reconciliation.go`, `artifacts.go`) | watches per directory, coalescing channels, the debounce timer, the last checkpoint | add watches, notify, debounce, capture and publish, record artifacts | directories that appear while a tree is walked, lost or late notifications, a change after the capture began |
| Snapshots (`internal/state`) | none but what it stores | Capture; verify and inspect a tree | the workspace changes during the capture; equal directories are one object |
| Restore and branch (`internal/replay`, `internal/branch`) | staging directory, backup | verify, restore, create, rerun | failure or loss between two renames, a destination shared with others, rot between check and use |
| Migrations, master key | schema version and checksums; credential and initialization marker | open | two processes that open at once, a crash halfway |
| Diff (`internal/diff`) | none | comparison of two trees, alignment of two timelines | changes of kind at any depth |
| OpenTelemetry export (`internal/otelgenai`) | none | events to a trace, a trace to events | pairing of calls and results, a wall clock that goes back |
| Adapters (`pkg/adapter`, `adapters/`) | registry; for Codex the thread, the offset in its rollout file, the partial line | detect, stream events | lines half written, cancellation during a poll, an adapter that ignores it |
| Terminal, process discovery, privacy, config, ignore, ids, platform, command line | little | probes, parsing, filtering | mostly I/O and text |

What makes each correct, in a sentence. The database: a timeline is a gap-free,
ordered, append-only sequence that ends with its session, and its states form one
chain. The store: an object has its bytes or is condemned for good, and what was
reported as stored survives a power loss. The recorder: a completed session misses
nothing that its goroutines saw, ends on the workspace the child left, and `Run`
returns. The watcher: once the workspace rests, the last checkpoint is what it
contains, or an error says that it may not be. The Codex adapter: what it recorded is a
prefix of the transcript, and the whole of it unless the log says otherwise. Capture:
what it publishes was there, and is complete. Restore: the destination has a whole
state or the user's own directory, which is never lost.

`PROJECT.json` lists every component with its files and status, and under `hazards`
each hazard at its line, with the properties that would show it going wrong.

## 2. The modules

| Module | Models | Composition |
|---|---|---|
| `Timeline` | what readers of a session are promised: an append-only ordered log that a terminal event closes | abstract |
| `SessionLog` | the database: every writing operation as transactions of several clients | implements `Timeline` (`ImplementsTimeline`) |
| `SessionLogMC` | instances of it | extends `SessionLog` |
| `SessionLogProofs` | theorems about it: types, reads and order; the chain of states, ends, artifacts and branches, and the refinement | extends `SessionLog`, TLAPS |
| `ContentStore` | an object that is absent, good, bad or condemned | abstract |
| `LocalStore` | Put, Get, quarantine and publication as system calls on one object | implements `ContentStore` (`ImplementsContentStore`) |
| `LocalStoreProofs` | theorems about it, the refinement among them | extends `LocalStore`, TLAPS |
| `Recorder`, `RecorderMC` | `Run` and five goroutines | uses the database as `SessionLog` describes its answers |
| `RecorderProofs` | theorems about it | extends `Recorder`, TLAPS |
| `Snapshot` | Capture against other processes | its `stored` is the content store's promise |
| `Inspection`, `SnapshotMC` | the walk that accepts a state before its publication | applied to what `Snapshot` stored |
| `SnapshotProofs` | theorems about Capture | extends `Snapshot`, TLAPS |
| `Restore`, `RestoreMC` | RestoreState, Create, Rerun by several processes | the recapture is `Snapshot`'s, what follows is `Recorder`'s |
| `RestoreProofs` | theorems about it | extends `Restore`, TLAPS |
| `Rollout` | the Codex event stream, Codex and the recorder that stops it | part of `Observers` |
| `GenAITrace` | export of agent events as a trace, and import | used by `CodexTrace` |
| `CodexTrace` | what `Rollout` recorded, exported and imported | extends both |
| `WorkspaceTree`, `TreeDiff` | a workspace as a tree; the diff of two trees | used by `Watcher` |
| `Watcher` | the watcher, its checkpoint loop and the artifacts | part of `Observers` |
| `Observers`, `ObserversMC` | what observes a running child: the stream or the watcher | extends `CodexTrace` and `Watcher` |
| `ObserversProofs` | theorems about both observers | extends `Observers`, TLAPS |
| `ReportProofs` | theorems about the exported trace, the diff and the types of both observers | extends `ObserversProofs` |
| `Migrations` | the opening of the database by processes of several builds | instantiated by `Startup` |
| `MasterKey` | the user's key and the key check of a data root | instantiated by `Startup` |
| `Startup`, `StartupMC` | `OpenRuntime`: the database, then the store, with retries | composes the two |
| `StartupProofs` | theorems about the opening and its two parts | extends `Startup`, TLAPS |

### SessionLog

A row of a table is a record, `sessions` a function from ids to rows. An operation
whose first statement is an UPDATE takes the write lock at once and is one action. One
that first reads what it validates is two: `Begin` reads (`tx[c]`), `Commit<Op>`
writes, and a transaction that another commit has overtaken (`stale`) is refused, as
SQLite does in WAL mode. `Rollback` stands for every later refusal, for SQLITE_BUSY,
cancellation and a crash. The request sets are what the validation in front of each
transaction lets through. Of `AppendEvent` only the kind `event` is modelled: no caller
in the repository appends the kinds that the other operations write, although
`AppendEvent` would not refuse them. `MaxEventSeq` is the code's 2^63-1 made small: the
model reaches the bound and shows the refusal.

### LocalStore

One object, because objects have separate directory entries and markers. `file` is
what processes see, `onDisk` what the entry leads to after a power loss; `link`,
`sync`, `rename` and the marker are separate steps of each process. Contents are
synced before they are linked, so only entries can be lost. A caller of Put goes on to
inspect and publish a state. Kill, PowerLoss and Rot come from outside.

### Recorder

`pc[t]` is the next call of thread t. A call of the sink is two steps, taking the
mutex with a reading of the clock and the commit (or the failure, which is sticky).
The clock may advance at any moment that anybody can tell. EndSession is one step
here, with the reading of its clock before it, outside the mutex; `SessionLog` has its
details. Assumed of the environment: the output of the child ends when the child has
exited or its PTY is closed (the code sets no WaitDelay: a grandchild that keeps a
pipe open makes Wait wait for it; see the limits in section 6), and a workspace change is a new version number.

### Snapshot

A stack has one frame for each directory being captured, with its first listing, its
second, and the values captured. Between any two system calls another process may
overwrite a block, create, remove or rename. Inodes are used again when nothing refers
to them, a name may lead to another file or to a link that leads back to the same
inode, and opening a name follows links inside the root. A stat is an inode and a
stamp; that a change always leaves a new stamp is assumed (a clock coarser than the
writes is a limit of section 6). A large file is stored chunk by chunk while it is read, and
its list of chunks after the last; an object is its own id. The workspace before the
capture is a constant: any nodes, with stamp 0, of which the root is a directory.
`DirectoriesAreInstants` compares one level at a time (`ListingAt` of a workspace,
`Listing` of a tree), which needs no recursion.

### Inspection

`InspectSnapshot` walks a tree through the content store before `PublishSnapshot` opens
its transaction, and whatever it lists becomes the state's edges. It visits an object
once, but counts paths, so the walk carries the counts of the trees it has finished.
The module applies it to every tree that a capture has stored, at every moment, and
compares the result with a definition by paths that visits nothing twice. A restore
begins with `VerifySnapshot`, the same walk without the list of objects; `LocalStore`
has the inspection of one object that may rot. The order in which the two walks meet
several faults, which only the message tells, is left out.

### Restore

Each process verifies, validates the destination, stages, materializes part after
part (each object authenticated again), and commits by one rename or, with `--force`,
by two with a way back. Rename is POSIX: onto nothing, or a directory onto an empty
directory, or a file onto a file. The user may put anything at the destination at any
time. A completed restore may continue as Rerun: capture, compare with the recorded
root, start. The internal error of `commitRestore` (existing destination without
`--force`) is unreachable, which `TypeOK` states and the theorem `Typing` shows.

### Migrations, MasterKey and Startup

A build is the files it embeds; a file is a name and a text, and a checksum is the text
it was computed from. `rows` is `schema_migrations`, `ran` the history of the SQL that
was executed: the two begin as an earlier release left them, and the properties relate
them. A migration and its record are one transaction, hence one action; reading the
record is another, and so is the backfill. `MasterKey` has one action per call that
another process, a kill or a power loss can come before: reading the credential,
deciding, storing, reading back, creating the marker, syncing it, unlocking, and the
same for the key check, which no lock protects. Directory entries have a durable twin
(`markerOnDisk`, `checkOnDisk`). `Startup` runs one after the other and closes the
database when the store refuses; `Stop` is a kill or any failing call, after which the
user tries again. A refusal is what trying again would not change.

The credential store is external: it keeps what it accepted over a power loss, may
store something else than it was given, and the user may delete the entry.

Two things the properties concede, because the code cannot exclude them. A build whose
legacy file was edited, opening a database that does not exist yet, applies that file
and commits before it compares it with the pinned checksum; it is refused, but a release
that opens the database afterwards records the pinned checksum for what the edited file
did (`Pins` in `OpenSeesItsSchema` and `ChecksumsAreTrue`). And a process that finds the
marker of one that died before syncing it goes on without a sync: after a power loss and
a deletion of the credential a second key is made (`unguarded` in `OneKey`), which the
key check of a used data root still refuses (`RootHasOneKey`, the other half of
`OneKey`).

`Undamaged` is history: `damaged` says that the credential was ever deleted or stored as
something else, and `KeyCause` accepts any refusal from then on. That is right of a process
that finds the marker without the credential, and too generous to one whose credential is
deleted between its own store and the reading back, before there is a marker: it is
refused, and trying again would succeed. A refusal without any damage, or for a key that
did not seal the data root, still needs its lasting cause.

### Rollout

Codex appends to the file in two steps per line, so that a read, which returns any part
of what is on disk, may end within a line; offsets count halves of lines. The number of
threads in Codex's database that match the run may change until one is taken. A line is
its kind: it becomes an event, is passed over, cannot be decoded, is too long, or becomes
an event that the recorder refuses. The context of a poll and the one of the final read
differ, as in the code, where only the latter survives the cancellation (`CanEmit`).
A line that is broken, too long or refused ends the stream with an error, and so does a
read that fails. The error is recorded as `agent.adapter.error` only if the stream is not
cancelled when it is reported (`Report`, adapter_hooks.go:206): a final read that meets
such a line loses it and the good lines behind it without a record, which
`LossIsExplained` names as a case of its own (`FinalReadStopped`; see section 4). Not modelled: that texts are truncated, that a line
older than the run is passed over for its date (it is of kind `silent`), and that the one
matching row may belong to another Codex in the same directory, which ADR-027 admits.

### GenAITrace and CodexTrace

Pure operators over a sequence of events, with content included; what the code does in
a loop is a recursive function (`Tools`), which the proofs can use. `CodexTrace` gives the
lines that a finished stream emitted every assignment of wall times from a set of two,
so that the clock stands still or goes back anywhere. The reference definition of the
result of a call (`Closes`) is by counting brackets, not by the search of the code. A
tool key is a tuple here and a string in the code (`call:c:5` for the second call with id
`c` at event 5), where an id with a colon could meet another's key. Two things of the
conversion show up in the properties: of a text that begins with a JSON value only that
value is kept (`42 tests passed` becomes `42`), and a trace whose root span would have
more than `MaxSpanEvents` messages is not exported at all. Everything else of the conversion is taken as the identity. A JSON text counts as the same
text after it was decoded and encoded again (`serializedAnyValue`, `portableString`),
although its spaces and the order of its keys change, a number becomes an integer of 64
bits or a double, a JSON string loses its quotes, and `null` becomes the string `null`;
names, providers and phases come back as they were. So `RoundTrip` says that the calls,
results and messages are there, once each, in order and with their content, and not that
the bytes of a JSON argument are. Left out: a nested object
counts two levels in `validateAnyValue` and one in `anyFromJSON`, so that a deep one
passes the conversion and fails the export.

### WorkspaceTree, TreeDiff and Watcher

A workspace is a function from paths to absent, a directory, or a content. The
directories above a path are the least set closed under `Parent` (`UpTo`), a definition
without recursion that the proofs can use; that going up ends at the root is
`RootAssumption`. A step of the
world writes or makes something, removes it with what is below, or moves a full directory
in; fsnotify tells of it only if the parent is watched, and what does not fit its queue
is lost and reported as an overflow. `addTree` is a list of things to do, in which adding
a watch and reading the directory are two steps, because the world moves between them.
The two channels are full or empty. `Captures` is coarser than `Snapshot`: what is in each
directory of the root may be from before or after the changes made meanwhile.
A reconciliation publishes its checkpoint first (`Publish`, reconciliation.go:195) and then
records the artifacts one by one in the order of the walk, each in a transaction of its
own (`RecordArtifact`, artifacts.go:113-136); `pending` is what it has yet to record. With
`RecordingFails` it may end at any of these points, because a transaction fails or its
context has ended (`ReconcileFails`), as it may when an error of the watcher cannot be
recorded (`TakeError`): the loop is then `over`, the recorder aborts the session, and the
state that was published stays (ADR-024, line 52). How the recorder stops a loop that is
well is in `Recorder`.
`ArtifactDelta` is the comparison of `walkArtifactDelta` path by path; `Compared` follows
the merge of `compareTree` turn by turn, a directory's comparison being a value of a
recursive function that its parent's uses, and is judged by a reference definition that
knows no order of entries. Modes and symbolic links are left out. The debounce has no
maximum wait: a workspace that never rests is never captured before the end, which is why
`CheckpointsCatchUp` speaks of one that rests.

### Observers

The stream and the watcher feed the same event sink and have no other state in common:
the stream reads below Codex's home, and checkpoints are no agent events. So a behaviour
follows one of them (`observer`), with the other as the code leaves it when it is not
configured (`generic` has no stream, and a watcher that is not to be had leaves no
loop). How both compete for the sink is in `Recorder`.

## 3. The runs

| Run | Question | Bounds |
|---|---|---|
| `session_chain` | every sequence of calls on one session | 3 states, 2 roots, 2 objects, 2 clock readings, up to 4 events |
| `session_log` | interleaved transactions of two handles over two sessions, one a branch of the other | 2 states, up to 2 events per session |
| `local_store` | Put, Get and quarantine with rot, kills and power loss | 3 processes |
| `store_durability` (violation) | is a published state durable? | 3 processes |
| `quarantine_marker` (violation) | does a quarantine survive a power loss? | 3 processes |
| `recorder` | one recording in four configurations, with faults; returns | 1 segment of output, 1 change, 1 tick, 1 emission |
| `recorder_straggler` (violation) | can an adapter keep a session from ending? | the same, deaf adapter |
| `snapshot` | is each captured directory one that existed, and each stored tree one that publication accepts? | 3 directories, 2 large files and a small one, a link, a special file, 2 blocks, 2 changes |
| `snapshot_torn` (violation) | is the whole snapshot one instant? | the same |
| `startup` | does every opening settle, on the right schema and one key? | 2 processes, 6 builds, 2 databases, 9 states of key and root, 2 faults |
| `observers` | does the recorded transcript stay true, through export and import; does the last checkpoint catch up? | 3 lines of 5 kinds, faults of database, file and sink; a recording that may fail at every step; 3 paths, one below another and one that is ignored as a directory, 2 contents, 2 start trees, 3 changes, a queue of 2 |
| `restore` | are the destination and the user's work safe? | 2 processes, any subset with `--force`, 2 parts, 2 changes by the user |

Why the bounds are enough. `session_chain` has room for an initial, a checkpoint and a
final state with a terminal event behind them, and for the bound on the sequence
number; `session_log` has two handles because a conflict of transactions is between
two, and two sessions because a fork relates two. Three store processes are the two
that conflict and the one that is deceived. In `recorder` each race is between one
late event and one decision, so one of each kind suffices; the four configurations
cover both kinds of I/O, both kinds of adapter and the checkpoint loop. In `snapshot`
two changes are what it takes to overwrite a file and put another in its name, or to
tear a snapshot, and also what it takes to make two directories the same object; a run
with three found nothing new but takes longer than a routine check should. In `restore` one process, one rival and the user are the actors of every
race for one path, and a state of two parts can be half written. In `startup` one
process is stopped and another meets what it left; the four migrations are the real
ones, of which the third adds the column, and two faults are a kill between two steps
and what then makes it matter. In `observers` three lines are two calls with one id and
a result, or a loss between two lines; three changes make a directory, fill it and
replace it, and overflow a queue of two; the diff and the artifacts meet every pair of
trees that three changes lead to.

Symmetry is used in `SessionLogMC` only, over ids that no definition tells apart, and
for safety properties only. `CHECK_DEADLOCK FALSE` appears for the session log,
whose clients may stop calling, and at the bound of the sequence number nothing can be
appended; and for `observers`, where a stream that has ended and a workspace that rests
have nothing left to do. The other modules have an explicit step for having finished, so a deadlock
there would be an error.

**Fairness.** `Recorder` (`RunReturns`), `Startup` (`EveryOpenSettles`), `Rollout`
(`StreamEnds`) and `Watcher` (`CheckpointsCatchUp`) state liveness. In `Startup` each process has weak fairness for its steps: a waiting process
polls the lock every 50 ms, the calls return, and a command that was stopped is run
again, while the faults are finitely many. In `Recorder` weak fairness is given
to the threads (the Go scheduler runs every runnable goroutine), to a database call
that was begun, to the end of an adapter that honours its cancellation, and to the
death of a child that was killed. Nothing is assumed of the child otherwise, of its
input, of the caller, or of an adapter that ignores cancellation. In `Rollout`
(`RolloutFair`) the stream's goroutine runs, and the recorder stops the stream of a child
that is gone; a select between a tick and the end of the context is strongly fair to the
latter, since no tick is ready when a poll takes less than the interval between two.
Nothing is assumed of Codex. In `Watcher` (`WatcherFair`) the watcher's goroutine and the
loop run, and a select does not pass over a ready channel for ever; a capture ends, in a
snapshot or in a failure, and so does the recording of its artifacts. Nothing is assumed
to fail, nor not to.

Each module has a type invariant. `session_chain` checks that of `SessionLog`, where it
shows that the sequence number never passes its bound. All of them are proved; the others
were also checked with TLC without being listed as a property of a run.

Every property of a passing run has a mutant in `PROJECT.json`: an operator of the
model changed as a plausible bug would change the code (a dropped comparison, a missing
sync, a join that does not wait), under which TLC finds the property violated.

## 4. Where code and documents differ

1. `store_durability`: Put that deduplicates against an entry which another process
   linked and has not yet synced returns at once (`internal/store/local.go:100`); the
   state is published, and a power loss takes the object. ADR-003 and the comment in
   `publication.go` promise that a visible state has all its objects durably written.
2. `quarantine_marker`: a quarantine that finds the marker already linked does not
   wait for its sync and moves the bytes (`local.go:469`); a power loss can keep the
   move and lose the marker, and a later Put stores the object again, which the
   comment at `local.go:465` excludes.
3. `recorder_straggler`: the clock reading for EndSession is taken outside the sink's
   mutex (`recorder.go:393`), so an adapter stream that was left behind can commit a
   later event first; EndSession is then refused and the session keeps status
   `recording`, against ADR-020 and ADR-026.
4. `snapshot_torn`: the second listing of a directory does not see a file overwritten
   in a subdirectory that was captured before (`snapshot.go:203`): the tree that is
   published never existed, against ADR-014. Every single directory in it did, which
   `DirectoriesAreInstants` shows.

A fifth is conceded by a property instead of shown by a run. ADR-026 says of adapter
hook failures (line 27) that "They are recorded as `agent.adapter.error` whenever
persistence is healthy", and the comment at `adapters/codex/rollout.go:314` that the final
read keeps the lines written just before the exit from being lost. But `startEventStream`
drops the error of a stream that was cancelled (`adapter_hooks.go:206`), and the end of
the child cancels it. `LossIsExplained` therefore ends in three cases of a stream that was
cancelled because its child has exited, in which lines are lost and nothing says so:

- no session was announced: `waitForThread` does not look once more after the
  cancellation, so a child that ends before the next poll has no transcript;
- the stream failed before its final read and could not report it in time. Usually the
  cancellation itself made it fail: it arrives during a poll, or the select takes a tick
  that is ready as well, and the next event is refused because the poll's context has
  ended;
- the final read itself stopped (`FinalReadStopped`): reading failed, or it met a line
  that is broken, too long or refused, and the good lines behind that one are lost.

What `LossIsExplained` does promise is that there is no other case: a final read that
comes to the end of the file has told every line that means something.

## 5. What is proved

Each theorem holds for every value of the constants that satisfies the named
assumptions of its modules: any number of sessions, handles, processes, builds, paths,
changes and so on, where TLC checks the instances of section 3. Of the 40 properties
that the passing runs check, the theorems below prove 35. Every inductive invariant has
the same place in the argument: it holds in the initial states, every action keeps it,
and it implies the property.

**The database** (`SessionLogAssumption`: the null values are none of the ids, levels
are 0 to 4, the bound of the sequence number is positive).

- `Typing`, for `TypeOK`, is inductive as it stands; the lemmas say what a request of
  each kind is, what a commit does to `tx`, and that the rows the operations write have
  their types (`ClaimTypes` is where the bound is needed).
- `ReadsValid`, for `ReadsStayValid`: every action that writes marks all other
  transactions stale, and one that does not write leaves what they read. This is what
  justifies splitting an operation in two steps.
- `TimelineOrder`, for `OrderedLog`. `TimelineInv` adds typing, `ReadsStayValid` (so that
  a commit may rely on the status it read) and that an absent session has no rows and
  the next number 1. Each action either keeps the log (`KeepsLogOrder`) or appends one
  event under the next number with a reading not before the last (`AppendOrder`).
- `StatesFormAChain`, `TerminalCloses`, `EvidenceKept`, `ArtifactsAreFounded` and
  `BranchesResolve` rest on `ChainInv` (`TimelineInv` and `StateLineage`). `StepActs`
  reduces the actions to eight things that can happen to the rows (a session is
  created, degraded or described, an event is appended without an effect, a state or an
  artifact is published, a session ends); one lemma says what each does to the rows of
  its session, and the properties are kept row by row.
- `TimelinesImplemented`: `SessionLog` implements `Timeline`. The abstract log is the
  events in the order of their numbers; that an appended event is the last of them
  needs `Counted`, which says that a session has as many events as its next number
  tells.

**The content store** (no assumption but the two sets being what they are).
`CommitsAreDurable` and `ContentStoreImplemented` rest on `StoreInv`: what a process may
assume between two of its system calls while others run. An object it has linked stays
linked or is condemned (`LinkedStays`), bytes it found bad do not become good before the
marker exists (`BadStays`), and bytes are moved only behind the marker (`MarkedFirst`).

**The recorder** (`RecorderAssumption`: configurations are configurations, and input is
forwarded to a PTY only). `RecInv` has nine parts. `Control` says where the other
goroutines can be while `Run` is at a given place, which is where the joins appear;
`SinkInv` says what an idle sink and a session without an end look like; `Owned` says
whose position is that of the last state; `Bounded` and `Accounted` say that what is not
recorded has left a trace (the drain note, the first error, a cause to abort); `Whole`,
`Last` and `Ending` carry what `Run` has established from its decision to its return.
From these follow `BoundariesEnclose`, `PositionIsLatest`, `CompletedAreWhole`,
`CompletedEndThere`, `NoChildIsLeft` and `EndIsOnTime`.

**The opening** (`StartupAssumption`: the two legacy migrations are pinned, a complete
build has the file that adds the checksum column, an old database ends before that
file, keys are not the null values). `PartsKeepTheirSpecs` shows that a run of `Startup`
is a run of `Migrations` and one of `MasterKey`; their invariants then hold of the whole.
`DbInv` relates the table of migrations to the SQL that was executed (`Recorded`), says
what the process that holds the lock has checked (`AtWork`) and that nothing an open
process relies on changes (`Relied`). `KeyInv` says that one process at a time makes a
key, that the marker stands for it while nothing was damaged (`Undamaged`), and that
what has sealed the objects of a data root is what its key check says (`RootInv`). They
give `SchemaIsSeen`, `ChecksumsHold`, `KeyIsOne` and `RefusalsHaveCause`.

**The capture** (names are ordered, the bounds are natural numbers, and the workspace
before the capture is as section 2 says). Stamps are all that a capture sees of a
change, so the invariant `Inv` of `SnapshotProofs` is about what a stamp tells.

- `Worlds`: stamps grow, and an inode that has the stamp it had is what it was.
  `OthersChange` and `ChangesGrow` show that the changes of other processes keep this.
- Almost everything else is conditional on `Still`, that the directory of a frame has the
  stamp with which it was listed. While it has, the first listing agrees with its
  entries (`Proper`, `Complete`), an entry that was captured is what its inode was when
  it had the stamp of the listing (`Told`), and what was read of an open file is a
  beginning of it if the inode is unchanged (`Reading`). When it no longer has, nothing
  is claimed, and the comparison that is still to come ends the capture. The directories
  above wait for their entries in the same sense (`Nested`).
- `Between` is the instant at which the first listing of a directory is complete and the
  second is yet to begin. If the two agree, every entry had its stamp at that instant
  (`ListedTwice`), so the directory was then what its tree tells: `DirectoriesWereSo`.
- `QuietIsCaptured`: while nothing was changed every stamp is 0, so everything is still
  (`Quiet`), and no comparison fails. One that fails has met a change, and a change
  leaves a stamp that the initial workspace does not have.
- `TypeCorrect`, for `TypeOK`, follows from the same invariant.
- `NothingDangles` states what the recursive walk of `TreesAreAccepted` finds at each
  step, without the walk: every object that a stored tree or list of chunks refers to is
  stored before it, with the kind and the size that is said of it (`StoredIsClosed`).
  The invariant `Closure` adds what is not yet referred to: the chunks that were read of
  an open large file, its contents once they are stored, and the entries in the frames,
  which must stay whole while the directories below them are captured (`RelistedCloses`).
  It holds of a capture that ends at any point, since what failed keeps what was stored.

**Restore** (each process wants a state, a state has a part, and no state has the name
of what is not a state). `RestoreProofs` proves the type invariant and all five
properties of the run `restore` (`Typing`, `Complete`, `UserData`, `Litter`, `Branch`,
`ForceOnly`). The inductive invariant `Inv` adds to the properties what the location of
a process tells of the file system (`Staged`: staging is complete at the commit, a
backup exists only between the two renames or after a failure and belongs to a process
with `--force`, and a backup is removed only behind a commit) and, for a rerun, that the
branch it captured is still there or was touched (`Branched`). `RenameKeeps` is the fact
about the file system that `UserData` rests on: no rename replaces a directory with
something in it.

**The observers** (`LinesAssumption`, `NoLineAssumption`, `BoundAssumption`;
`TreeAssumption`, `RootAssumption`, `WatcherAssumption`: finitely many paths whose
directories lead up to the root).

- `TranscriptsArePrefixes` and `LossesAreExplained`. `RolloutInv` says how far the stream
  has read (`Reading`), that while it runs it has told every line it has treated
  (`Telling`), and why it can have returned (`Returned`, `Told`): for each cause of a
  return, whether everything before the exit was told, and if not, that it was before the
  final read or that the final read stopped. In the last case what is told must end at a line that
  cannot be read, which `ReturnedKeeps` shows of the treatment of a line, `ReadReturns` of
  a line that is noticed to be too long while a part of it is read, and
  `UnreadableMeansNothing` is why what is told up to that line is what was told before it.
- `BlindSpotsAreReported`. `NoUnreportedBlindSpot` is not inductive: that a notification
  or a walk leads to a directory is lost when a directory further up is watched and the
  next one is yet to be listed. `NothingUnseen` is: a walk that is about to list a
  directory leads to what is below it and no longer to the directory itself, and it is
  claimed from the creation of the watcher on. A directory appears in a watched parent,
  which notifies, or in one that something else leads to (`ChangeIsSeen`). A loop that has
  failed is conceded: it takes no error from the watcher any more, and the recording is
  aborted with it.
- `ArtifactsAreTrue`, for `ArtifactsTellTheFiles`, which speaks of the window between a
  checkpoint and its artifacts: the files in `pending` are excepted, and there are some
  only while the loop records them or after it failed. That the window closes before the
  next checkpoint is what makes the old artifacts true of the paths that a new checkpoint
  does not change. With `ArtifactsHavePaths`, that there is an entry for each path, it is
  inductive.
- `StreamTyping` and `WatcherTyping`, for the type invariants, need of `RolloutInv` where
  the stream has read to, and of the watcher nothing else.

**The reports** are functions of what was recorded, so `ReportProofs` first shows what
the functions compute, for every log and every pair of trees, and then that the specs
give them such arguments. The library's induction theorems take an operator as
a parameter, which the installed provers cannot instantiate, so a claim about every turn
of a loop is proved from its least counterexample (`LeastIn`).

- `SpansAreTrue`, for `SpansTellTheCalls`. `Tools` is a loop over the events; after n of
  them each pair has the result that closes its call by the reference definition, if that
  is among the first n, and the open calls of an id are those that counting brackets
  leaves open (`Paired`, `Listed`, `Matched`). That the newest open call is the one a
  result closes is an argument about balances: from a call to the result that closes it
  the calls lead, and beyond any later open call they do not come back to it. That tool
  keys differ rests on the sequence numbers, and that times lie within the root span on
  the bounds of a finite set of integers.
- `RoundTrips`, for `RoundTrip`, from `TextAssumption` (a line's text is one of the three
  that `GenAITrace` tells apart, so that none is the empty text of the call that an orphaned
  result brings). Sorting places an element by counting what is before it, which is a
  bijection for any strict order (`InOrderIs`), and a map that keeps the order keeps the
  places (`SameOrder`): so the messages come back in the order of their times. The
  drafts of a trace lie span after span (`Laid`: the messages of the root span behind its
  first drafts, then one call and at most one result of each tool), and sorting changes
  no number of like drafts (`SortingKeepsAlike`). Each call has one tool and each result
  exactly one: two calls that one result closes are the same call, since the balances of
  the stretch between them would differ (`ClosedByOne`). No result precedes its call
  because the result's draft is dated no earlier, and in the sorted drafts each result
  up to a place has a call of its own up to that place (`CallsPrecede`).
- `DiffsAreTrue`, for `DiffTellsTheChange`, from `DiffAssumption` (each node once in the
  order of names) and `RootAssumption` (every path leads up to the root). The sorted
  entries of a directory exist and are unique; the merge loop, after k turns, has listed
  what the entries before its two positions require, in their order (one argument for
  each of the three turns); a directory's list is then that of its topmost changes, by
  the least counterexample along the directories above it.

Only model-checked:

- liveness (`RunReturns`, `EveryOpenSettles`, `StreamEnds`, `CheckpointsCatchUp`), which is
  out of the prover's reach;
- `TreesAreAccepted`, whose walk is a recursive operator, which a module with proofs
  cannot contain; `NothingDangles` is what a proof can say of it, the counts of the walk
  are TLC's alone.

## 6. Not modelled, and the plan

Of the properties of the runs, those that are not proved are named in section 5.

Candidates that no run covers: the alignment of two timelines (`compare.go`,
`timeline.go`), chunk boundaries and the encoding of chunk lists, canonical trees and
path portability. They are pure algorithms over long byte strings or event sequences, whose hard cases (rolling hashes, prefix codes, text normalization)
lie in the data that a small model leaves out.

Known limits of the code that are no property here: a recorder that is killed leaves its
session in status `recording`, and nothing moves it on; a grandchild that keeps a pipe
open delays the end of the recording; PTY input that arrives after the exit turns a
finished recording into an aborted one (`InputBreaks` allows it); a change that keeps
size and modification time is not seen by a capture; a path that has just become an
ignored directory swallows the notification of the file it replaced (`Swallowed`).

Left out for good: the text of privacy patterns, command-line parsing, terminal device
handling and operating-system probes, which keep no state that another part relies on;
encryption and compression of
objects, which `LocalStore` abstracts to bytes that verify or do not.
