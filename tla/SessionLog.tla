---------------------------- MODULE SessionLog ----------------------------
(***************************************************************************)
(* The metadata database of a Replay store (internal/persistence): the     *)
(* session, event, state, artifact and environment rows, and every         *)
(* operation that writes them.                                             *)
(*                                                                         *)
(* Each operation runs in one SQLite transaction begun in deferred mode.   *)
(* An operation whose first statement is an UPDATE takes the write lock at *)
(* once and is one action here.  An operation that first READS what it     *)
(* validates (the lineage of a snapshot, the reachability of an artifact,  *)
(* the status of a session) is two: Begin<Op> reads a snapshot of the      *)
(* database and Commit<Op> takes the write lock and writes.  In WAL mode   *)
(* SQLite refuses the write lock to a transaction whose snapshot another   *)
(* commit has overtaken, which is what `stale' records.                    *)
(***************************************************************************)
EXTENDS Naturals, FiniteSets

CONSTANTS
    Sessions,     \* session ids
    States,       \* state ids
    Roots,        \* root tree object ids
    Objects,      \* object ids below a root
    FileObjects,  \* those of kind blob or chunk_list
    Reach,        \* Reach[r]: the objects reachable from root r
    Paths,        \* workspace-relative paths
    Levels,       \* reproducibility levels a caller may start at, R0 to R4
    Times,        \* monotonic readings a caller may present
    MaxEventSeq,  \* claimEventSequence's bound, 2^63-1 in the code
    Clients,      \* database handles: recorder threads and other processes
    None          \* an absent (NULL) id

ASSUME SessionLogAssumption ==
    /\ None \notin Sessions \cup States \cup Objects
    /\ FileObjects \subseteq Objects
    /\ Reach \in [Roots -> SUBSET Objects]
    /\ Levels \subseteq 0 .. 4
    /\ Times \subseteq Nat
    /\ MaxEventSeq \in Nat \ {0}

VARIABLES
    sessions,      \* sessions[s]: the row of s, status "absent" when there is none
    events,        \* the rows of events
    states,        \* the rows of states; state_objects is Reach[row.root]
    artifacts,     \* the rows of artifacts
    environments,  \* the sessions with a row in environments
    tx             \* tx[c]: the transaction client c has read for, or Idle

vars == <<sessions, events, states, artifacts, environments, tx>>
db   == <<sessions, events, states, artifacts, environments>>

---------------------------------------------------------------------------
(* Rows and requests.                                                      *)

Statuses  == {"absent", "recording", "completed", "aborted", "degraded"}
Roles     == {"initial", "checkpoint", "final"}
Kinds     == {"event", "state.snapshot", "fs.artifact.discovered",
              "session.completed", "session.aborted"}
Changes   == {"created", "modified", "replaced"}
OptState  == States \cup {None}
OptObject == Objects \cup {None}
Seqs      == 1 .. MaxEventSeq

SessionRow  == [status : Statuses, next : Seqs, initial : OptState,
                final : OptState, level : 0 .. 4,
                parent : Sessions \cup {None}, fork : Nat]
EventRow    == [session : Sessions, seq : Seqs, mono : Times, kind : Kinds,
                before : OptState, after : OptState]
StateRow    == [id : States, session : Sessions, seq : Seqs, root : Roots]
ArtifactRow == [session : Sessions, seq : Seqs, from : States, to : States,
                path : Paths, object : Objects, prev : OptObject]

AbsentSession == [status |-> "absent", next |-> 1, initial |-> None,
                  final |-> None, level |-> 0, parent |-> None, fork |-> 0]

\* What the request validation before each transaction lets through, and of it
\* what the transaction reads for; the rest (the monotonic reading, the root, the
\* level) matters only to the writes and is chosen with them.
AppendRequests == [op : {"append"}, session : Sessions, ref : States]

CreateRequests ==
    {r \in [op : {"create"}, session : Sessions, parent : Sessions, fork : Seqs,
            state : States] : r.parent # r.session}

SnapshotRequests ==
    {r \in [op : {"snapshot"}, session : Sessions, role : Roles, state : States,
            before : OptState] :
        r.before = None <=> r.role = "initial"}

ArtifactRequests ==
    {r \in [op : {"artifact"}, session : Sessions, from : States, to : States,
            path : Paths, object : Objects, prev : OptObject, change : Changes] :
        /\ r.from # r.to
        /\ r.prev # r.object
        /\ r.prev = None <=> r.change = "created"}

EnvironmentRequests == [op : {"environment"}, session : Sessions]

EndRequests ==
    {r \in [op : {"end"}, session : Sessions, status : {"completed", "aborted"},
            state : OptState] :
        r.status = "completed" => r.state # None}

Requests == AppendRequests \cup CreateRequests \cup SnapshotRequests
            \cup ArtifactRequests \cup EnvironmentRequests \cup EndRequests

Idle == [open |-> FALSE]
OpenTx == [open : {TRUE}, req : Requests, stale : BOOLEAN]

---------------------------------------------------------------------------
(* Queries.                                                                *)

EventsOf(s) == {e \in events : e.session = s}
StatesOf(s) == {x \in states : x.session = s}

Recording(s) == sessions[s].status = "recording"

Owns(s, id) == \E x \in StatesOf(s) : x.id = id

\* ORDER BY event_seq DESC LIMIT 1 is the state `id'.
IsLatestState(s, id) ==
    \E x \in StatesOf(s) : x.id = id /\ \A y \in StatesOf(s) : y.seq <= x.seq

\* Object o is linked to state `id' of session s through state_objects.
ReachableFrom(s, id, o) == \E x \in StatesOf(s) : x.id = id /\ o \in Reach[x.root]

---------------------------------------------------------------------------
(* What each transaction reads before it writes.                           *)

\* Mutant of ForkResolves: the fork sequence is not compared.
ForkStateExists(r) ==
    sessions[r.parent].status # "absent" /\ Owns(r.parent, r.state)

ForkResolves(r) ==
    /\ sessions[r.parent].status # "absent"
    /\ \E x \in StatesOf(r.parent) : x.id = r.state /\ x.seq = r.fork

\* Mutant of SnapshotLineage: any state of the session will do as state_before.
LineageWithoutFreshness(r) ==
    /\ Recording(r.session)
    /\ sessions[r.session].final = None
    /\ IF r.role = "initial"
       THEN sessions[r.session].initial = None /\ StatesOf(r.session) = {}
       ELSE sessions[r.session].initial # None /\ Owns(r.session, r.before)

SnapshotLineage(r) ==
    /\ Recording(r.session)
    /\ sessions[r.session].final = None
    /\ IF r.role = "initial"
       THEN sessions[r.session].initial = None /\ StatesOf(r.session) = {}
       ELSE sessions[r.session].initial # None /\ IsLatestState(r.session, r.before)

\* Mutant of ArtifactReachable: the object is not looked up in the state.
ArtifactStatesExist(r) ==
    /\ Owns(r.session, r.from) /\ Owns(r.session, r.to)
    /\ r.object \in FileObjects

ArtifactReachable(r) ==
    /\ Owns(r.session, r.from) /\ Owns(r.session, r.to)
    /\ ReachableFrom(r.session, r.to, r.object) /\ r.object \in FileObjects
    /\ r.prev # None => ReachableFrom(r.session, r.from, r.prev)
    /\ r.change = "modified" => r.prev \in FileObjects

EnvironmentAllowed(r) ==
    /\ Recording(r.session)
    /\ sessions[r.session].initial # None
    /\ r.session \notin environments

\* Mutant of EndAllowed: completion accepts any state of the session.
EndWithoutFinalState(r) ==
    Recording(r.session) /\ (r.state # None => Owns(r.session, r.state))

EndAllowed(r) ==
    /\ Recording(r.session)
    /\ IF r.status = "completed"
       THEN sessions[r.session].final = r.state
       ELSE r.state # None => Owns(r.session, r.state)

Validated(r) ==
    CASE r.op = "append"      -> Owns(r.session, r.ref)
      [] r.op = "create"      -> ForkResolves(r)
      [] r.op = "snapshot"    -> SnapshotLineage(r)
      [] r.op = "artifact"    -> ArtifactReachable(r)
      [] r.op = "environment" -> EnvironmentAllowed(r)
      [] r.op = "end"         -> EndAllowed(r)

---------------------------------------------------------------------------
(* Writes every transaction shares.                                        *)

\* Mutants of Claimable: the status, or the bound, is not tested.
ClaimableAnyStatus(s) == sessions[s].status # "absent" /\ sessions[s].next < MaxEventSeq
ClaimableUnbounded(s) == Recording(s)

\* claimEventSequence hands out next_event_seq of a recording session, up to
\* its bound: at the bound nothing can be appended any more.
Claimable(s) == Recording(s) /\ sessions[s].next < MaxEventSeq

\* validateMonotonicOrder: t is not before the reading of the last event.
MonotonicAfter(s, t) ==
    \A e \in EventsOf(s) : (\A f \in EventsOf(s) : f.seq <= e.seq) => e.mono <= t

\* The row insertEventTx writes under the claimed sequence number.
NewEvent(s, t, kind, before, after) ==
    [session |-> s, seq |-> sessions[s].next, mono |-> t, kind |-> kind,
     before |-> before, after |-> after]

\* Mutant of WithNext: the sequence number is not consumed.
SameNext(row) == row

WithNext(row) == [row EXCEPT !.next = @ + 1]

\* Mutant of Committed: a write lock is granted whatever was read before it.
LeaveOthersFresh(c) == tx' = [tx EXCEPT ![c] = Idle]

\* Client c commits: every other transaction has now read an old database.
Committed(c) ==
    tx' = [d \in Clients |->
             CASE d = c -> Idle
               [] d # c /\ tx[d].open -> [tx[d] EXCEPT !.stale = TRUE]
               [] OTHER -> tx[d]]

\* The transaction of c for operation op can take the write lock.
Ready(c, op) == tx[c].open /\ tx[c].req.op = op /\ ~tx[c].stale

Begin(c, r) ==
    /\ ~tx[c].open
    /\ Validated(r)
    /\ tx' = [tx EXCEPT ![c] = [open |-> TRUE, req |-> r, stale |-> FALSE]]
    /\ UNCHANGED db

---------------------------------------------------------------------------
(* CreateSession.                                                          *)

InsertSession(s, level, parent, fork) ==
    /\ sessions[s].status = "absent"
    /\ sessions' = [sessions EXCEPT ![s] =
                      [AbsentSession EXCEPT !.status = "recording", !.level = level,
                                            !.parent = parent, !.fork = fork]]
    /\ UNCHANGED <<events, states, artifacts, environments>>

CreateRootSession(c, s, level) ==
    ~tx[c].open /\ InsertSession(s, level, None, 0) /\ Committed(c)

CommitCreate(c, level) ==
    /\ Ready(c, "create")
    /\ LET r == tx[c].req IN InsertSession(r.session, level, r.parent, r.fork)
    /\ Committed(c)

---------------------------------------------------------------------------
(* AppendEvent.                                                            *)

InsertEvent(s, t, before, after) ==
    /\ Claimable(s) /\ MonotonicAfter(s, t)
    /\ events' = events \cup {NewEvent(s, t, "event", before, after)}
    /\ sessions' = [sessions EXCEPT ![s] = WithNext(@)]
    /\ UNCHANGED <<states, artifacts, environments>>

AppendEvent(c, s, t) == ~tx[c].open /\ InsertEvent(s, t, None, None) /\ Committed(c)

CommitAppend(c, t) ==
    /\ Ready(c, "append")
    /\ LET r == tx[c].req IN InsertEvent(r.session, t, r.ref, r.ref)
    /\ Committed(c)

---------------------------------------------------------------------------
(* PublishSnapshot.                                                        *)

\* attachPublishedState's update of the session row.
Attach(row, r) ==
    CASE r.role = "initial"    -> [row EXCEPT !.initial = r.state,
                                              !.level = IF @ = 0 THEN 1 ELSE @]
      [] r.role = "final"      -> [row EXCEPT !.final = r.state]
      [] r.role = "checkpoint" -> row

CommitSnapshot(c, root, t) ==
    /\ Ready(c, "snapshot")
    /\ LET r == tx[c].req
           s == r.session IN
         /\ Claimable(s) /\ MonotonicAfter(s, t)
         /\ \A x \in states : x.id # r.state
         /\ states' = states \cup {[id |-> r.state, session |-> s,
                                    seq |-> sessions[s].next, root |-> root]}
         /\ events' = events \cup
              {NewEvent(s, t, "state.snapshot", r.before, r.state)}
         /\ sessions' = [sessions EXCEPT ![s] = Attach(WithNext(@), r)]
         /\ UNCHANGED <<artifacts, environments>>
    /\ Committed(c)

---------------------------------------------------------------------------
(* PublishArtifact.                                                        *)

CommitArtifact(c, t) ==
    /\ Ready(c, "artifact")
    /\ LET r == tx[c].req
           s == r.session IN
         /\ Claimable(s) /\ MonotonicAfter(s, t)
         /\ \A a \in artifacts :
              ~(a.session = s /\ a.to = r.to /\ a.path = r.path /\ a.object = r.object)
         /\ artifacts' = artifacts \cup
              {[session |-> s, seq |-> sessions[s].next, from |-> r.from,
                to |-> r.to, path |-> r.path, object |-> r.object, prev |-> r.prev]}
         /\ events' = events \cup
              {NewEvent(s, t, "fs.artifact.discovered", r.from, r.to)}
         /\ sessions' = [sessions EXCEPT ![s] = WithNext(@)]
         /\ UNCHANGED <<states, environments>>
    /\ Committed(c)

---------------------------------------------------------------------------
(* StoreEnvironment.                                                       *)

CommitEnvironment(c) ==
    /\ Ready(c, "environment")
    /\ LET s == tx[c].req.session IN
         /\ environments' = environments \cup {s}
         /\ sessions' = [sessions EXCEPT ![s].level = IF @ \in {0, 1} THEN 2 ELSE @]
         /\ UNCHANGED <<events, states, artifacts>>
    /\ Committed(c)

---------------------------------------------------------------------------
(* EndSession.                                                             *)

TerminalKind(status) ==
    IF status = "completed" THEN "session.completed" ELSE "session.aborted"

CommitEnd(c, t) ==
    /\ Ready(c, "end")
    /\ LET r == tx[c].req
           s == r.session IN
         /\ Claimable(s) /\ MonotonicAfter(s, t)
         /\ events' = events \cup
              {NewEvent(s, t, TerminalKind(r.status), r.state, r.state)}
         /\ sessions' = [sessions EXCEPT ![s] = [WithNext(@) EXCEPT !.status = r.status]]
         /\ UNCHANGED <<states, artifacts, environments>>
    /\ Committed(c)

---------------------------------------------------------------------------
(* Degradation, and transactions that end without an effect.               *)

\* PublishSnapshot's answer to a corrupt CAS object, found before its
\* transaction begins (MarkSessionDegraded).
MarkSessionDegraded(c, s) ==
    /\ ~tx[c].open
    /\ sessions[s].status \in {"recording", "degraded"}
    /\ sessions' = [sessions EXCEPT ![s].status = "degraded"]
    /\ UNCHANGED <<events, states, artifacts, environments>>
    /\ Committed(c)

\* The verifier's and the restorer's answer, from any status.
MarkSessionIntegrityDegraded(c, s) ==
    /\ ~tx[c].open
    /\ sessions[s].status # "absent"
    /\ sessions' = [sessions EXCEPT ![s].status = "degraded"]
    /\ UNCHANGED <<events, states, artifacts, environments>>
    /\ Committed(c)

\* Refused by a later check, by SQLITE_BUSY, by a cancelled context, or lost
\* in a crash of the process: the transaction rolls back.
Rollback(c) ==
    /\ tx[c].open
    /\ tx' = [tx EXCEPT ![c] = Idle]
    /\ UNCHANGED db

---------------------------------------------------------------------------

Init ==
    /\ sessions = [s \in Sessions |-> AbsentSession]
    /\ events = {} /\ states = {} /\ artifacts = {} /\ environments = {}
    /\ tx = [c \in Clients |-> Idle]

Write(c) ==
    \/ \E s \in Sessions, l \in Levels : CreateRootSession(c, s, l)
    \/ \E s \in Sessions, t \in Times : AppendEvent(c, s, t)
    \/ \E s \in Sessions : MarkSessionDegraded(c, s)
    \/ \E s \in Sessions : MarkSessionIntegrityDegraded(c, s)

Commit(c) ==
    \/ \E l \in Levels : CommitCreate(c, l)
    \/ \E t \in Times : CommitAppend(c, t)
    \/ \E root \in Roots, t \in Times : CommitSnapshot(c, root, t)
    \/ \E t \in Times : CommitArtifact(c, t)
    \/ CommitEnvironment(c)
    \/ \E t \in Times : CommitEnd(c, t)

Next == \E c \in Clients :
    \/ \E r \in Requests : Begin(c, r)
    \/ Write(c) \/ Commit(c) \/ Rollback(c)

Spec == Init /\ [][Next]_vars

---------------------------------------------------------------------------
(* Properties.                                                             *)

\* Every row has its columns' types: in particular next_event_seq never
\* passes the largest value claimEventSequence may store.
TypeOK ==
    /\ sessions \in [Sessions -> SessionRow]
    /\ events \subseteq EventRow
    /\ states \subseteq StateRow
    /\ artifacts \subseteq ArtifactRow
    /\ environments \subseteq Sessions
    /\ tx \in [Clients -> {Idle} \cup OpenTx]

\* The events of a session are numbered 1, 2, ... without a gap or a double,
\* and next_event_seq is the number of the next one: what ListEvents requires
\* of the rows it reads, whatever operations interleaved or rolled back.
EventSequence ==
    \A s \in Sessions :
        /\ \A e \in EventsOf(s) : e.seq < sessions[s].next
        /\ \A i \in 1 .. sessions[s].next - 1 : \E e \in EventsOf(s) : e.seq = i
        /\ \A e, f \in EventsOf(s) : e.seq = f.seq => e = f

\* Along those numbers the monotonic readings never go back (ListEvents too).
MonotonicOrder ==
    \A s \in Sessions : \A e, f \in EventsOf(s) : e.seq < f.seq => e.mono <= f.mono

\* Both: the log of a session is one sequence in the order of time.
OrderedLog == EventSequence /\ MonotonicOrder

\* The states of a session form one chain: each is published by a snapshot
\* event that names the state published just before it, the first is the
\* session's initial state, and no state follows the final one.
StateLineage ==
    \A x \in states :
        LET prior == {y \in StatesOf(x.session) : y.seq < x.seq} IN
        /\ \E e \in EventsOf(x.session) :
             /\ e.seq = x.seq /\ e.kind = "state.snapshot" /\ e.after = x.id
             /\ IF prior = {}
                THEN e.before = None /\ sessions[x.session].initial = x.id
                ELSE \E y \in prior : y.id = e.before /\ \A z \in prior : z.seq <= y.seq
        /\ \A y \in prior : y.id # sessions[x.session].final

\* A terminal event is the last event of its session; a session is completed
\* or aborted only behind the matching terminal event, and a completed one
\* ends on the state it published as final.
TerminalClosesSession ==
    \A s \in Sessions :
        /\ \A e \in EventsOf(s) : e.kind \in {"session.completed", "session.aborted"} =>
             /\ e.seq + 1 = sessions[s].next
             /\ sessions[s].status \in
                  {IF e.kind = "session.completed" THEN "completed" ELSE "aborted", "degraded"}
             /\ e.kind = "session.completed" =>
                  e.after # None /\ e.after = sessions[s].final
        /\ sessions[s].status \in {"completed", "aborted"} =>
             \E e \in EventsOf(s) : e.kind = TerminalKind(sessions[s].status)

\* A branch names a state its parent really published at the fork sequence,
\* and two sessions are never each other's parent.
LineageResolves ==
    \A s \in Sessions : sessions[s].parent # None =>
        LET p == sessions[s].parent IN
        /\ \E x \in StatesOf(p) : x.seq = sessions[s].fork
        /\ p # s /\ sessions[p].parent # s

\* An artifact row has its discovery event, later than the state that made the
\* file observable, and its object is reachable from that state: it never
\* points at unrelated content.
ArtifactProvenance ==
    \A a \in artifacts :
        /\ \E x \in StatesOf(a.session) :
             x.id = a.to /\ x.seq < a.seq /\ a.object \in Reach[x.root]
        /\ a.prev # None => ReachableFrom(a.session, a.from, a.prev)
        /\ \E e \in EventsOf(a.session) :
             /\ e.seq = a.seq /\ e.kind = "fs.artifact.discovered"
             /\ e.before = a.from /\ e.after = a.to

\* What an open transaction validated still holds as long as no other commit
\* has overtaken it: its write can rely on its reads.
ReadsStayValid ==
    \A c \in Clients : tx[c].open /\ ~tx[c].stale => Validated(tx[c].req)

\* Rows are never changed or deleted, and once a session has stopped recording
\* no client adds anything to it: not an event, a state, an artifact, an
\* environment or a pointer.
EvidenceIsKept ==
    [][/\ events \subseteq events' /\ states \subseteq states'
       /\ artifacts \subseteq artifacts'
       /\ \A s \in Sessions : sessions[s].status \notin {"absent", "recording"} =>
            /\ sessions'[s] = [sessions[s] EXCEPT !.status = sessions'[s].status]
            /\ sessions'[s].status \in {sessions[s].status, "degraded"}
            /\ EventsOf(s)' = EventsOf(s) /\ StatesOf(s)' = StatesOf(s)
            /\ s \in environments' <=> s \in environments]_vars

\* The timeline of s as its readers see it, in ORDER BY seq.
LogOf(s) ==
    [i \in 1 .. Cardinality(EventsOf(s)) |->
        LET e == CHOOSE e \in EventsOf(s) : e.seq = i
        IN [mono |-> e.mono, kind |-> e.kind]]

Readers == INSTANCE Timeline WITH
    log    <- [s \in Sessions |-> LogOf(s)],
    status <- [s \in Sessions |-> sessions[s].status]

\* The database implements the timelines its readers are promised.
ImplementsTimeline == Readers!Spec
============================================================================
