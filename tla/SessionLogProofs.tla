------------------------- MODULE SessionLogProofs -------------------------
(***************************************************************************)
(* Theorems about the metadata database, for any number of sessions,       *)
(* states, clients and events.                                             *)
(*                                                                         *)
(* First the transactions: types, reads, the order of events and the use   *)
(* of time.  Then what the rows of a session say of each other: its states *)
(* form a chain, its terminal event closes it, artifacts and branches      *)
(* refer to states that exist, and what was recorded is kept.  So the      *)
(* database implements the timelines its readers are promised: every step  *)
(* of SessionLog is a step of Timeline, or changes nothing a reader sees.  *)
(***************************************************************************)
EXTENDS SessionLog, Sequences, FiniteSetTheorems, SequenceTheorems, TLAPS

(* The row of a request is one of its kind: what Ready says of tx[c].req.  *)
LEMMA RequestOfKind ==
    ASSUME TypeOK, NEW c \in Clients, tx[c].open
    PROVE  /\ tx[c] \in OpenTx
           /\ tx[c].req.op = "append" => tx[c].req \in AppendRequests
           /\ tx[c].req.op = "create" => tx[c].req \in CreateRequests
           /\ tx[c].req.op = "snapshot" => tx[c].req \in SnapshotRequests
           /\ tx[c].req.op = "artifact" => tx[c].req \in ArtifactRequests
           /\ tx[c].req.op = "environment" => tx[c].req \in EnvironmentRequests
           /\ tx[c].req.op = "end" => tx[c].req \in EndRequests
  <1>1. tx[c] \in OpenTx
    BY DEF TypeOK, Idle
  <1>2. tx[c].req \in Requests
    BY <1>1 DEF OpenTx
  <1> QED
    BY <1>1, <1>2 DEF Requests, AppendRequests, CreateRequests, SnapshotRequests,
       ArtifactRequests, EnvironmentRequests, EndRequests

(* Committing leaves every transaction idle or open, and never changes what *)
(* another client asked for.                                                *)
LEMMA CommittedTx ==
    ASSUME TypeOK, NEW c \in Clients, Committed(c)
    PROVE  /\ tx' \in [Clients -> {Idle} \cup OpenTx]
           /\ \A d \in Clients : tx'[d].open => tx'[d].stale
  <1>1. ASSUME NEW d \in Clients
        PROVE  /\ tx'[d] \in {Idle} \cup OpenTx
               /\ tx'[d].open => tx'[d].stale
    <2>0. tx'[d] = CASE d = c -> Idle
               [] d # c /\ tx[d].open -> [tx[d] EXCEPT !.stale = TRUE]
               [] OTHER -> tx[d]
      BY DEF Committed
    <2>1. CASE d = c
      BY <2>1, <2>0 DEF Idle
    <2>2. CASE d # c /\ tx[d].open
      <3>1. tx[d] \in OpenTx
        BY <2>2, RequestOfKind
      <3>2. tx'[d] = [tx[d] EXCEPT !.stale = TRUE]
        BY <2>2, <2>0
      <3> QED  BY <3>1, <3>2 DEF OpenTx
    <2>3. CASE d # c /\ ~tx[d].open
      <3>1. tx'[d] = tx[d]
        BY <2>3, <2>0
      <3> QED  BY <3>1, <2>3 DEF TypeOK
    <2> QED  BY <2>1, <2>2, <2>3
  <1> QED
    BY <1>1 DEF Committed

(* The session row after the claim of a sequence number.                   *)
LEMMA ClaimTypes ==
    ASSUME TypeOK, SessionLogAssumption, NEW s \in Sessions, Claimable(s)
    PROVE  /\ sessions[s].next \in Seqs
           /\ WithNext(sessions[s]) \in SessionRow
  BY DEF TypeOK, SessionLogAssumption, Claimable, WithNext, SessionRow, Seqs

(* A new event is a row of the events table.                               *)
LEMMA NewEventType ==
    ASSUME TypeOK, NEW s \in Sessions, NEW t \in Times, NEW k \in Kinds,
           NEW b \in OptState, NEW a \in OptState
    PROVE  NewEvent(s, t, k, b, a) \in EventRow
  BY DEF TypeOK, NewEvent, EventRow, SessionRow

(* attachPublishedState changes the pointers and the level, nothing else.    *)
LEMMA AttachRow ==
    ASSUME NEW row \in SessionRow, NEW r \in SnapshotRequests
    PROVE  /\ Attach(row, r) \in SessionRow
           /\ Attach(row, r).next = row.next
           /\ Attach(row, r).status = row.status
  <1>1. r.role \in Roles /\ r.state \in OptState
    BY DEF SnapshotRequests, OptState
  <1>2. CASE r.role = "initial"
    <2>1. Attach(row, r) = [row EXCEPT !.initial = r.state,
                                       !.level = IF @ = 0 THEN 1 ELSE @]
      BY <1>2 DEF Attach
    <2>2. (IF row.level = 0 THEN 1 ELSE row.level) \in 0 .. 4
      BY DEF SessionRow
    <2> QED  BY <1>1, <2>1, <2>2 DEF SessionRow
  <1>3. CASE r.role = "final"
    <2>1. Attach(row, r) = [row EXCEPT !.final = r.state]
      BY <1>3 DEF Attach
    <2> QED  BY <1>1, <2>1 DEF SessionRow
  <1>4. CASE r.role = "checkpoint"
    BY <1>4 DEF Attach
  <1> QED  BY <1>1, <1>2, <1>3, <1>4 DEF Roles

(* Type correctness; next_event_seq stays within its column.               *)
THEOREM Typing == Spec => []TypeOK
  <1> USE SessionLogAssumption
  <1>1. Init => TypeOK
    BY DEF Init, TypeOK, AbsentSession, SessionRow, Statuses, OptState, Seqs,
       SessionLogAssumption
  <1>2. TypeOK /\ [Next]_vars => TypeOK'
    <2> SUFFICES ASSUME TypeOK, [Next]_vars PROVE TypeOK'
      OBVIOUS
    <2>1. ASSUME NEW c \in Clients, NEW r \in Requests, Begin(c, r) PROVE TypeOK'
      BY <2>1 DEF Begin, db, TypeOK, OpenTx
    <2>2. ASSUME NEW c \in Clients, NEW s \in Sessions, NEW l \in Levels,
                 NEW p \in Sessions \cup {None}, NEW f \in Nat,
                 InsertSession(s, l, p, f), Committed(c)
          PROVE  TypeOK'
      <3>0. None \in OptState /\ 1 \in Seqs /\ l \in 0 .. 4 /\ "recording" \in Statuses
        BY DEF OptState, Seqs, Statuses, SessionLogAssumption
      <3>1. [AbsentSession EXCEPT !.status = "recording", !.level = l,
                                  !.parent = p, !.fork = f] \in SessionRow
        BY <3>0 DEF AbsentSession, SessionRow
      <3> QED  BY <2>2, <3>1, CommittedTx DEF InsertSession, TypeOK
    <2>3. ASSUME NEW c \in Clients, NEW s \in Sessions, NEW t \in Times,
                 NEW b \in OptState, InsertEvent(s, t, b, b), Committed(c)
          PROVE  TypeOK'
      <3>1. NewEvent(s, t, "event", b, b) \in EventRow
        BY NewEventType DEF Kinds
      <3> QED  BY <2>3, <3>1, ClaimTypes, CommittedTx DEF InsertEvent, TypeOK
    <2>4. ASSUME NEW c \in Clients, NEW s \in Sessions,
                 MarkSessionDegraded(c, s) \/ MarkSessionIntegrityDegraded(c, s)
          PROVE  TypeOK'
      <3>1. Committed(c) /\ sessions' = [sessions EXCEPT ![s].status = "degraded"]
            /\ UNCHANGED <<events, states, artifacts, environments>>
        BY <2>4 DEF MarkSessionDegraded, MarkSessionIntegrityDegraded
      <3>2. [sessions[s] EXCEPT !.status = "degraded"] \in SessionRow
        BY DEF TypeOK, SessionRow, Statuses
      <3> QED  BY <3>1, <3>2, CommittedTx DEF TypeOK
    <2>5. ASSUME NEW c \in Clients, NEW l \in Levels, CommitCreate(c, l) PROVE TypeOK'
      <3>1. tx[c].req \in CreateRequests /\ Committed(c)
        BY <2>5, RequestOfKind DEF CommitCreate, Ready
      <3>2. tx[c].req.session \in Sessions /\ tx[c].req.parent \in Sessions
            /\ tx[c].req.fork \in Nat
        BY <3>1 DEF CreateRequests, Seqs
      <3> QED  BY <2>5, <2>2, <3>1, <3>2 DEF CommitCreate
    <2>6. ASSUME NEW c \in Clients, NEW t \in Times, CommitAppend(c, t) PROVE TypeOK'
      <3>1. tx[c].req \in AppendRequests /\ Committed(c)
        BY <2>6, RequestOfKind DEF CommitAppend, Ready
      <3>2. tx[c].req.session \in Sessions /\ tx[c].req.ref \in OptState
        BY <3>1 DEF AppendRequests, OptState
      <3> QED  BY <2>6, <2>3, <3>1, <3>2 DEF CommitAppend
    <2>7. ASSUME NEW c \in Clients, NEW root \in Roots, NEW t \in Times,
                 CommitSnapshot(c, root, t)
          PROVE  TypeOK'
      <3> DEFINE r == tx[c].req
                 s == r.session
      <3>1. r \in SnapshotRequests /\ Committed(c)
        BY <2>7, RequestOfKind DEF CommitSnapshot, Ready
      <3>2. s \in Sessions /\ r.state \in States /\ r.before \in OptState /\ r.role \in Roles
        BY <3>1 DEF SnapshotRequests
      <3>3. sessions[s].next \in Seqs /\ WithNext(sessions[s]) \in SessionRow
        BY <2>7, <3>2, ClaimTypes DEF CommitSnapshot
      <3>4. Attach(WithNext(sessions[s]), r) \in SessionRow
        BY <3>1, <3>3, AttachRow
      <3>5. NewEvent(s, t, "state.snapshot", r.before, r.state) \in EventRow
        BY <3>2, NewEventType DEF Kinds, OptState
      <3>6. [id |-> r.state, session |-> s, seq |-> sessions[s].next, root |-> root]
              \in StateRow
        BY <3>2, <3>3 DEF StateRow
      <3> QED  BY <2>7, <3>1, <3>2, <3>4, <3>5, <3>6, CommittedTx DEF CommitSnapshot, TypeOK
    <2>8. ASSUME NEW c \in Clients, NEW t \in Times, CommitArtifact(c, t) PROVE TypeOK'
      <3> DEFINE r == tx[c].req
                 s == r.session
      <3>1. r \in ArtifactRequests /\ Committed(c)
        BY <2>8, RequestOfKind DEF CommitArtifact, Ready
      <3>2. s \in Sessions /\ r.from \in States /\ r.to \in States /\ r.path \in Paths
            /\ r.object \in Objects /\ r.prev \in OptObject
        BY <3>1 DEF ArtifactRequests
      <3>3. sessions[s].next \in Seqs /\ WithNext(sessions[s]) \in SessionRow
        BY <2>8, <3>2, ClaimTypes DEF CommitArtifact
      <3>4. NewEvent(s, t, "fs.artifact.discovered", r.from, r.to) \in EventRow
        BY <3>2, NewEventType DEF Kinds, OptState
      <3>5. [session |-> s, seq |-> sessions[s].next, from |-> r.from, to |-> r.to,
             path |-> r.path, object |-> r.object, prev |-> r.prev] \in ArtifactRow
        BY <3>2, <3>3 DEF ArtifactRow
      <3> QED  BY <2>8, <3>1, <3>2, <3>3, <3>4, <3>5, CommittedTx DEF CommitArtifact, TypeOK
    <2>9. ASSUME NEW c \in Clients, CommitEnvironment(c) PROVE TypeOK'
      <3> DEFINE s == tx[c].req.session
      <3>1. s \in Sessions /\ Committed(c)
        BY <2>9, RequestOfKind DEF CommitEnvironment, Ready, EnvironmentRequests
      <3>2. [sessions[s] EXCEPT !.level = IF @ \in {0, 1} THEN 2 ELSE @] \in SessionRow
        BY <3>1 DEF TypeOK, SessionRow
      <3> QED  BY <2>9, <3>1, <3>2, CommittedTx DEF CommitEnvironment, TypeOK
    <2>10. ASSUME NEW c \in Clients, NEW t \in Times, CommitEnd(c, t) PROVE TypeOK'
      <3> DEFINE r == tx[c].req
                 s == r.session
      <3>1. r \in EndRequests /\ Committed(c)
        BY <2>10, RequestOfKind DEF CommitEnd, Ready
      <3>2. s \in Sessions /\ r.state \in OptState /\ r.status \in {"completed", "aborted"}
        BY <3>1 DEF EndRequests
      <3>3. [WithNext(sessions[s]) EXCEPT !.status = r.status] \in SessionRow
        BY <2>10, <3>2, ClaimTypes DEF CommitEnd, SessionRow, Statuses
      <3>4. NewEvent(s, t, TerminalKind(r.status), r.state, r.state) \in EventRow
        BY <3>2, NewEventType DEF Kinds, TerminalKind
      <3> QED  BY <2>10, <3>1, <3>2, <3>3, <3>4, CommittedTx DEF CommitEnd, TypeOK
    <2>11. ASSUME NEW c \in Clients, Rollback(c) PROVE TypeOK'
      BY <2>11 DEF Rollback, db, TypeOK
    <2>12. CASE UNCHANGED vars
      BY <2>12 DEF vars, TypeOK
    <2>13. ASSUME NEW c \in Clients, Write(c) PROVE TypeOK'
      BY <2>13, <2>2, <2>3, <2>4 DEF Write, CreateRootSession, AppendEvent, OptState
    <2> QED
      BY <2>1, <2>5, <2>6, <2>7, <2>8, <2>9, <2>10, <2>11, <2>12, <2>13 DEF Next, Commit
  <1> QED
    BY <1>1, <1>2, PTL DEF Spec

---------------------------------------------------------------------------
(* A transaction that may still write reads what it read before.           *)

(* What a step does to the transactions: it commits and overtakes the open *)
(* ones, or it leaves the database alone.                                  *)
LEMMA StepOfTx ==
    ASSUME [Next]_vars
    PROVE  \/ \E c \in Clients : Committed(c)
           \/ \E c \in Clients, r \in Requests : Begin(c, r)
           \/ \E c \in Clients : Rollback(c)
           \/ UNCHANGED vars
  BY DEF Next, Write, Commit, CreateRootSession, AppendEvent, MarkSessionDegraded,
     MarkSessionIntegrityDegraded, CommitCreate, CommitAppend, CommitSnapshot,
     CommitArtifact, CommitEnvironment, CommitEnd

(* ReadsStayValid is kept by every step.                                   *)
LEMMA ReadsStep ==
    ASSUME TypeOK, ReadsStayValid, [Next]_vars
    PROVE  ReadsStayValid'
  <1> USE DEF Validated, ForkResolves, SnapshotLineage, ArtifactReachable,
          EnvironmentAllowed, EndAllowed, Recording, Owns, IsLatestState,
          ReachableFrom, StatesOf
  <1> SUFFICES ASSUME NEW d \in Clients, tx'[d].open, ~tx'[d].stale
               PROVE  Validated(tx[d].req)'
    BY DEF ReadsStayValid
  <1>1. ASSUME NEW c \in Clients, Committed(c) PROVE FALSE
    BY <1>1, CommittedTx
  <1>2. ASSUME tx'[d] = tx[d], UNCHANGED db PROVE Validated(tx[d].req)'
    <2>1. Validated(tx[d].req)
      BY <1>2 DEF ReadsStayValid
    <2> QED  BY <1>2, <2>1 DEF db
  <1>3. ASSUME NEW c \in Clients, NEW r \in Requests, Begin(c, r)
        PROVE  Validated(tx[d].req)'
    <2>1. Validated(r) /\ UNCHANGED db
      BY <1>3 DEF Begin
    <2>2. CASE d = c
      <3>1. tx'[d].req = r
        BY <1>3, <2>2 DEF Begin, TypeOK
      <3> QED  BY <2>1, <3>1 DEF db
    <2>3. CASE d # c
      <3>1. tx'[d] = tx[d]
        BY <2>3, <1>3 DEF Begin, TypeOK
      <3> QED  BY <2>1, <3>1, <1>2
    <2> QED  BY <2>2, <2>3
  <1>4. ASSUME NEW c \in Clients, Rollback(c) PROVE Validated(tx[d].req)'
    <2>1. tx'[d] = tx[d]
      BY <1>4 DEF Rollback, Idle, TypeOK
    <2> QED  BY <1>4, <2>1, <1>2 DEF Rollback
  <1>5. CASE UNCHANGED vars
    BY <1>5, <1>2 DEF vars, db
  <1> QED  BY <1>1, <1>3, <1>4, <1>5, StepOfTx

(* What an open transaction read is still true until another one commits.  *)
THEOREM ReadsValid == Spec => []ReadsStayValid
  <1>1. Init => ReadsStayValid
    BY DEF Init, ReadsStayValid, Idle
  <1>2. TypeOK /\ ReadsStayValid /\ [Next]_vars => ReadsStayValid'
    BY ReadsStep
  <1> QED  BY <1>1, <1>2, Typing, PTL DEF Spec

---------------------------------------------------------------------------
(* The numbering and the order of the timeline.                            *)

\* A session that was never created has its blank row.
AbsentIsBlank ==
    \A s \in Sessions : sessions[s].status = "absent" => sessions[s] = AbsentSession

TimelineInv == TypeOK /\ ReadsStayValid /\ AbsentIsBlank /\ EventSequence /\ MonotonicOrder

\* A step writes one event of session s under the number it claims ...
Appends(s, t) ==
    /\ MonotonicAfter(s, t)
    /\ \E k \in Kinds, b \in OptState, a \in OptState :
         events' = events \cup {NewEvent(s, t, k, b, a)}
    /\ \A x \in Sessions :
         /\ x = s => sessions'[x].next = sessions[x].next + 1
         /\ x # s => sessions'[x].next = sessions[x].next

\* ... or no event at all.
KeepsLog ==
    /\ events' = events
    /\ \A x \in Sessions : sessions'[x].next = sessions[x].next

(* An appended event comes last in number and in time.                     *)
LEMMA AppendOrder ==
    ASSUME TimelineInv, SessionLogAssumption,
           NEW s \in Sessions, NEW t \in Times, Appends(s, t)
    PROVE  EventSequence' /\ MonotonicOrder'
  <1> PICK k \in Kinds, b \in OptState, a \in OptState :
        events' = events \cup {NewEvent(s, t, k, b, a)}
    BY DEF Appends
  <1> DEFINE n == sessions[s].next
             new == NewEvent(s, t, k, b, a)
  <1>1. n \in Nat \ {0} /\ new.session = s /\ new.seq = n /\ new.mono = t
    BY SessionLogAssumption DEF TimelineInv, TypeOK, SessionRow, Seqs, NewEvent,
       SessionLogAssumption
  <1>2. \A x \in Sessions : EventsOf(x)' = EventsOf(x) \cup (IF x = s THEN {new} ELSE {})
    BY <1>1 DEF EventsOf
  <1>3. \A e \in events : e.seq \in Nat \ {0} /\ e.mono \in Nat
    <2>1. \A e \in events : e.seq \in Seqs /\ e.mono \in Times
      BY DEF TimelineInv, TypeOK, EventRow
    <2>2. \A i \in Seqs : i \in Nat \ {0}
      BY SessionLogAssumption DEF Seqs, SessionLogAssumption
    <2>3. \A t0 \in Times : t0 \in Nat
      BY SessionLogAssumption DEF SessionLogAssumption
    <2> QED  BY <2>1, <2>2, <2>3
  <1>4. \A e \in EventsOf(s) : e.seq < n
    BY DEF TimelineInv, EventSequence
  <1>6. EventSequence'
    <2> SUFFICES ASSUME NEW x \in Sessions
                 PROVE  /\ \A e \in EventsOf(x)' : e.seq < sessions'[x].next
                        /\ \A i \in 1 .. sessions'[x].next - 1 :
                             \E e \in EventsOf(x)' : e.seq = i
                        /\ \A e, f \in EventsOf(x)' : e.seq = f.seq => e = f
      BY DEF EventSequence
    <2>1. /\ \A e \in EventsOf(x) : e.seq < sessions[x].next
          /\ \A i \in 1 .. sessions[x].next - 1 : \E e \in EventsOf(x) : e.seq = i
          /\ \A e, f \in EventsOf(x) : e.seq = f.seq => e = f
      BY DEF TimelineInv, EventSequence
    <2>2. CASE x # s
      <3>1. EventsOf(x)' = EventsOf(x) /\ sessions'[x].next = sessions[x].next
        BY <2>2, <1>2 DEF Appends
      <3> QED  BY <2>1, <3>1
    <2>3. CASE x = s
      <3>1. EventsOf(s)' = EventsOf(s) \cup {new} /\ sessions'[s].next = n + 1
        BY <1>2 DEF Appends
      <3>2. \A e \in EventsOf(s) : e \in events
        BY DEF EventsOf
      <3>3. \A e \in EventsOf(s)' : e.seq < n + 1
        BY <3>1, <3>2, <1>1, <1>3, <1>4
      <3>4. \A i \in 1 .. n : \E e \in EventsOf(s)' : e.seq = i
        <4> TAKE i \in 1 .. n
        <4>1. CASE i = n
          BY <4>1, <3>1, <1>1
        <4>2. CASE i # n
          <5>1. i \in 1 .. n - 1
            BY <4>2, <1>1
          <5> QED  BY <5>1, <2>1, <2>3, <3>1
        <4> QED  BY <4>1, <4>2
      <3>5. \A e, f \in EventsOf(s)' : e.seq = f.seq => e = f
        <4> TAKE e, f \in EventsOf(s)'
        <4>1. CASE e \in EventsOf(s) /\ f \in EventsOf(s)
          BY <4>1, <2>1, <2>3
        <4>2. \A g \in EventsOf(s) : g.seq # n
          BY <1>1, <1>3, <1>4, <3>2
        <4> QED  BY <4>1, <4>2, <3>1, <1>1
      <3>6. sessions'[s].next - 1 = n
        BY <3>1, <1>1
      <3> QED  BY <2>3, <3>1, <3>3, <3>4, <3>5, <3>6
    <2> QED  BY <2>2, <2>3
  <1>7. MonotonicOrder'
    <2> SUFFICES ASSUME NEW x \in Sessions, NEW e \in EventsOf(x)', NEW f \in EventsOf(x)',
                        e.seq < f.seq
                 PROVE  e.mono <= f.mono
      BY DEF MonotonicOrder
    <2>0. \A g \in EventsOf(x) : g \in events
      BY DEF EventsOf
    <2>1. CASE e \in EventsOf(x) /\ f \in EventsOf(x)
      BY <2>1 DEF TimelineInv, MonotonicOrder
    <2>2. CASE f \notin EventsOf(x)
      <3>1. x = s /\ f = new
        BY <2>2, <1>2
      <3>2. e \in EventsOf(s)
        BY <3>1, <1>1, <1>2
      <3>3. e \in events /\ n - 1 \in 1 .. n - 1
        BY <3>1, <3>2, <2>0, <1>1, <1>3, <1>4
      <3>4. PICK last \in EventsOf(s) : last.seq = n - 1
        BY <3>3 DEF TimelineInv, EventSequence
      <3>5. last \in events /\ \A g \in EventsOf(s) : g.seq <= last.seq
        BY <3>1, <3>4, <2>0, <1>1, <1>3, <1>4
      <3>6. last.mono <= t
        BY <3>5 DEF Appends, MonotonicAfter
      <3>7. e.mono <= last.mono
        <4>1. e.seq < last.seq \/ e.seq = last.seq
          BY <3>2, <3>3, <3>5, <1>3
        <4>2. CASE e.seq = last.seq
          <5>1. e = last
            BY <4>2, <3>2 DEF TimelineInv, EventSequence
          <5> QED  BY <5>1, <3>3, <1>3
        <4> QED  BY <4>1, <4>2, <3>2 DEF TimelineInv, MonotonicOrder
      <3>8. t \in Nat
        BY SessionLogAssumption DEF SessionLogAssumption
      <3> QED  BY <3>1, <3>3, <3>5, <3>6, <3>7, <3>8, <1>1, <1>3
    <2>3. CASE f \in EventsOf(x) /\ e \notin EventsOf(x)
      <3>1. x = s /\ e = new
        BY <2>3, <1>2
      <3> QED  BY <3>1, <2>3, <2>0, <1>1, <1>3, <1>4
    <2> QED  BY <2>1, <2>2, <2>3
  <1> QED  BY <1>6, <1>7

(* A step that leaves the logs alone leaves their order.                   *)
LEMMA KeepsLogOrder ==
    ASSUME TimelineInv, KeepsLog
    PROVE  EventSequence' /\ MonotonicOrder'
  <1>1. \A x \in Sessions : EventsOf(x)' = EventsOf(x)
    BY DEF KeepsLog, EventsOf
  <1> QED  BY <1>1 DEF TimelineInv, KeepsLog, EventSequence, MonotonicOrder

\* The row a step writes for session s, and what it does to the log.
Rewrites(s, row) == sessions' = [sessions EXCEPT ![s] = row]

(* A rewritten row, read again.                                            *)
LEMMA RewriteNext ==
    ASSUME TypeOK, NEW s \in Sessions, NEW row, Rewrites(s, row)
    PROVE  \A x \in Sessions : sessions'[x] = IF x = s THEN row ELSE sessions[x]
  BY DEF Rewrites, TypeOK

(* Every step either leaves the logs alone or appends to one, and gives a  *)
(* row only to a session it creates or finds.                              *)
LEMMA StepOfLog ==
    ASSUME TimelineInv, SessionLogAssumption, [Next]_vars
    PROVE  /\ KeepsLog \/ \E s \in Sessions, t \in Times : Appends(s, t)
           /\ AbsentIsBlank'
  <1> DEFINE Goal == /\ KeepsLog \/ \E s \in Sessions, t \in Times : Appends(s, t)
                     /\ AbsentIsBlank'
  <1>0. TypeOK /\ AbsentIsBlank /\ \A x \in Sessions : sessions[x] \in SessionRow
    BY DEF TimelineInv, TypeOK
  <1>1. ASSUME UNCHANGED db PROVE Goal
    BY <1>0, <1>1 DEF db, KeepsLog, AbsentIsBlank
  <1>2. ASSUME NEW s \in Sessions, NEW row \in SessionRow, Rewrites(s, row),
               row.status # "absent", row.next = sessions[s].next, events' = events
        PROVE  Goal
    BY <1>0, <1>2, RewriteNext DEF KeepsLog, AbsentIsBlank
  <1>3. ASSUME NEW s \in Sessions, NEW row \in SessionRow, Rewrites(s, row),
               NEW t \in Times, NEW k \in Kinds, NEW b \in OptState, NEW a \in OptState,
               row.status # "absent", row.next = sessions[s].next + 1,
               MonotonicAfter(s, t), events' = events \cup {NewEvent(s, t, k, b, a)}
        PROVE  Goal
    BY <1>0, <1>3, RewriteNext DEF Appends, AbsentIsBlank
  <1>4. ASSUME NEW s \in Sessions, NEW l \in Levels, NEW p \in Sessions \cup {None},
               NEW f \in Nat, InsertSession(s, l, p, f)
        PROVE  Goal
    <2> DEFINE row == [AbsentSession EXCEPT !.status = "recording", !.level = l,
                                            !.parent = p, !.fork = f]
    <2>1. None \in OptState /\ 1 \in Seqs /\ l \in 0 .. 4 /\ "recording" \in Statuses
      BY SessionLogAssumption DEF OptState, Seqs, Statuses, SessionLogAssumption
    <2>2. row \in SessionRow /\ row.status = "recording" /\ row.next = 1
      BY <2>1 DEF AbsentSession, SessionRow
    <2>3. sessions[s].next = 1
      BY <1>0, <1>4 DEF InsertSession, AbsentIsBlank, AbsentSession
    <2> QED  BY <1>2, <1>4, <2>2, <2>3 DEF InsertSession, Rewrites
  <1>5. ASSUME NEW s \in Sessions, Claimable(s)
        PROVE  /\ WithNext(sessions[s]) \in SessionRow
               /\ WithNext(sessions[s]).next = sessions[s].next + 1
               /\ WithNext(sessions[s]).status = "recording"
    BY <1>0, <1>5, SessionLogAssumption, ClaimTypes
       DEF WithNext, SessionRow, Claimable, Recording
  <1>6. ASSUME NEW s \in Sessions, NEW t \in Times, NEW b \in OptState,
               InsertEvent(s, t, b, b)
        PROVE  Goal
    <2>1. "event" \in Kinds
      BY DEF Kinds
    <2> QED  BY <1>3, <1>5, <1>6, <2>1 DEF InsertEvent, Rewrites
  <1>7. ASSUME NEW c \in Clients, NEW s \in Sessions,
               MarkSessionDegraded(c, s) \/ MarkSessionIntegrityDegraded(c, s)
        PROVE  Goal
    <2>1. Rewrites(s, [sessions[s] EXCEPT !.status = "degraded"]) /\ events' = events
      BY <1>7 DEF MarkSessionDegraded, MarkSessionIntegrityDegraded, Rewrites
    <2> QED  BY <1>0, <1>2, <2>1 DEF SessionRow, Statuses
  <1>8. ASSUME NEW c \in Clients, NEW root \in Roots, NEW t \in Times,
               CommitSnapshot(c, root, t)
        PROVE  Goal
    <2> DEFINE r == tx[c].req
               s == r.session
    <2>1. r \in SnapshotRequests
      BY <1>0, <1>8, RequestOfKind DEF CommitSnapshot, Ready
    <2>2. s \in Sessions /\ r.state \in OptState /\ r.before \in OptState
      BY <2>1 DEF SnapshotRequests, OptState
    <2>3. Rewrites(s, Attach(WithNext(sessions[s]), r))
          /\ events' = events \cup {NewEvent(s, t, "state.snapshot", r.before, r.state)}
          /\ Claimable(s) /\ MonotonicAfter(s, t) /\ "state.snapshot" \in Kinds
      BY <1>8 DEF CommitSnapshot, Rewrites, Kinds
    <2>4. /\ Attach(WithNext(sessions[s]), r) \in SessionRow
          /\ Attach(WithNext(sessions[s]), r).next = sessions[s].next + 1
          /\ Attach(WithNext(sessions[s]), r).status = "recording"
      BY <2>1, <2>2, <2>3, <1>5, AttachRow
    <2> QED  BY <1>3, <2>2, <2>3, <2>4
  <1>9. ASSUME NEW c \in Clients, NEW t \in Times, CommitArtifact(c, t) PROVE Goal
    <2> DEFINE r == tx[c].req
               s == r.session
    <2>1. r \in ArtifactRequests
      BY <1>0, <1>9, RequestOfKind DEF CommitArtifact, Ready
    <2>2. s \in Sessions /\ r.from \in OptState /\ r.to \in OptState
      BY <2>1 DEF ArtifactRequests, OptState
    <2>3. Rewrites(s, WithNext(sessions[s]))
          /\ events' = events \cup {NewEvent(s, t, "fs.artifact.discovered", r.from, r.to)}
          /\ Claimable(s) /\ MonotonicAfter(s, t) /\ "fs.artifact.discovered" \in Kinds
      BY <1>9 DEF CommitArtifact, Rewrites, Kinds
    <2> QED  BY <1>3, <1>5, <2>2, <2>3
  <1>10. ASSUME NEW c \in Clients, CommitEnvironment(c) PROVE Goal
    <2> DEFINE s == tx[c].req.session
               row == [sessions[s] EXCEPT !.level = IF @ \in {0, 1} THEN 2 ELSE @]
    <2>1. tx[c].req \in EnvironmentRequests /\ Rewrites(s, row) /\ events' = events
      BY <1>0, <1>10, RequestOfKind DEF CommitEnvironment, Ready, Rewrites
    <2>2. s \in Sessions /\ tx[c].req.op = "environment"
      BY <2>1 DEF EnvironmentRequests
    <2>3. Recording(s)
      BY <2>2, <1>10 DEF TimelineInv, ReadsStayValid, CommitEnvironment, Ready,
         Validated, EnvironmentAllowed
    <2>4. row \in SessionRow /\ row.status = "recording" /\ row.next = sessions[s].next
      BY <1>0, <2>2, <2>3 DEF SessionRow, Recording
    <2> QED  BY <1>2, <2>1, <2>2, <2>4
  <1>11. ASSUME NEW c \in Clients, NEW t \in Times, CommitEnd(c, t) PROVE Goal
    <2> DEFINE r == tx[c].req
               s == r.session
               row == [WithNext(sessions[s]) EXCEPT !.status = r.status]
    <2>1. r \in EndRequests
      BY <1>0, <1>11, RequestOfKind DEF CommitEnd, Ready
    <2>2. s \in Sessions /\ r.state \in OptState /\ r.status \in {"completed", "aborted"}
      BY <2>1 DEF EndRequests
    <2>3. Rewrites(s, row)
          /\ events' = events \cup {NewEvent(s, t, TerminalKind(r.status), r.state, r.state)}
          /\ Claimable(s) /\ MonotonicAfter(s, t) /\ TerminalKind(r.status) \in Kinds
      BY <1>11 DEF CommitEnd, Rewrites, Kinds, TerminalKind
    <2>4. row \in SessionRow /\ row.status = r.status /\ row.next = sessions[s].next + 1
      BY <1>5, <2>2, <2>3 DEF SessionRow, Statuses
    <2> QED  BY <1>3, <2>2, <2>3, <2>4
  <1>12. ASSUME NEW c \in Clients, NEW l \in Levels, CommitCreate(c, l) PROVE Goal
    <2>1. tx[c].req \in CreateRequests
      BY <1>0, <1>12, RequestOfKind DEF CommitCreate, Ready
    <2>2. tx[c].req.session \in Sessions /\ tx[c].req.parent \in Sessions
          /\ tx[c].req.fork \in Nat
      BY <2>1 DEF CreateRequests, Seqs
    <2> QED  BY <1>4, <1>12, <2>2 DEF CommitCreate
  <1>13. ASSUME NEW c \in Clients, NEW t \in Times, CommitAppend(c, t) PROVE Goal
    <2>1. tx[c].req \in AppendRequests
      BY <1>0, <1>13, RequestOfKind DEF CommitAppend, Ready
    <2>2. tx[c].req.session \in Sessions /\ tx[c].req.ref \in OptState
      BY <2>1 DEF AppendRequests, OptState
    <2> QED  BY <1>6, <1>13, <2>2 DEF CommitAppend
  <1>14. ASSUME NEW c \in Clients, Write(c) PROVE Goal
    BY <1>14, <1>4, <1>6, <1>7 DEF Write, CreateRootSession, AppendEvent, OptState
  <1>15. ASSUME NEW c \in Clients, NEW r \in Requests, Begin(c, r) \/ Rollback(c) PROVE Goal
    BY <1>15, <1>1 DEF Begin, Rollback
  <1>16. CASE UNCHANGED vars
    BY <1>16, <1>1 DEF vars, db
  <1>17. ASSUME NEW c \in Clients, Rollback(c) PROVE Goal
    BY <1>17, <1>1 DEF Rollback
  <1> QED
    BY <1>8, <1>9, <1>10, <1>11, <1>12, <1>13, <1>14, <1>15, <1>16, <1>17 DEF Next, Commit

(* The events of every session are numbered without a gap and in the order *)
(* of their monotonic readings, in every state the database can reach.     *)
THEOREM TimelineOrder == Spec => []OrderedLog
  <1> USE SessionLogAssumption
  <1>1. Init => AbsentIsBlank /\ EventSequence /\ MonotonicOrder
    BY DEF Init, AbsentIsBlank, EventSequence, MonotonicOrder, EventsOf, AbsentSession
  <1>2. TypeOK /\ ReadsStayValid /\ AbsentIsBlank /\ EventSequence /\ MonotonicOrder
        /\ [Next]_vars => AbsentIsBlank' /\ EventSequence' /\ MonotonicOrder'
    BY StepOfLog, AppendOrder, KeepsLogOrder DEF TimelineInv
  <1> QED
    BY <1>1, <1>2, Typing, ReadsValid, PTL DEF Spec, OrderedLog

---------------------------------------------------------------------------
(* The eight things a step can do to the rows.                             *)

\* A session is created; a branch names a state that its parent has.
Opens(s, p, f) ==
    /\ \E l \in Levels : InsertSession(s, l, p, f)
    /\ p # None => /\ p # s /\ sessions[p].status # "absent"
                   /\ \E x \in StatesOf(p) : x.seq = f

Degrades(s) ==
    /\ sessions[s].status # "absent"
    /\ Rewrites(s, [sessions[s] EXCEPT !.status = "degraded"])
    /\ UNCHANGED <<events, states, artifacts, environments>>

Describes(s) ==
    /\ Recording(s) /\ s \notin environments
    /\ Rewrites(s, [sessions[s] EXCEPT !.level = IF @ \in {0, 1} THEN 2 ELSE @])
    /\ environments' = environments \cup {s}
    /\ UNCHANGED <<events, states, artifacts>>

\* The next event of session s, which is recording.
Notes(s, t, kind, before, after) ==
    /\ Claimable(s) /\ MonotonicAfter(s, t)
    /\ events' = events \cup {NewEvent(s, t, kind, before, after)}
    /\ UNCHANGED environments

Plain(s, t, ref) ==
    /\ Notes(s, t, "event", ref, ref)
    /\ Rewrites(s, WithNext(sessions[s]))
    /\ UNCHANGED <<states, artifacts>>

Publishes(r, root, t) ==
    /\ SnapshotLineage(r) /\ \A x \in states : x.id # r.state
    /\ Notes(r.session, t, "state.snapshot", r.before, r.state)
    /\ Rewrites(r.session, Attach(WithNext(sessions[r.session]), r))
    /\ states' = states \cup {[id |-> r.state, session |-> r.session,
                               seq |-> sessions[r.session].next, root |-> root]}
    /\ UNCHANGED artifacts

Discovers(r, t) ==
    /\ ArtifactReachable(r)
    /\ Notes(r.session, t, "fs.artifact.discovered", r.from, r.to)
    /\ Rewrites(r.session, WithNext(sessions[r.session]))
    /\ artifacts' = artifacts \cup
         {[session |-> r.session, seq |-> sessions[r.session].next, from |-> r.from,
           to |-> r.to, path |-> r.path, object |-> r.object, prev |-> r.prev]}
    /\ UNCHANGED states

Closes(r, t) ==
    /\ EndAllowed(r)
    /\ Notes(r.session, t, TerminalKind(r.status), r.state, r.state)
    /\ Rewrites(r.session, [WithNext(sessions[r.session]) EXCEPT !.status = r.status])
    /\ UNCHANGED <<states, artifacts>>

Acts ==
    \/ UNCHANGED db
    \/ \E s \in Sessions, p \in Sessions \cup {None}, f \in Nat : Opens(s, p, f)
    \/ \E s \in Sessions : Degrades(s)
    \/ \E s \in Sessions : Describes(s)
    \/ \E s \in Sessions, t \in Times, ref \in OptState : Plain(s, t, ref)
    \/ \E r \in SnapshotRequests, root \in Roots, t \in Times : Publishes(r, root, t)
    \/ \E r \in ArtifactRequests, t \in Times : Discovers(r, t)
    \/ \E r \in EndRequests, t \in Times : Closes(r, t)

(* A transaction commits on what it has validated.                         *)
LEMMA CommitsOnItsReads ==
    ASSUME TypeOK, ReadsStayValid, NEW c \in Clients, NEW op, Ready(c, op)
    PROVE  /\ Validated(tx[c].req) /\ tx[c].req.op = op
           /\ op = "append" => tx[c].req \in AppendRequests
           /\ op = "create" => tx[c].req \in CreateRequests
           /\ op = "snapshot" => tx[c].req \in SnapshotRequests
           /\ op = "artifact" => tx[c].req \in ArtifactRequests
           /\ op = "environment" => tx[c].req \in EnvironmentRequests
           /\ op = "end" => tx[c].req \in EndRequests
  BY RequestOfKind DEF Ready, ReadsStayValid

(* Every step does one of the eight things, or nothing.                    *)
LEMMA StepActs ==
    ASSUME TypeOK, ReadsStayValid, SessionLogAssumption, [Next]_vars
    PROVE  Acts
  <1>1. ASSUME NEW c \in Clients, NEW l \in Levels, CommitCreate(c, l) PROVE Acts
    <2> DEFINE r == tx[c].req
    <2>1. Ready(c, "create") /\ InsertSession(r.session, l, r.parent, r.fork)
      BY <1>1 DEF CommitCreate
    <2>2. r \in CreateRequests /\ Validated(r) /\ r.op = "create"
      BY <2>1, CommitsOnItsReads
    <2>3. ForkResolves(r)
      BY <2>2 DEF Validated
    <2>4. /\ r.session \in Sessions /\ r.parent \in Sessions /\ r.fork \in Nat
          /\ r.parent # r.session
      BY <2>2 DEF CreateRequests, Seqs
    <2>5. Opens(r.session, r.parent, r.fork)
      BY <2>1, <2>3, <2>4 DEF Opens, ForkResolves
    <2> QED  BY <2>4, <2>5 DEF Acts
  <1>2. ASSUME NEW c \in Clients, NEW t \in Times, CommitAppend(c, t) PROVE Acts
    <2> DEFINE r == tx[c].req
    <2>1. r \in AppendRequests
      BY <1>2, CommitsOnItsReads DEF CommitAppend
    <2>2. r.session \in Sessions /\ r.ref \in OptState
      BY <2>1 DEF AppendRequests, OptState
    <2>3. Plain(r.session, t, r.ref)
      BY <1>2 DEF CommitAppend, InsertEvent, Plain, Notes, Rewrites
    <2> QED  BY <2>2, <2>3 DEF Acts
  <1>3. ASSUME NEW c \in Clients, NEW root \in Roots, NEW t \in Times,
               CommitSnapshot(c, root, t)
        PROVE  Acts
    <2> DEFINE r == tx[c].req
    <2>1. r \in SnapshotRequests /\ Validated(r) /\ r.op = "snapshot"
      BY <1>3, CommitsOnItsReads DEF CommitSnapshot
    <2>2. SnapshotLineage(r)
      BY <2>1 DEF Validated
    <2>3. Publishes(r, root, t)
      BY <1>3, <2>2 DEF CommitSnapshot, Publishes, Notes, Rewrites
    <2> QED  BY <2>1, <2>3 DEF Acts
  <1>4. ASSUME NEW c \in Clients, NEW t \in Times, CommitArtifact(c, t) PROVE Acts
    <2> DEFINE r == tx[c].req
    <2>1. r \in ArtifactRequests /\ Validated(r) /\ r.op = "artifact"
      BY <1>4, CommitsOnItsReads DEF CommitArtifact
    <2>2. ArtifactReachable(r)
      BY <2>1 DEF Validated
    <2>3. Discovers(r, t)
      BY <1>4, <2>2 DEF CommitArtifact, Discovers, Notes, Rewrites
    <2> QED  BY <2>1, <2>3 DEF Acts
  <1>5. ASSUME NEW c \in Clients, CommitEnvironment(c) PROVE Acts
    <2> DEFINE r == tx[c].req
    <2>1. r \in EnvironmentRequests /\ Validated(r) /\ r.op = "environment"
      BY <1>5, CommitsOnItsReads DEF CommitEnvironment
    <2>2. EnvironmentAllowed(r) /\ r.session \in Sessions
      BY <2>1 DEF Validated, EnvironmentRequests
    <2>3. Describes(r.session)
      BY <1>5, <2>2 DEF CommitEnvironment, Describes, Rewrites, EnvironmentAllowed
    <2> QED  BY <2>2, <2>3 DEF Acts
  <1>6. ASSUME NEW c \in Clients, NEW t \in Times, CommitEnd(c, t) PROVE Acts
    <2> DEFINE r == tx[c].req
    <2>1. r \in EndRequests /\ Validated(r) /\ r.op = "end"
      BY <1>6, CommitsOnItsReads DEF CommitEnd
    <2>2. EndAllowed(r)
      BY <2>1 DEF Validated
    <2>3. Closes(r, t)
      BY <1>6, <2>2 DEF CommitEnd, Closes, Notes, Rewrites
    <2> QED  BY <2>1, <2>3 DEF Acts
  <1>7. ASSUME NEW c \in Clients, Write(c) PROVE Acts
    <2>1. ASSUME NEW s \in Sessions, NEW l \in Levels, CreateRootSession(c, s, l)
          PROVE  Acts
      <3>1. Opens(s, None, 0)
        BY <2>1 DEF CreateRootSession, Opens
      <3> QED  BY <3>1 DEF Acts
    <2>2. ASSUME NEW s \in Sessions, NEW t \in Times, AppendEvent(c, s, t) PROVE Acts
      <3>1. Plain(s, t, None) /\ None \in OptState
        BY <2>2 DEF AppendEvent, InsertEvent, Plain, Notes, Rewrites, OptState
      <3> QED  BY <3>1 DEF Acts
    <2>3. ASSUME NEW s \in Sessions,
                 MarkSessionDegraded(c, s) \/ MarkSessionIntegrityDegraded(c, s)
          PROVE  Acts
      <3>1. Degrades(s)
        BY <2>3 DEF MarkSessionDegraded, MarkSessionIntegrityDegraded, Degrades, Rewrites
      <3> QED  BY <3>1 DEF Acts
    <2> QED  BY <1>7, <2>1, <2>2, <2>3 DEF Write
  <1>8. ASSUME NEW c \in Clients, \/ Rollback(c) \/ \E r \in Requests : Begin(c, r) PROVE Acts
    BY <1>8 DEF Rollback, Begin, Acts
  <1>9. CASE UNCHANGED vars
    BY <1>9 DEF vars, db, Acts
  <1> QED
    BY <1>1, <1>2, <1>3, <1>4, <1>5, <1>6, <1>7, <1>8, <1>9 DEF Next, Commit

---------------------------------------------------------------------------
(* The rows of one session before and after a step.                        *)

\* What the numbering and the chain say together; it is inductive.
ChainInv == TimelineInv /\ StateLineage

(* What the rows there already are say of their columns.                   *)
LEMMA OldRows ==
    ASSUME ChainInv, SessionLogAssumption
    PROVE  /\ \A e \in events : /\ e.session \in Sessions /\ e.seq \in Nat \ {0}
                                /\ e.seq < sessions[e.session].next
           /\ \A x \in states : /\ x.session \in Sessions /\ x.seq \in Nat \ {0}
                                /\ x.id \in States /\ x.seq < sessions[x.session].next
           /\ \A s \in Sessions : sessions[s].next \in Nat \ {0}
           /\ \A s \in Sessions : sessions[s].status = "absent" =>
                EventsOf(s) = {} /\ StatesOf(s) = {} /\ sessions[s] = AbsentSession
  <1>1. \A s \in Sessions : sessions[s].next \in Nat \ {0}
    BY SessionLogAssumption DEF ChainInv, TimelineInv, TypeOK, SessionRow, Seqs,
       SessionLogAssumption
  <1>2. \A e \in events : e.session \in Sessions /\ e.seq \in Seqs
    BY DEF ChainInv, TimelineInv, TypeOK, EventRow
  <1>3. \A i \in Seqs : i \in Nat \ {0}
    BY SessionLogAssumption DEF Seqs, SessionLogAssumption
  <1>4. \A e \in events : e.seq < sessions[e.session].next
    BY <1>2 DEF ChainInv, TimelineInv, EventSequence, EventsOf
  <1>5. \A x \in states : x.session \in Sessions /\ x.seq \in Seqs /\ x.id \in States
    BY DEF ChainInv, TimelineInv, TypeOK, StateRow
  <1>6. \A x \in states : x.seq < sessions[x.session].next
    <2> TAKE x \in states
    <2>1. PICK e \in EventsOf(x.session) : e.seq = x.seq
      BY DEF ChainInv, StateLineage
    <2> QED  BY <2>1, <1>4 DEF EventsOf
  <1>7. ASSUME NEW s \in Sessions, sessions[s].status = "absent"
        PROVE  EventsOf(s) = {} /\ StatesOf(s) = {} /\ sessions[s] = AbsentSession
    <2>1. sessions[s] = AbsentSession /\ sessions[s].next = 1
      BY <1>7 DEF ChainInv, TimelineInv, AbsentIsBlank, AbsentSession
    <2> QED  BY <2>1, <1>2, <1>3, <1>4, <1>5, <1>6 DEF EventsOf, StatesOf
  <1> QED  BY <1>1, <1>2, <1>3, <1>4, <1>5, <1>6, <1>7

(* One state and what comes before it, of StateLineage.                    *)
Prior(x) == {y \in StatesOf(x.session) : y.seq < x.seq}

Linked(x) ==
    /\ \E e \in EventsOf(x.session) :
         /\ e.seq = x.seq /\ e.kind = "state.snapshot" /\ e.after = x.id
         /\ IF Prior(x) = {}
            THEN e.before = None /\ sessions[x.session].initial = x.id
            ELSE \E y \in Prior(x) : y.id = e.before /\ \A z \in Prior(x) : z.seq <= y.seq
    /\ \A y \in Prior(x) : y.id # sessions[x.session].final

(* StateLineage, state by state.                                           *)
LEMMA LineageIsLinked == StateLineage <=> \A x \in states : Linked(x)
  BY DEF StateLineage, Linked, Prior

(* A state stays where it is in the chain when what came before it and its *)
(* session's initial pointer stay, and the final pointer stays or names a  *)
(* state that was not there.                                               *)
LEMMA StaysLinked ==
    ASSUME NEW x \in states, Linked(x), events \subseteq events',
           Prior(x)' = Prior(x),
           sessions'[x.session].initial = sessions[x.session].initial,
           \/ sessions'[x.session].final = sessions[x.session].final
           \/ \A y \in states : y.id # sessions'[x.session].final
    PROVE  Linked(x)'
  <1>1. PICK e \in EventsOf(x.session) :
         /\ e.seq = x.seq /\ e.kind = "state.snapshot" /\ e.after = x.id
         /\ IF Prior(x) = {}
            THEN e.before = None /\ sessions[x.session].initial = x.id
            ELSE \E y \in Prior(x) : y.id = e.before /\ \A z \in Prior(x) : z.seq <= y.seq
    BY DEF Linked
  <1>2. e \in EventsOf(x.session)'
    BY <1>1 DEF EventsOf
  <1>3. \A y \in Prior(x) : y \in states /\ y.id # sessions[x.session].final
    BY DEF Linked, Prior, StatesOf
  <1> QED  BY <1>1, <1>2, <1>3 DEF Linked

(* The states of other rows, or all of them, when none is published.       *)
LEMMA KeepsLineage ==
    ASSUME ChainInv, states' = states, events \subseteq events',
           \A s \in Sessions : /\ sessions'[s].initial = sessions[s].initial
                               /\ sessions'[s].final = sessions[s].final
    PROVE  StateLineage'
  <1>1. \A x \in states : x.session \in Sessions /\ Linked(x) /\ Prior(x)' = Prior(x)
    BY LineageIsLinked DEF ChainInv, TimelineInv, TypeOK, StateRow, Prior, StatesOf
  <1>2. \A x \in states : Linked(x)'
    BY <1>1, StaysLinked
  <1>3. (\A x \in states : Linked(x))'
    BY <1>2
  <1> QED  BY <1>3, LineageIsLinked DEF StateLineage, Linked, Prior

(* The state a snapshot publishes comes after all states of its session.   *)
LEMMA PublishKeepsLineage ==
    ASSUME ChainInv, SessionLogAssumption, NEW r \in SnapshotRequests,
           NEW root \in Roots, NEW t \in Times, Publishes(r, root, t)
    PROVE  StateLineage'
  <1> PICK n : n = sessions[r.session].next
    OBVIOUS
  <1> DEFINE s == r.session
             w == [id |-> r.state, session |-> s, seq |-> n, root |-> root]
             e == [session |-> s, seq |-> n, mono |-> t, kind |-> "state.snapshot",
                   before |-> r.before, after |-> r.state]
  <1>1. /\ s \in Sessions /\ r.state \in States /\ r.role \in Roles /\ n \in Nat \ {0}
        /\ r.before = None <=> r.role = "initial"
    BY OldRows DEF SnapshotRequests
  <1>2. /\ states' = states \cup {w} /\ events' = events \cup {e}
        /\ \A x \in states : x.id # r.state
        /\ sessions[s].final = None /\ SnapshotLineage(r)
    BY DEF Publishes, Notes, NewEvent, SnapshotLineage
  <1>3. /\ \A x \in Sessions : sessions'[x] =
              IF x = s THEN Attach(WithNext(sessions[s]), r) ELSE sessions[x]
        /\ sessions[s] \in SessionRow
    BY <1>1, RewriteNext DEF Publishes, ChainInv, TimelineInv, TypeOK
  <1>4. /\ sessions'[s].initial = IF r.role = "initial" THEN r.state ELSE sessions[s].initial
        /\ sessions'[s].final = IF r.role = "final" THEN r.state ELSE sessions[s].final
    <2>1. sessions'[s] = Attach(WithNext(sessions[s]), r)
      BY <1>1, <1>3
    <2>2. WithNext(sessions[s]) = [sessions[s] EXCEPT !.next = @ + 1]
      BY DEF WithNext
    <2>3. CASE r.role = "initial"
      BY <2>1, <2>2, <2>3, <1>3 DEF Attach, SessionRow
    <2>4. CASE r.role = "final"
      BY <2>1, <2>2, <2>4, <1>3 DEF Attach, SessionRow
    <2>5. CASE r.role = "checkpoint"
      BY <2>1, <2>2, <2>5, <1>3 DEF Attach, SessionRow
    <2> QED  BY <2>3, <2>4, <2>5, <1>1 DEF Roles
  <1>5. \A x \in StatesOf(s) : x \in states /\ x.seq \in Nat /\ x.seq < n
    BY OldRows DEF StatesOf
  <1>6. ASSUME NEW x \in states PROVE Linked(x)'
    <2>1. x.session \in Sessions /\ Linked(x)
      BY OldRows, LineageIsLinked DEF ChainInv
    <2>2. Prior(x)' = Prior(x)
      <3>1. x.session = s => ~(n < x.seq)
        BY <1>1, <1>5 DEF StatesOf
      <3> QED  BY <1>2, <3>1 DEF Prior, StatesOf
    <2>3. CASE x.session # s
      BY <2>1, <2>2, <2>3, <1>2, <1>3, StaysLinked
    <2>4. CASE x.session = s
      <3>1. r.role # "initial"
        BY <1>2, <2>4 DEF SnapshotLineage, StatesOf
      <3>2. sessions'[s].initial = sessions[s].initial
        BY <3>1, <1>4
      <3>3. \/ sessions'[s].final = sessions[s].final
            \/ \A y \in states : y.id # sessions'[s].final
        BY <1>2, <1>4
      <3> QED  BY <2>1, <2>2, <2>4, <3>2, <3>3, <1>2, StaysLinked
    <2> QED  BY <2>3, <2>4
  <1>7. Linked(w)'
    <2>1. Prior(w)' = StatesOf(s)
      <3>1. StatesOf(s)' = StatesOf(s) \cup {w}
        BY <1>2 DEF StatesOf
      <3> QED  BY <3>1, <1>1, <1>5 DEF Prior
    <2>2. e \in EventsOf(s)' /\ e.seq = w.seq /\ e.kind = "state.snapshot" /\ e.after = w.id
          /\ e.before = r.before
      BY <1>2 DEF EventsOf
    <2>3. \A y \in StatesOf(s) : y.id # sessions'[s].final
      <3>1. \A y \in StatesOf(s) : y.id # r.state /\ y.id # None
        BY <1>2, <1>5, OldRows, SessionLogAssumption DEF SessionLogAssumption
      <3> QED  BY <3>1, <1>2, <1>4
    <2>4. IF StatesOf(s) = {}
          THEN r.before = None /\ sessions'[s].initial = r.state
          ELSE \E y \in StatesOf(s) : y.id = r.before /\ \A z \in StatesOf(s) : z.seq <= y.seq
      BY <1>1, <1>2, <1>4 DEF SnapshotLineage, IsLatestState
    <2> QED  BY <2>1, <2>2, <2>3, <2>4 DEF Linked
  <1>8. (\A x \in states : Linked(x))'
    BY <1>2, <1>6, <1>7
  <1> QED  BY <1>8, LineageIsLinked DEF StateLineage, Linked, Prior

---------------------------------------------------------------------------
(* What one step does to the rows of every session.                        *)

\* The columns of a session row.
SameRow(s) ==
    /\ sessions'[s].status = sessions[s].status /\ sessions'[s].next = sessions[s].next
    /\ sessions'[s].initial = sessions[s].initial /\ sessions'[s].final = sessions[s].final
    /\ sessions'[s].parent = sessions[s].parent /\ sessions'[s].fork = sessions[s].fork

(* Creating a session does not move the pointers of a row.                 *)
LEMMA OpensRow ==
    ASSUME ChainInv, NEW s \in Sessions, NEW p \in Sessions \cup {None}, NEW f \in Nat,
           Opens(s, p, f)
    PROVE  /\ \A x \in Sessions \ {s} : SameRow(x)
           /\ sessions[s] = AbsentSession
           /\ sessions'[s].status = "recording" /\ sessions'[s].next = sessions[s].next
           /\ sessions'[s].initial = sessions[s].initial
           /\ sessions'[s].final = sessions[s].final
           /\ sessions'[s].parent = p /\ sessions'[s].fork = f
           /\ UNCHANGED <<events, states, artifacts, environments>>
  <1>1. PICK l \in Levels : InsertSession(s, l, p, f)
    BY DEF Opens
  <1>2. sessions[s] = AbsentSession
    BY <1>1 DEF ChainInv, TimelineInv, AbsentIsBlank, InsertSession
  <1> QED
    BY <1>1, <1>2 DEF InsertSession, SameRow, AbsentSession, ChainInv, TimelineInv, TypeOK

(* What each of the other steps does to the row of its session.            *)
LEMMA OldRow ==
    ASSUME ChainInv, NEW s \in Sessions, NEW row, Rewrites(s, row)
    PROVE  /\ \A x \in Sessions \ {s} : sessions'[x] = sessions[x] /\ SameRow(x)
           /\ sessions'[s] = row
           /\ sessions[s] \in SessionRow
  BY RewriteNext DEF SameRow, ChainInv, TimelineInv, TypeOK

(* Degrading a session changes its status alone.                           *)
LEMMA DegradesRow ==
    ASSUME ChainInv, NEW s \in Sessions, Degrades(s)
    PROVE  /\ \A x \in Sessions \ {s} : sessions'[x] = sessions[x] /\ SameRow(x)
           /\ sessions'[s] = [sessions[s] EXCEPT !.status = "degraded"]
           /\ sessions'[s].status = "degraded" /\ sessions'[s].next = sessions[s].next
           /\ sessions'[s].initial = sessions[s].initial
           /\ sessions'[s].final = sessions[s].final
           /\ sessions'[s].parent = sessions[s].parent
           /\ sessions'[s].fork = sessions[s].fork
           /\ UNCHANGED <<events, states, artifacts, environments>>
  <1>1. Rewrites(s, [sessions[s] EXCEPT !.status = "degraded"])
        /\ UNCHANGED <<events, states, artifacts, environments>>
    BY DEF Degrades
  <1> QED  BY <1>1, OldRow DEF SessionRow

(* Describing an environment changes no row of a session.                  *)
LEMMA DescribesRow ==
    ASSUME ChainInv, NEW s \in Sessions, Describes(s)
    PROVE  /\ \A x \in Sessions : SameRow(x)
           /\ \A x \in Sessions \ {s} : sessions'[x] = sessions[x]
           /\ Recording(s)
           /\ UNCHANGED <<events, states, artifacts>>
           /\ environments' = environments \cup {s}
  <1>1. Rewrites(s, [sessions[s] EXCEPT !.level = IF @ \in {0, 1} THEN 2 ELSE @])
        /\ UNCHANGED <<events, states, artifacts>> /\ Recording(s)
        /\ environments' = environments \cup {s}
    BY DEF Describes
  <1> QED  BY <1>1, OldRow DEF SessionRow, SameRow

\* Session s, which is recording, takes event e under its next number.
Takes(s, e) ==
    /\ Recording(s)
    /\ e.session = s /\ e.seq = sessions[s].next
    /\ events' = events \cup {e}
    /\ sessions'[s].next = sessions[s].next + 1
    /\ sessions'[s].parent = sessions[s].parent /\ sessions'[s].fork = sessions[s].fork
    /\ \A x \in Sessions \ {s} : sessions'[x] = sessions[x] /\ SameRow(x)
    /\ environments' = environments

(* An event without an effect takes a number of its session, and no more.  *)
LEMMA PlainRow ==
    ASSUME ChainInv, SessionLogAssumption, NEW s \in Sessions, NEW t \in Times,
           NEW ref \in OptState, Plain(s, t, ref)
    PROVE  /\ Takes(s, NewEvent(s, t, "event", ref, ref))
           /\ sessions'[s].status = "recording"
           /\ sessions'[s].initial = sessions[s].initial
           /\ sessions'[s].final = sessions[s].final
           /\ UNCHANGED <<states, artifacts>>
  <1>1. Rewrites(s, WithNext(sessions[s])) /\ UNCHANGED <<states, artifacts, environments>>
        /\ events' = events \cup {NewEvent(s, t, "event", ref, ref)} /\ Recording(s)
    BY DEF Plain, Notes, Claimable
  <1> QED  BY <1>1, OldRow DEF SessionRow, WithNext, NewEvent, Takes, Recording

(* A publication takes a number and adds a state to its session.           *)
LEMMA PublishesRow ==
    ASSUME ChainInv, SessionLogAssumption, NEW r \in SnapshotRequests,
           NEW root \in Roots, NEW t \in Times, Publishes(r, root, t)
    PROVE  /\ r.session \in Sessions
           /\ Takes(r.session, NewEvent(r.session, t, "state.snapshot", r.before, r.state))
           /\ sessions'[r.session].status = "recording"
           /\ states \subseteq states' /\ UNCHANGED artifacts
           /\ \A x \in Sessions \ {r.session} : StatesOf(x)' = StatesOf(x)
  <1> DEFINE s == r.session
             row == Attach(WithNext(sessions[s]), r)
  <1>1. s \in Sessions
    BY DEF SnapshotRequests
  <1>2. /\ Rewrites(s, row) /\ Claimable(s) /\ Recording(s)
        /\ UNCHANGED <<artifacts, environments>>
        /\ events' = events \cup {NewEvent(s, t, "state.snapshot", r.before, r.state)}
        /\ states' = states \cup {[id |-> r.state, session |-> s,
                                   seq |-> sessions[s].next, root |-> root]}
    BY DEF Publishes, Notes, Claimable
  <1>3. WithNext(sessions[s]) = [sessions[s] EXCEPT !.next = @ + 1]
    BY DEF WithNext
  <1>4. /\ row.next = sessions[s].next + 1 /\ row.status = "recording"
        /\ row.parent = sessions[s].parent /\ row.fork = sessions[s].fork
    <2>1. r.role \in Roles /\ sessions[s] \in SessionRow /\ sessions[s].status = "recording"
      BY <1>1, <1>2, OldRow DEF SnapshotRequests, Recording
    <2>2. CASE r.role = "initial"
      BY <1>3, <2>1, <2>2 DEF Attach, SessionRow
    <2>3. CASE r.role = "final"
      BY <1>3, <2>1, <2>3 DEF Attach, SessionRow
    <2>4. CASE r.role = "checkpoint"
      BY <1>3, <2>1, <2>4 DEF Attach, SessionRow
    <2> QED  BY <2>1, <2>2, <2>3, <2>4 DEF Roles
  <1>5. \A x \in Sessions \ {s} : StatesOf(x)' = StatesOf(x)
    BY <1>2 DEF StatesOf
  <1> QED  BY <1>1, <1>2, <1>4, <1>5, OldRow DEF NewEvent, Takes

(* A discovered artifact takes a number and adds no state.                 *)
LEMMA DiscoversRow ==
    ASSUME ChainInv, SessionLogAssumption, NEW r \in ArtifactRequests, NEW t \in Times,
           Discovers(r, t)
    PROVE  /\ r.session \in Sessions
           /\ Takes(r.session,
                    NewEvent(r.session, t, "fs.artifact.discovered", r.from, r.to))
           /\ sessions'[r.session].status = "recording"
           /\ sessions'[r.session].initial = sessions[r.session].initial
           /\ sessions'[r.session].final = sessions[r.session].final
           /\ UNCHANGED states /\ artifacts \subseteq artifacts'
  <1> DEFINE s == r.session
  <1>1. s \in Sessions
    BY DEF ArtifactRequests
  <1>2. /\ Rewrites(s, WithNext(sessions[s])) /\ Recording(s)
        /\ UNCHANGED <<states, environments>> /\ artifacts \subseteq artifacts'
        /\ events' = events \cup
             {NewEvent(s, t, "fs.artifact.discovered", r.from, r.to)}
    BY DEF Discovers, Notes, Claimable
  <1> QED  BY <1>1, <1>2, OldRow DEF SessionRow, WithNext, NewEvent, Takes, Recording

(* The end of a session takes a number and sets its status.                *)
LEMMA ClosesRow ==
    ASSUME ChainInv, SessionLogAssumption, NEW r \in EndRequests, NEW t \in Times,
           Closes(r, t)
    PROVE  /\ r.session \in Sessions
           /\ Takes(r.session,
                    NewEvent(r.session, t, TerminalKind(r.status), r.state, r.state))
           /\ sessions'[r.session].status = r.status
           /\ sessions'[r.session].initial = sessions[r.session].initial
           /\ sessions'[r.session].final = sessions[r.session].final
           /\ UNCHANGED <<states, artifacts>>
  <1> DEFINE s == r.session
  <1>1. s \in Sessions
    BY DEF EndRequests
  <1>2. /\ Rewrites(s, [WithNext(sessions[s]) EXCEPT !.status = r.status])
        /\ UNCHANGED <<states, artifacts, environments>> /\ Recording(s)
        /\ events' = events \cup
             {NewEvent(s, t, TerminalKind(r.status), r.state, r.state)}
    BY DEF Closes, Notes, Claimable
  <1> DEFINE row == [WithNext(sessions[s]) EXCEPT !.status = r.status]
  <1>3. sessions[s] \in SessionRow
    BY <1>1, <1>2, OldRow
  <1>4. /\ row.next = sessions[s].next + 1 /\ row.status = r.status
        /\ row.initial = sessions[s].initial /\ row.final = sessions[s].final
        /\ row.parent = sessions[s].parent /\ row.fork = sessions[s].fork
    BY <1>3 DEF SessionRow, WithNext
  <1> HIDE DEF row
  <1> QED  BY <1>1, <1>2, <1>4, OldRow DEF NewEvent, Takes, row

(* Every step keeps the chain of states.                                   *)
LEMMA LineageStep ==
    ASSUME ChainInv, SessionLogAssumption, [Next]_vars
    PROVE  StateLineage'
  <1>0. Acts
    BY StepActs DEF ChainInv, TimelineInv
  <1>1. CASE UNCHANGED db
    BY <1>1, KeepsLineage DEF db
  <1>2. ASSUME NEW s \in Sessions, NEW p \in Sessions \cup {None}, NEW f \in Nat,
               Opens(s, p, f)
        PROVE  StateLineage'
    BY <1>2, OpensRow, KeepsLineage DEF SameRow
  <1>3. ASSUME NEW s \in Sessions, Degrades(s) PROVE StateLineage'
    BY <1>3, DegradesRow, KeepsLineage DEF SameRow
  <1>4. ASSUME NEW s \in Sessions, Describes(s) PROVE StateLineage'
    BY <1>4, DescribesRow, KeepsLineage DEF SameRow
  <1>5. ASSUME NEW s \in Sessions, NEW t \in Times, NEW ref \in OptState, Plain(s, t, ref)
        PROVE  StateLineage'
    BY <1>5, PlainRow, KeepsLineage DEF Takes, SameRow
  <1>6. ASSUME NEW r \in SnapshotRequests, NEW root \in Roots, NEW t \in Times,
               Publishes(r, root, t)
        PROVE  StateLineage'
    BY <1>6, PublishKeepsLineage
  <1>7. ASSUME NEW r \in ArtifactRequests, NEW t \in Times, Discovers(r, t)
        PROVE  StateLineage'
    BY <1>7, DiscoversRow, KeepsLineage DEF Takes, SameRow
  <1>8. ASSUME NEW r \in EndRequests, NEW t \in Times, Closes(r, t) PROVE StateLineage'
    BY <1>8, ClosesRow, KeepsLineage DEF Takes, SameRow
  <1> QED  BY <1>0, <1>1, <1>2, <1>3, <1>4, <1>5, <1>6, <1>7, <1>8 DEF Acts

(* The chain and the numbering hold together in every reachable state.     *)
LEMMA ChainHolds == Spec => []ChainInv
  <1> USE SessionLogAssumption
  <1>1. Init => AbsentIsBlank /\ EventSequence /\ MonotonicOrder /\ StateLineage
    BY DEF Init, AbsentIsBlank, EventSequence, MonotonicOrder, EventsOf, AbsentSession,
       StateLineage
  <1>2. TypeOK /\ ReadsStayValid /\ AbsentIsBlank /\ EventSequence /\ MonotonicOrder
        /\ StateLineage /\ [Next]_vars
        => AbsentIsBlank' /\ EventSequence' /\ MonotonicOrder' /\ StateLineage'
    BY StepOfLog, AppendOrder, KeepsLogOrder, LineageStep DEF TimelineInv, ChainInv
  <1> QED
    BY <1>1, <1>2, Typing, ReadsValid, PTL DEF Spec, ChainInv, TimelineInv

(* The states of a session form one chain from its initial state to its    *)
(* final one, in every reachable state of the database: each snapshot      *)
(* names the state published just before it, whatever other clients did    *)
(* between what its transaction read and what it wrote.                    *)
THEOREM StatesFormAChain == Spec => []StateLineage
  BY ChainHolds, PTL DEF ChainInv

---------------------------------------------------------------------------
(* A terminal event closes its session.                                    *)

TerminalKinds == {"session.completed", "session.aborted"}

Closed(s) ==
    /\ \A e \in EventsOf(s) : e.kind \in TerminalKinds =>
         /\ e.seq + 1 = sessions[s].next
         /\ sessions[s].status \in
              {IF e.kind = "session.completed" THEN "completed" ELSE "aborted", "degraded"}
         /\ e.kind = "session.completed" => e.after # None /\ e.after = sessions[s].final
    /\ sessions[s].status \in {"completed", "aborted"} =>
         \E e \in EventsOf(s) : e.kind = TerminalKind(sessions[s].status)

(* TerminalClosesSession, session by session.                              *)
LEMMA TerminalIsClosed == TerminalClosesSession <=> \A s \in Sessions : Closed(s)
  BY DEF TerminalClosesSession, Closed, TerminalKinds

(* A row that keeps its columns and its events stays closed, degraded too. *)
LEMMA StaysClosed ==
    ASSUME NEW s \in Sessions, Closed(s), EventsOf(s)' = EventsOf(s),
           sessions'[s].next = sessions[s].next, sessions'[s].final = sessions[s].final,
           sessions'[s].status \in {sessions[s].status, "degraded"}
    PROVE  Closed(s)'
  <1>1. /\ \A e \in EventsOf(s) : e.kind \in TerminalKinds =>
             /\ e.seq + 1 = sessions'[s].next
             /\ sessions'[s].status \in
                  {IF e.kind = "session.completed" THEN "completed" ELSE "aborted", "degraded"}
             /\ e.kind = "session.completed" =>
                  e.after # None /\ e.after = sessions'[s].final
        /\ sessions'[s].status \in {"completed", "aborted"} =>
             \E e \in EventsOf(s) : e.kind = TerminalKind(sessions'[s].status)
    BY DEF Closed
  <1> QED  BY <1>1 DEF Closed, TerminalKinds

(* Only a session without a terminal event takes an event.                 *)
LEMMA TakesIsOpen ==
    ASSUME NEW s \in Sessions, NEW e, Closed(s), Takes(s, e)
    PROVE  /\ \A f \in EventsOf(s) : f.kind \notin TerminalKinds
           /\ EventsOf(s)' = EventsOf(s) \cup {e}
           /\ \A x \in Sessions \ {s} : EventsOf(x)' = EventsOf(x)
  BY DEF Closed, Takes, Recording, TerminalKinds, EventsOf

(* An event that is not terminal leaves the sessions closed or open.       *)
LEMMA TakesPlain ==
    ASSUME \A x \in Sessions : Closed(x), NEW s \in Sessions, NEW e, Takes(s, e),
           e.kind \notin TerminalKinds, sessions'[s].status = "recording"
    PROVE  \A x \in Sessions : Closed(x)'
  <1>1. Closed(s)'
    <2>1. \A f \in EventsOf(s)' : f.kind \notin TerminalKinds
      BY TakesIsOpen
    <2> QED  BY <2>1 DEF Closed
  <1>2. ASSUME NEW x \in Sessions \ {s} PROVE Closed(x)'
    BY TakesIsOpen, StaysClosed DEF Takes, SameRow
  <1> QED  BY <1>1, <1>2

(* TerminalClosesSession is kept by every step.                            *)
LEMMA TerminalStep ==
    ASSUME ChainInv, TerminalClosesSession, SessionLogAssumption, [Next]_vars
    PROVE  TerminalClosesSession'
  <1>0. Acts /\ \A x \in Sessions : Closed(x)
    BY StepActs, TerminalIsClosed DEF ChainInv, TimelineInv
  <1> DEFINE Goal == \A x \in Sessions : Closed(x)'
  <1>a. ASSUME events' = events PROVE \A x \in Sessions : EventsOf(x)' = EventsOf(x)
    BY <1>a DEF EventsOf
  <1>1. ASSUME UNCHANGED db PROVE Goal
    BY <1>0, <1>1, <1>a, StaysClosed DEF db
  <1>2. ASSUME NEW s \in Sessions, NEW p \in Sessions \cup {None}, NEW f \in Nat,
               Opens(s, p, f)
        PROVE  Goal
    <2>1. /\ \A x \in Sessions \ {s} : SameRow(x)
          /\ sessions[s] = AbsentSession /\ events' = events
          /\ sessions'[s].status = "recording"
      BY <1>2, OpensRow
    <2>2. EventsOf(s)' = {}
      BY <2>1, <1>a, OldRows DEF AbsentSession
    <2>3. Closed(s)'
      BY <2>1, <2>2 DEF Closed
    <2>4. ASSUME NEW x \in Sessions \ {s} PROVE Closed(x)'
      BY <1>0, <1>a, <2>1, StaysClosed DEF SameRow
    <2> QED  BY <2>3, <2>4
  <1>3. ASSUME NEW s \in Sessions, Degrades(s) PROVE Goal
    <2> TAKE x \in Sessions
    <2> QED  BY <1>0, <1>3, <1>a, DegradesRow, StaysClosed DEF SameRow
  <1>4. ASSUME NEW s \in Sessions, Describes(s) PROVE Goal
    BY <1>0, <1>4, <1>a, DescribesRow, StaysClosed DEF SameRow
  <1>5. ASSUME NEW s \in Sessions, NEW t \in Times, NEW ref \in OptState, Plain(s, t, ref)
        PROVE  Goal
    <2>1. NewEvent(s, t, "event", ref, ref).kind \notin TerminalKinds
      BY DEF NewEvent, TerminalKinds
    <2> QED  BY <1>0, <1>5, <2>1, PlainRow, TakesPlain
  <1>6. ASSUME NEW r \in SnapshotRequests, NEW root \in Roots, NEW t \in Times,
               Publishes(r, root, t)
        PROVE  Goal
    <2>1. NewEvent(r.session, t, "state.snapshot", r.before, r.state).kind
            \notin TerminalKinds
      BY DEF NewEvent, TerminalKinds
    <2> QED  BY <1>0, <1>6, <2>1, PublishesRow, TakesPlain
  <1>7. ASSUME NEW r \in ArtifactRequests, NEW t \in Times, Discovers(r, t) PROVE Goal
    <2>1. NewEvent(r.session, t, "fs.artifact.discovered", r.from, r.to).kind
            \notin TerminalKinds
      BY DEF NewEvent, TerminalKinds
    <2> QED  BY <1>0, <1>7, <2>1, DiscoversRow, TakesPlain
  <1>8. ASSUME NEW r \in EndRequests, NEW t \in Times, Closes(r, t) PROVE Goal
    <2> PICK s : s = r.session
      OBVIOUS
    <2> PICK e : e = NewEvent(s, t, TerminalKind(r.status), r.state, r.state)
      OBVIOUS
    <2>1. /\ s \in Sessions /\ Takes(s, e)
          /\ sessions'[s].status = r.status /\ sessions'[s].final = sessions[s].final
      BY <1>8, ClosesRow
    <2>2. /\ e.kind = TerminalKind(r.status) /\ e.after = r.state
          /\ e.seq + 1 = sessions'[s].next
      BY <2>1 DEF NewEvent, Takes
    <2>3. /\ \A f \in EventsOf(s) : f.kind \notin TerminalKinds
          /\ EventsOf(s)' = EventsOf(s) \cup {e}
          /\ \A x \in Sessions \ {s} : EventsOf(x)' = EventsOf(x)
      BY <1>0, <2>1, TakesIsOpen
    <2>4. /\ r.status \in {"completed", "aborted"}
          /\ r.status = "completed" => r.state # None /\ r.state = sessions[s].final
      BY <1>8 DEF Closes, EndAllowed, EndRequests
    <2>5. Closed(s)'
      BY <2>1, <2>2, <2>3, <2>4 DEF Closed, TerminalKind, TerminalKinds
    <2>6. ASSUME NEW x \in Sessions \ {s} PROVE Closed(x)'
      BY <1>0, <2>1, <2>3, StaysClosed DEF Takes, SameRow
    <2> QED  BY <2>5, <2>6
  <1>9. Goal
    BY <1>0, <1>1, <1>2, <1>3, <1>4, <1>5, <1>6, <1>7, <1>8 DEF Acts
  <1> QED  BY <1>9, TerminalIsClosed DEF TerminalClosesSession, Closed, TerminalKinds

(* A terminal event is the last of its session, the status tells which one *)
(* it is, and a completed session ends on the state it published as final: *)
(* EndSession, against every other writer.                                 *)
THEOREM TerminalCloses == Spec => []TerminalClosesSession
  <1>1. Init => TerminalClosesSession
    BY DEF Init, TerminalClosesSession, EventsOf, AbsentSession
  <1>2. ChainInv /\ TerminalClosesSession /\ [Next]_vars => TerminalClosesSession'
    BY TerminalStep, SessionLogAssumption
  <1> QED  BY <1>1, <1>2, ChainHolds, PTL DEF Spec

---------------------------------------------------------------------------
(* What is recorded is kept: no step changes or removes a row, and nothing *)
(* is added to a session that has stopped recording.                       *)

KeepsEvidence ==
    /\ events \subseteq events' /\ states \subseteq states'
    /\ artifacts \subseteq artifacts'
    /\ \A s \in Sessions : sessions[s].status \notin {"absent", "recording"} =>
         /\ sessions'[s] = [sessions[s] EXCEPT !.status = sessions'[s].status]
         /\ sessions'[s].status \in {sessions[s].status, "degraded"}
         /\ EventsOf(s)' = EventsOf(s) /\ StatesOf(s)' = StatesOf(s)
         /\ s \in environments' <=> s \in environments

(* No step rewrites what was recorded.                                     *)
LEMMA EvidenceStep ==
    ASSUME ChainInv, SessionLogAssumption, [Next]_vars
    PROVE  KeepsEvidence
  <1>0. Acts
    BY StepActs DEF ChainInv, TimelineInv
  <1> DEFINE Kept(s) ==
               /\ sessions'[s] = [sessions[s] EXCEPT !.status = sessions'[s].status]
               /\ sessions'[s].status \in {sessions[s].status, "degraded"}
             Done(s) == sessions[s].status \notin {"absent", "recording"}
  <1>a. ASSUME NEW s \in Sessions, sessions'[s] = sessions[s] PROVE Kept(s)
    <2>1. sessions[s] \in SessionRow
      BY DEF ChainInv, TimelineInv, TypeOK
    <2> QED  BY <1>a, <2>1 DEF SessionRow
  <1>b. ASSUME events' = events, states' = states
        PROVE  \A s \in Sessions : EventsOf(s)' = EventsOf(s) /\ StatesOf(s)' = StatesOf(s)
    BY <1>b DEF EventsOf, StatesOf
  <1>c. ASSUME NEW s \in Sessions, NEW e, Takes(s, e)
        PROVE  /\ events \subseteq events'
               /\ \A x \in Sessions : Done(x) =>
                    /\ x # s /\ Kept(x) /\ EventsOf(x)' = EventsOf(x)
                    /\ x \in environments' <=> x \in environments
    <2>1. \A x \in Sessions \ {s} : Kept(x)
      BY <1>a, <1>c DEF Takes
    <2>2. \A x \in Sessions \ {s} : EventsOf(x)' = EventsOf(x)
      BY <1>c DEF Takes, EventsOf
    <2> QED  BY <1>c, <2>1, <2>2 DEF Takes, Recording
  <1> HIDE DEF Kept
  <1>1. ASSUME UNCHANGED db PROVE KeepsEvidence
    BY <1>1, <1>a, <1>b DEF db, KeepsEvidence, Kept
  <1>2. ASSUME NEW s \in Sessions, NEW p \in Sessions \cup {None}, NEW f \in Nat,
               Opens(s, p, f)
        PROVE  KeepsEvidence
    <2>1. sessions[s].status = "absent" /\ \A x \in Sessions \ {s} : sessions'[x] = sessions[x]
      BY <1>2 DEF Opens, InsertSession, ChainInv, TimelineInv, TypeOK
    <2>2. UNCHANGED <<events, states, artifacts, environments>>
      BY <1>2, OpensRow
    <2> QED  BY <2>1, <2>2, <1>a, <1>b DEF KeepsEvidence, Kept
  <1>3. ASSUME NEW s \in Sessions, Degrades(s) PROVE KeepsEvidence
    <2>1. \A x \in Sessions \ {s} : sessions'[x] = sessions[x]
      BY <1>3, DegradesRow
    <2>2. UNCHANGED <<events, states, artifacts, environments>>
      BY <1>3, DegradesRow
    <2>3. Kept(s)
      BY <1>3, DegradesRow DEF Kept
    <2> QED  BY <2>1, <2>2, <2>3, <1>a, <1>b DEF KeepsEvidence, Kept
  <1>4. ASSUME NEW s \in Sessions, Describes(s) PROVE KeepsEvidence
    <2>1. /\ \A x \in Sessions \ {s} : sessions'[x] = sessions[x]
          /\ sessions[s].status = "recording"
          /\ UNCHANGED <<events, states, artifacts>> /\ environments' = environments \cup {s}
      BY <1>4, DescribesRow DEF Recording
    <2>2. \A x \in Sessions \ {s} : Kept(x)
      BY <2>1, <1>a
    <2> QED  BY <2>1, <2>2, <1>b DEF KeepsEvidence, Kept
  <1>5. ASSUME NEW s \in Sessions, NEW t \in Times, NEW ref \in OptState, Plain(s, t, ref)
        PROVE  KeepsEvidence
    BY <1>5, <1>c, PlainRow DEF KeepsEvidence, Kept, StatesOf
  <1>6. ASSUME NEW r \in SnapshotRequests, NEW root \in Roots, NEW t \in Times,
               Publishes(r, root, t)
        PROVE  KeepsEvidence
    BY <1>6, <1>c, PublishesRow DEF KeepsEvidence, Kept
  <1>7. ASSUME NEW r \in ArtifactRequests, NEW t \in Times, Discovers(r, t)
        PROVE  KeepsEvidence
    BY <1>7, <1>c, DiscoversRow DEF KeepsEvidence, Kept, StatesOf
  <1>8. ASSUME NEW r \in EndRequests, NEW t \in Times, Closes(r, t) PROVE KeepsEvidence
    BY <1>8, <1>c, ClosesRow DEF KeepsEvidence, Kept, StatesOf
  <1> QED  BY <1>0, <1>1, <1>2, <1>3, <1>4, <1>5, <1>6, <1>7, <1>8 DEF Acts

(* Rows are never changed or deleted, and a session that has ended takes   *)
(* no event, state, artifact, environment or pointer any more: only its    *)
(* status may still become degraded.                                       *)
THEOREM EvidenceKept == Spec => EvidenceIsKept
  <1>1. ChainInv /\ [Next]_vars => KeepsEvidence
    BY EvidenceStep, SessionLogAssumption
  <1>2. ChainInv /\ [Next]_vars =>
        [/\ events \subseteq events' /\ states \subseteq states'
         /\ artifacts \subseteq artifacts'
         /\ \A s \in Sessions : sessions[s].status \notin {"absent", "recording"} =>
              /\ sessions'[s] = [sessions[s] EXCEPT !.status = sessions'[s].status]
              /\ sessions'[s].status \in {sessions[s].status, "degraded"}
              /\ EventsOf(s)' = EventsOf(s) /\ StatesOf(s)' = StatesOf(s)
              /\ s \in environments' <=> s \in environments]_vars
    BY <1>1 DEF KeepsEvidence
  <1> QED  BY <1>2, ChainHolds, PTL DEF Spec, EvidenceIsKept

---------------------------------------------------------------------------
(* Artifacts and branches refer to states that exist.                      *)

Founded(a) ==
    /\ \E x \in StatesOf(a.session) :
         x.id = a.to /\ x.seq < a.seq /\ a.object \in Reach[x.root]
    /\ a.prev # None => ReachableFrom(a.session, a.from, a.prev)
    /\ \E e \in EventsOf(a.session) :
         /\ e.seq = a.seq /\ e.kind = "fs.artifact.discovered"
         /\ e.before = a.from /\ e.after = a.to

(* ArtifactProvenance is kept by every step.                               *)
LEMMA ProvenanceStep ==
    ASSUME ChainInv, ArtifactProvenance, SessionLogAssumption, [Next]_vars
    PROVE  ArtifactProvenance'
  <1>0. Acts /\ KeepsEvidence
    BY StepActs, EvidenceStep DEF ChainInv, TimelineInv
  <1>1. ASSUME NEW a \in artifacts PROVE Founded(a)'
    <2>1. events \subseteq events' /\ states \subseteq states'
      BY <1>0 DEF KeepsEvidence
    <2>2. \A s : EventsOf(s) \subseteq EventsOf(s)' /\ StatesOf(s) \subseteq StatesOf(s)'
      BY <2>1 DEF EventsOf, StatesOf
    <2>3. Founded(a)
      BY DEF ArtifactProvenance, Founded
    <2> QED  BY <2>2, <2>3 DEF Founded, ReachableFrom
  <1>2. CASE artifacts' = artifacts
    BY <1>1, <1>2 DEF ArtifactProvenance, Founded
  <1>3. ASSUME NEW r \in ArtifactRequests, NEW t \in Times, Discovers(r, t)
        PROVE  ArtifactProvenance'
    <2> PICK n : n = sessions[r.session].next
      OBVIOUS
    <2> DEFINE s == r.session
               b == [session |-> s, seq |-> n, from |-> r.from, to |-> r.to,
                     path |-> r.path, object |-> r.object, prev |-> r.prev]
               e == [session |-> s, seq |-> n, mono |-> t,
                     kind |-> "fs.artifact.discovered", before |-> r.from, after |-> r.to]
    <2>1. /\ artifacts' = artifacts \cup {b} /\ states' = states
          /\ events' = events \cup {e} /\ ArtifactReachable(r)
      BY <1>3 DEF Discovers, Notes, NewEvent
    <2>2. e \in EventsOf(s)' /\ StatesOf(s)' = StatesOf(s)
      BY <2>1 DEF EventsOf, StatesOf
    <2>3. \A x \in StatesOf(s) : x.seq < n
      BY OldRows DEF StatesOf
    <2>4. \E x \in StatesOf(s) : x.id = r.to /\ x.seq < n /\ r.object \in Reach[x.root]
      BY <2>1, <2>3 DEF ArtifactReachable, ReachableFrom
    <2>5. r.prev # None => \E x \in StatesOf(s) : x.id = r.from /\ r.prev \in Reach[x.root]
      BY <2>1 DEF ArtifactReachable, ReachableFrom
    <2>6. Founded(b)'
      BY <2>2, <2>4, <2>5 DEF Founded, ReachableFrom
    <2>7. \A a \in artifacts' : Founded(a)'
      BY <2>1, <2>6, <1>1
    <2> QED  BY <2>7 DEF ArtifactProvenance, Founded
  <1> QED
    BY <1>0, <1>2, <1>3 DEF Acts, db, Opens, InsertSession, Degrades, Describes, Plain,
       Publishes, Closes

(* An artifact has its discovery event, and its object is reachable from   *)
(* an older state of its own session: PublishArtifact never ties a path to *)
(* content the workspace did not hold.                                     *)
THEOREM ArtifactsAreFounded == Spec => []ArtifactProvenance
  <1>1. Init => ArtifactProvenance
    BY DEF Init, ArtifactProvenance
  <1>2. ChainInv /\ ArtifactProvenance /\ [Next]_vars => ArtifactProvenance'
    BY ProvenanceStep, SessionLogAssumption
  <1> QED  BY <1>1, <1>2, ChainHolds, PTL DEF Spec

(* LineageResolves is kept by every step.                                  *)
LEMMA BranchStep ==
    ASSUME ChainInv, LineageResolves, SessionLogAssumption, [Next]_vars
    PROVE  LineageResolves'
  <1>0. Acts /\ states \subseteq states'
    BY StepActs, EvidenceStep DEF ChainInv, TimelineInv, KeepsEvidence
  <1>1. /\ \A s \in Sessions : sessions[s].parent \in Sessions \cup {None}
        /\ None \notin Sessions
    BY SessionLogAssumption
       DEF ChainInv, TimelineInv, TypeOK, SessionRow, SessionLogAssumption
  <1>2. \A s \in Sessions : StatesOf(s) \subseteq StatesOf(s)'
    BY <1>0 DEF StatesOf
  <1>3. ASSUME \A s \in Sessions : /\ sessions'[s].parent = sessions[s].parent
                                   /\ sessions'[s].fork = sessions[s].fork
        PROVE  LineageResolves'
    BY <1>1, <1>2, <1>3 DEF LineageResolves
  <1>4. ASSUME NEW s \in Sessions, NEW p \in Sessions \cup {None}, NEW f \in Nat,
               Opens(s, p, f)
        PROVE  LineageResolves'
    <2>1. /\ \A x \in Sessions \ {s} : SameRow(x)
          /\ sessions'[s].parent = p /\ sessions'[s].fork = f
          /\ sessions[s] = AbsentSession
      BY <1>4, OpensRow
    <2>2. p # None => p \in Sessions /\ p # s /\ \E x \in StatesOf(p) : x.seq = f
      BY <1>4 DEF Opens
    <2>3. StatesOf(s) = {}
      BY <2>1, OldRows DEF AbsentSession
    <2>4. \A x \in Sessions : sessions[x].parent # s
      BY <2>3, <1>1 DEF LineageResolves
    <2> SUFFICES ASSUME NEW x \in Sessions, sessions'[x].parent # None,
                        NEW q, q = sessions'[x].parent
                 PROVE  /\ \E y \in StatesOf(q)' : y.seq = sessions'[x].fork
                        /\ q # x /\ sessions'[q].parent # x
      BY DEF LineageResolves
    <2>5. CASE x = s
      BY <2>1, <2>2, <2>4, <2>5, <1>2 DEF SameRow
    <2>6. CASE x # s
      <3>1. sessions[x].parent = q /\ sessions[x].fork = sessions'[x].fork /\ q # s
        BY <2>1, <2>4, <2>6 DEF SameRow
      <3>2. q \in Sessions /\ sessions'[q].parent = sessions[q].parent
        BY <3>1, <1>1, <2>1 DEF SameRow
      <3> QED  BY <3>1, <3>2, <1>2 DEF LineageResolves
    <2> QED  BY <2>5, <2>6
  <1>5. CASE UNCHANGED db
    BY <1>3, <1>5 DEF db
  <1>6. ASSUME NEW s \in Sessions, Degrades(s) \/ Describes(s) PROVE LineageResolves'
    BY <1>3, <1>6, DegradesRow, DescribesRow DEF SameRow
  <1>7. ASSUME NEW s \in Sessions, NEW e, Takes(s, e) PROVE LineageResolves'
    BY <1>3, <1>7 DEF Takes, SameRow
  <1> QED
    BY <1>0, <1>4, <1>5, <1>6, <1>7, PlainRow, PublishesRow, DiscoversRow, ClosesRow DEF Acts

(* A branch names a state that its parent published at the fork sequence,  *)
(* and two sessions are never each other's parent: CreateSession on the    *)
(* reads of a deferred transaction.                                        *)
THEOREM BranchesResolve == Spec => []LineageResolves
  <1>1. Init => LineageResolves
    BY DEF Init, LineageResolves, AbsentSession
  <1>2. ChainInv /\ LineageResolves /\ [Next]_vars => LineageResolves'
    BY BranchStep, SessionLogAssumption
  <1> QED  BY <1>1, <1>2, ChainHolds, PTL DEF Spec

---------------------------------------------------------------------------
(* A set of numbered events, and the log it tells.                         *)

\* The events of E are numbered from 1 to n.
Numbered(E, n) ==
    /\ IsFiniteSet(E) /\ Cardinality(E) = n
    /\ \A e \in E : e.seq \in 1 .. n
    /\ \A i \in 1 .. n : \E e \in E : e.seq = i
    /\ \A e, f \in E : e.seq = f.seq => e = f

Entry(e) == [mono |-> e.mono, kind |-> e.kind]

Nth(E, i) == CHOOSE e \in E : e.seq = i

Told(E) == [i \in 1 .. Cardinality(E) |-> Entry(Nth(E, i))]

(* An event is the one at its number.                                      *)
LEMMA NthOf ==
    ASSUME NEW E, NEW n \in Nat, Numbered(E, n), NEW e \in E
    PROVE  Nth(E, e.seq) = e
  <1>1. \E f \in E : f.seq = e.seq
    OBVIOUS
  <1>2. Nth(E, e.seq) \in E /\ Nth(E, e.seq).seq = e.seq
    BY <1>1 DEF Nth
  <1> QED  BY <1>2 DEF Numbered

(* The next event goes to the end of the log.                              *)
LEMMA ToldGrows ==
    ASSUME NEW E, NEW n \in Nat, Numbered(E, n), NEW e, e.seq = n + 1
    PROVE  /\ Numbered(E \cup {e}, n + 1)
           /\ Told(E \cup {e}) = Append(Told(E), Entry(e))
  <1> DEFINE F == E \cup {e}
  <1>1. e \notin E
    BY DEF Numbered
  <1>2. IsFiniteSet(F) /\ Cardinality(F) = n + 1
    BY <1>1, FS_AddElement DEF Numbered
  <1>3. Numbered(F, n + 1)
    <2>1. \A f \in F : f.seq \in 1 .. n + 1
      BY DEF Numbered
    <2>2. \A i \in 1 .. n + 1 : \E f \in F : f.seq = i
      <3> TAKE i \in 1 .. n + 1
      <3>1. CASE i = n + 1
        BY <3>1
      <3>2. CASE i # n + 1
        <4>1. i \in 1 .. n
          BY <3>2
        <4> QED  BY <4>1 DEF Numbered
      <3> QED  BY <3>1, <3>2
    <2>3. \A f, g \in F : f.seq = g.seq => f = g
      <3>1. \A f \in E : f.seq # n + 1
        BY DEF Numbered
      <3> QED  BY <3>1 DEF Numbered
    <2> QED  BY <1>2, <2>1, <2>2, <2>3 DEF Numbered
  <1>4. Cardinality(E) = n
    BY DEF Numbered
  <1>5. /\ Told(E) = [i \in 1 .. n |-> Entry(Nth(E, i))]
        /\ Told(F) = [i \in 1 .. n + 1 |-> Entry(Nth(F, i))]
    BY <1>2, <1>4 DEF Told
  <1>6. Nth(F, n + 1) = e
    BY <1>3, NthOf
  <1>7. \A i \in 1 .. n : Nth(F, i) = Nth(E, i)
    <2> TAKE i \in 1 .. n
    <2>1. PICK f \in E : f.seq = i
      BY DEF Numbered
    <2>2. Nth(E, i) = f
      BY <2>1, NthOf
    <2>3. f \in F /\ n + 1 \in Nat
      OBVIOUS
    <2>4. Nth(F, f.seq) = f
      BY <1>3, <2>3, NthOf
    <2> QED  BY <2>1, <2>2, <2>4
  <1> DEFINE entryE(i) == Entry(Nth(E, i))
             entryF(i) == Entry(Nth(F, i))
  <1>8. entryF(n + 1) = Entry(e) /\ \A i \in 1 .. n : entryF(i) = entryE(i)
    BY <1>6, <1>7
  <1>9. Told(E) = [i \in 1 .. n |-> entryE(i)] /\ Told(F) = [i \in 1 .. n + 1 |-> entryF(i)]
    BY <1>5
  <1> HIDE DEF entryE, entryF
  <1>10. Append(Told(E), Entry(e)) = Told(F)
    <2> PICK S : S = {entryE(i) : i \in 1 .. n} \cup {Entry(e)}
      OBVIOUS
    <2>1. Told(E) \in Seq(S) /\ Len(Told(E)) = n /\ Entry(e) \in S
      BY <1>9
    <2>2. /\ Append(Told(E), Entry(e)) \in Seq(S)
          /\ Len(Append(Told(E), Entry(e))) = n + 1
          /\ \A i \in 1 .. n : Append(Told(E), Entry(e))[i] = Told(E)[i]
          /\ Append(Told(E), Entry(e))[n + 1] = Entry(e)
      BY <2>1, AppendProperties
    <2>3. Told(F) \in Seq(S) /\ Len(Told(F)) = n + 1
      <3>1. \A i \in 1 .. n + 1 : entryF(i) \in S
        <4> TAKE i \in 1 .. n + 1
        <4>1. i = n + 1 \/ i \in 1 .. n
          OBVIOUS
        <4> QED  BY <4>1, <1>8
      <3> QED  BY <3>1, <1>9
    <2>4. \A i \in 1 .. n + 1 : Append(Told(E), Entry(e))[i] = Told(F)[i]
      <3> TAKE i \in 1 .. n + 1
      <3>1. CASE i = n + 1
        BY <3>1, <2>2, <1>8, <1>9
      <3>2. CASE i # n + 1
        <4>1. i \in 1 .. n
          BY <3>2
        <4> QED  BY <4>1, <2>2, <1>8, <1>9
      <3> QED  BY <3>1, <3>2
    <2> QED  BY <2>2, <2>3, <2>4, SeqEqual
  <1> QED  BY <1>3, <1>10

---------------------------------------------------------------------------
(* The events of each session are as many as its next number says.         *)

Counted == \A s \in Sessions : Numbered(EventsOf(s), sessions[s].next - 1)

\* An event that takes the next number is appended to what its session tells.
LEMMA TakesCounted ==
    ASSUME ChainInv, Counted, SessionLogAssumption,
           NEW s \in Sessions, NEW e, Takes(s, e)
    PROVE  /\ Counted'
           /\ Told(EventsOf(s))' = Append(Told(EventsOf(s)), Entry(e))
           /\ \A x \in Sessions \ {s} : EventsOf(x)' = EventsOf(x)
  <1> PICK n \in Nat : sessions[s].next = n + 1
    <2>1. sessions[s].next - 1 \in Nat /\ sessions[s].next = (sessions[s].next - 1) + 1
      BY OldRows
    <2> QED  BY <2>1
  <1>1. EventsOf(s)' = EventsOf(s) \cup {e}
    BY DEF Takes, EventsOf
  <1>2. \A x \in Sessions \ {s} : EventsOf(x)' = EventsOf(x)
    BY DEF Takes, EventsOf
  <1>3. Numbered(EventsOf(s), n) /\ e.seq = n + 1
    BY DEF Counted, Takes
  <1>4. /\ Numbered(EventsOf(s) \cup {e}, n + 1)
        /\ Told(EventsOf(s) \cup {e}) = Append(Told(EventsOf(s)), Entry(e))
    BY <1>3, ToldGrows
  <1>5. sessions'[s].next - 1 = n + 1
    BY DEF Takes
  <1>6. Numbered(EventsOf(s)', sessions'[s].next - 1)
    BY <1>1, <1>4, <1>5
  <1>7. \A x \in Sessions \ {s} : Numbered(EventsOf(x)', sessions'[x].next - 1)
    BY <1>2 DEF Counted, Takes
  <1>8. Told(EventsOf(s))' = Told(EventsOf(s)')
    BY DEF Told, Nth, Entry
  <1>9. \A x \in Sessions : Numbered(EventsOf(x)', sessions'[x].next - 1)
    BY <1>6, <1>7
  <1> QED  BY <1>1, <1>2, <1>4, <1>8, <1>9 DEF Counted, Numbered

(* The steps that append nothing keep the count.                           *)
LEMMA KeepsCounted ==
    ASSUME Counted, events' = events,
           \A s \in Sessions : sessions'[s].next = sessions[s].next
    PROVE  /\ Counted'
           /\ \A s \in Sessions : EventsOf(s)' = EventsOf(s)
  <1>1. \A s \in Sessions : EventsOf(s)' = EventsOf(s)
    BY DEF EventsOf
  <1> QED  BY <1>1 DEF Counted, Numbered

---------------------------------------------------------------------------
(* The refinement mapping.                                                 *)

log    == [s \in Sessions |-> LogOf(s)]
status == [s \in Sessions |-> sessions[s].status]

(* The mapped log is what the events tell in the order of their numbers.   *)
LEMMA LogIsTold == \A s : LogOf(s) = Told(EventsOf(s))
  BY DEF LogOf, Told, Entry, Nth

(* What a step that takes an event is to a reader: an extension of the log.*)
LEMMA TakesExtends ==
    ASSUME ChainInv, Counted, SessionLogAssumption,
           NEW s \in Sessions, NEW t \in Times, NEW k, NEW b, NEW a,
           MonotonicAfter(s, t), Takes(s, NewEvent(s, t, k, b, a))
    PROVE  Counted' /\ Readers!Extend(s, t, k)
  <1> PICK e : e = NewEvent(s, t, k, b, a)
    OBVIOUS
  <1>1. Takes(s, e) /\ Entry(e) = [mono |-> t, kind |-> k]
    BY DEF Entry, NewEvent
  <1>2. /\ Counted'
        /\ Told(EventsOf(s))' = Append(Told(EventsOf(s)), [mono |-> t, kind |-> k])
        /\ \A x \in Sessions \ {s} : EventsOf(x)' = EventsOf(x)
    BY <1>1, TakesCounted
  <1>3. /\ LogOf(s)' = Append(LogOf(s), [mono |-> t, kind |-> k])
        /\ \A x \in Sessions \ {s} : LogOf(x)' = LogOf(x)
    <2>1. LogOf(s)' = Told(EventsOf(s))'
      BY DEF LogOf, Told, Entry, Nth
    <2>2. ASSUME NEW x \in Sessions \ {s} PROVE LogOf(x)' = LogOf(x)
      <3>1. EventsOf(x)' = EventsOf(x)
        BY <1>2
      <3> QED  BY <3>1 DEF LogOf
    <2> QED  BY <2>1, <2>2, <1>2, LogIsTold
  <1>4. log' = [log EXCEPT ![s] = Append(@, [mono |-> t, kind |-> k])]
    BY <1>3 DEF log
  <1>5. status[s] = "recording"
    BY DEF Takes, Recording, status
  <1>6. ASSUME log[s] # <<>> PROVE log[s][Len(log[s])].mono <= t
    <2> PICK E, n : E = EventsOf(s) /\ n = sessions[s].next - 1
      OBVIOUS
    <2>1. Numbered(E, n) /\ n \in Nat /\ log[s] = Told(E)
      BY LogIsTold, OldRows DEF Counted, log
    <2>2. Told(E) = [i \in 1 .. n |-> Entry(Nth(E, i))]
      BY <2>1 DEF Told, Numbered
    <2>3. Len(Told(E)) = n /\ n \in 1 .. n
      BY <1>6, <2>1, <2>2
    <2>4. PICK last \in E : last.seq = n
      BY <2>1, <2>3 DEF Numbered
    <2>5. \A f \in E : f.seq <= last.seq
      BY <2>1, <2>4 DEF Numbered
    <2>6. last.mono <= t
      BY <2>5 DEF MonotonicAfter
    <2>7. Told(E)[n] = Entry(last)
      BY <2>1, <2>2, <2>3, <2>4, NthOf
    <2> QED  BY <2>1, <2>3, <2>6, <2>7 DEF Entry
  <1> QED  BY <1>2, <1>4, <1>5, <1>6 DEF Readers!Extend, log, status

(* Every step is a step of the abstract timeline, or a stutter.            *)
LEMMA ReadersStep ==
    ASSUME ChainInv, Counted, SessionLogAssumption, [Next]_vars
    PROVE  Counted' /\ [Readers!Next]_(Readers!vars)
  <1>0. Acts
    BY StepActs DEF ChainInv, TimelineInv
  <1>a. ASSUME \A s \in Sessions : EventsOf(s)' = EventsOf(s) PROVE log' = log
    BY <1>a DEF log, LogOf
  <1>b. ASSUME NEW s \in Sessions, NEW t \in Times, NEW k \in Readers!Plain, NEW b, NEW a,
               MonotonicAfter(s, t), Takes(s, NewEvent(s, t, k, b, a)),
               sessions'[s].status = "recording"
        PROVE  Counted' /\ Readers!Next
    <2>1. Counted' /\ Readers!Extend(s, t, k)
      BY <1>b, TakesExtends
    <2>2. status' = status
      BY <1>b DEF status, Takes, Recording, SameRow
    <2> QED  BY <1>b, <2>1, <2>2 DEF Readers!Next, Readers!Record, status
  <1>1. CASE UNCHANGED db
    BY <1>1, <1>a, KeepsCounted DEF db, Readers!vars, log
  <1>2. ASSUME NEW s \in Sessions, NEW p \in Sessions \cup {None}, NEW f \in Nat,
               Opens(s, p, f)
        PROVE  Counted' /\ Readers!Next
    <2>1. /\ \A x \in Sessions \ {s} : SameRow(x)
          /\ sessions[s].status = "absent" /\ sessions'[s].status = "recording"
          /\ sessions'[s].next = sessions[s].next /\ events' = events
      BY <1>2, OpensRow DEF AbsentSession
    <2>2. Counted' /\ log' = log
      BY <2>1, <1>a, KeepsCounted DEF SameRow
    <2>3. status' = [status EXCEPT ![s] = "recording"]
      BY <2>1 DEF status, SameRow
    <2>4. Readers!Open(s)
      BY <2>1, <2>2, <2>3 DEF Readers!Open, Readers!SetStatus, log, status
    <2> QED  BY <2>2, <2>4 DEF Readers!Next
  <1>3. ASSUME NEW s \in Sessions, Degrades(s) PROVE Counted' /\ Readers!Next
    <2>1. /\ \A x \in Sessions \ {s} : SameRow(x)
          /\ sessions[s].status # "absent" /\ sessions'[s].status = "degraded"
          /\ sessions'[s].next = sessions[s].next /\ events' = events
      BY <1>3, DegradesRow DEF Degrades
    <2>2. Counted' /\ log' = log
      BY <2>1, <1>a, KeepsCounted DEF SameRow
    <2>3. status' = [status EXCEPT ![s] = "degraded"]
      BY <2>1 DEF status, SameRow
    <2>4. Readers!Degrade(s)
      BY <2>1, <2>2, <2>3 DEF Readers!Degrade, Readers!SetStatus, log, status
    <2> QED  BY <2>2, <2>4 DEF Readers!Next
  <1>4. ASSUME NEW s \in Sessions, Describes(s) PROVE Counted' /\ UNCHANGED <<log, status>>
    BY <1>4, <1>a, DescribesRow, KeepsCounted DEF SameRow, status
  <1>5. ASSUME NEW s \in Sessions, NEW t \in Times, NEW ref \in OptState, Plain(s, t, ref)
        PROVE  Counted' /\ Readers!Next
    BY <1>5, <1>b, PlainRow DEF Plain, Notes, Readers!Plain
  <1>6. ASSUME NEW r \in SnapshotRequests, NEW root \in Roots, NEW t \in Times,
               Publishes(r, root, t)
        PROVE  Counted' /\ Readers!Next
    BY <1>6, <1>b, PublishesRow DEF Publishes, Notes, Readers!Plain
  <1>7. ASSUME NEW r \in ArtifactRequests, NEW t \in Times, Discovers(r, t)
        PROVE  Counted' /\ Readers!Next
    BY <1>7, <1>b, DiscoversRow DEF Discovers, Notes, Readers!Plain
  <1>8. ASSUME NEW r \in EndRequests, NEW t \in Times, Closes(r, t)
        PROVE  Counted' /\ Readers!Next
    <2> PICK s, k : s = r.session /\ k = TerminalKind(r.status)
      OBVIOUS
    <2>1. /\ s \in Sessions /\ Takes(s, NewEvent(s, t, k, r.state, r.state))
          /\ sessions'[s].status = r.status /\ MonotonicAfter(s, t)
      BY <1>8, ClosesRow DEF Closes, Notes
    <2>2. k \in Readers!Terminal /\ Readers!Outcome(k) = r.status
      BY DEF EndRequests, TerminalKind, Readers!Terminal, Readers!Outcome
    <2>3. Counted' /\ Readers!Extend(s, t, k)
      BY <2>1, TakesExtends
    <2>4. status' = [status EXCEPT ![s] = Readers!Outcome(k)]
      BY <2>1, <2>2 DEF status, Takes, SameRow
    <2>5. Readers!Close(s)
      BY <2>2, <2>3, <2>4 DEF Readers!Close, Readers!SetStatus, status
    <2> QED  BY <2>1, <2>3, <2>5 DEF Readers!Next
  <1> QED
    BY <1>0, <1>1, <1>2, <1>3, <1>4, <1>5, <1>6, <1>7, <1>8
       DEF Acts, Readers!vars, log, status

(* The database implements the timelines its readers are promised: every   *)
(* transaction, whatever it read and whichever others interleaved, appends *)
(* to the end of one log, in the order of time, or closes one, or leaves   *)
(* what a reader sees alone.                                               *)
THEOREM TimelinesImplemented == Spec => ImplementsTimeline
  <1>1. Init => Counted /\ Readers!Init
    <2> SUFFICES ASSUME Init PROVE Counted /\ Readers!Init
      OBVIOUS
    <2>1. \A s \in Sessions : EventsOf(s) = {} /\ sessions[s].next - 1 = 0
                              /\ sessions[s].status = "absent"
      BY DEF Init, EventsOf, AbsentSession
    <2>2. Counted
      BY <2>1, FS_EmptySet DEF Counted, Numbered
    <2>3. \A s \in Sessions : LogOf(s) = <<>>
      <3>1. Told({}) \in Seq({}) /\ Len(Told({})) = 0
        BY FS_EmptySet DEF Told
      <3>2. Told({}) = <<>>
        BY <3>1, EmptySeq
      <3> QED  BY <2>1, <3>2, LogIsTold
    <2> QED  BY <2>1, <2>2, <2>3 DEF Readers!Init
  <1>2. ChainInv /\ Counted /\ [Next]_vars => Counted' /\ [Readers!Next]_(Readers!vars)
    BY ReadersStep, SessionLogAssumption
  <1> QED
    BY <1>1, <1>2, ChainHolds, PTL DEF Spec, ImplementsTimeline, Readers!Spec
============================================================================
