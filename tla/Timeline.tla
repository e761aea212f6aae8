----------------------------- MODULE Timeline -----------------------------
(***************************************************************************)
(* What the timelines of a Replay store promise their readers (diff,       *)
(* export, branch).  Each session has a log that only grows, in the order  *)
(* of its monotonic readings, while the session is recording; one terminal *)
(* event closes it; nothing touches it afterwards.  A session whose        *)
(* evidence turned out unreadable is degraded: its log is kept, closed.    *)
(***************************************************************************)
EXTENDS Naturals, Sequences

CONSTANTS Sessions, Times

VARIABLES log, status

vars == <<log, status>>

Plain    == {"event", "state.snapshot", "fs.artifact.discovered"}
Terminal == {"session.completed", "session.aborted"}

Outcome(kind) == IF kind = "session.completed" THEN "completed" ELSE "aborted"

Init == /\ log = [s \in Sessions |-> <<>>]
        /\ status = [s \in Sessions |-> "absent"]

SetStatus(s, new) == status' = [status EXCEPT ![s] = new]

Open(s) == status[s] = "absent" /\ SetStatus(s, "recording") /\ UNCHANGED log

Extend(s, t, kind) ==
    /\ status[s] = "recording"
    /\ log[s] # <<>> => log[s][Len(log[s])].mono <= t
    /\ log' = [log EXCEPT ![s] = Append(@, [mono |-> t, kind |-> kind])]

Record(s) == \E t \in Times, kind \in Plain : Extend(s, t, kind) /\ UNCHANGED status

Close(s) == \E t \in Times, kind \in Terminal :
    Extend(s, t, kind) /\ SetStatus(s, Outcome(kind))

Degrade(s) == status[s] # "absent" /\ SetStatus(s, "degraded") /\ UNCHANGED log

Next == \E s \in Sessions : Open(s) \/ Record(s) \/ Close(s) \/ Degrade(s)

Spec == Init /\ [][Next]_vars
============================================================================
