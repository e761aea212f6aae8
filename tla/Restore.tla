------------------------------ MODULE Restore ------------------------------
(***************************************************************************)
(* RestoreState (internal/replay/restore.go), and Create and Rerun         *)
(* (internal/branch/branch.go) on top of it: several processes materialize *)
(* recorded states at one destination, each with or without --force, while *)
(* the user works there, objects rot and processes are killed.             *)
(*                                                                         *)
(* A tree is materialized in Parts parts, each one object, and a rename    *)
(* moves a directory at once (POSIX: it replaces nothing but an empty      *)
(* directory).  Capture, which is not instantaneous, is Snapshot's matter; *)
(* what Rerun records after its child started is Recorder's.               *)
(***************************************************************************)
EXTENDS Naturals

CONSTANTS
    Procs,       \* the processes that restore
    States,      \* recorded states
    Wanted,      \* Wanted[p]: the state that p restores
    Parts,       \* objects in a state
    MaxChanges   \* bound on the user's changes of the destination

ASSUME WantedStates == Wanted \in [Procs -> States]
ASSUME NamesOfStates == {"nothing", "work", "file"} \cap States = {}
ASSUME SomeParts == Parts \in Nat \ {0}
ASSUME ChangesBounded == MaxChanges \in Nat

VARIABLES
    forced,     \* the processes that were given --force
    dest,       \* what is at the destination
    staging,    \* staging[p]: what is in the staging directory of p
    backup,     \* backup[p]: what p moved aside
    pc,         \* pc[p]: what p does next
    existed,    \* the processes that found the destination taken
    rotten,     \* the objects, <<state, part>>, whose bytes are no longer right
    degraded,   \* the states whose session is marked degraded
    ran,        \* ran[p]: the directory in which the child of p was started
    changes,    \* changes made by the user
    committed,  \* history: the processes that renamed their staging directory
    replaced,   \* history: what a process removed after its commit
    owed,       \* history: what the user put at the destination and did not remove
    touched     \* history: the processes whose branch changed after its capture

files    == <<dest, staging, backup>>
evidence == <<rotten, degraded>>
history  == <<committed, replaced>>
vars == <<forced, files, pc, existed, evidence, ran, changes, history, owed, touched>>

---------------------------------------------------------------------------
(* What a path of the file system leads to.                                *)

Nothing         == [what |-> "nothing", parts |-> 0]
Tree(s, parts)  == [what |-> s, parts |-> parts]
Work(n, parts)  == [what |-> "work", version |-> n, parts |-> parts]
File(n)         == [what |-> "file", version |-> n, parts |-> 1]

IsDir(x) == x.what \notin {"nothing", "file"}

\* os.Rename moves x to a path that leads to y.
MovesTo(x, y) ==
    \/ y = Nothing
    \/ IsDir(x) /\ IsDir(y) /\ y.parts = 0
    \/ x.what = "file" /\ y.what = "file"

Goto(p, l) == pc' = [pc EXCEPT ![p] = l]
Is(p, l)   == pc[p] = l

Kept == UNCHANGED <<forced, changes, owed>>

---------------------------------------------------------------------------
(* Before the commit.                                                      *)

Intact(s) == \A n \in 1 .. Parts : <<s, n>> \notin rotten

\* markCorruptState: the session is degraded, unless the database fails.
MarkCorrupt(s) == degraded' \in {degraded \cup {s}, degraded} /\ UNCHANGED rotten

\* VerifyState reads every object; one that rots meanwhile is found or not.
Verify(p) ==
    /\ Is(p, "verify")
    /\ \/ Intact(Wanted[p]) /\ Goto(p, "validate") /\ UNCHANGED evidence
       \/ ~Intact(Wanted[p]) /\ MarkCorrupt(Wanted[p]) /\ Goto(p, "failed")
    /\ UNCHANGED <<files, existed, ran, history>>

MayReplace(p) == p \in forced /\ IsDir(dest)

ValidateDestination(p) ==
    /\ Is(p, "validate")
    /\ \/ dest = Nothing /\ Goto(p, "stage") /\ UNCHANGED existed
       \/ /\ dest # Nothing /\ MayReplace(p)
          /\ existed' = existed \cup {p} /\ Goto(p, "stage")
       \/ /\ dest # Nothing /\ ~MayReplace(p)
          /\ Goto(p, "failed") /\ UNCHANGED existed
    /\ UNCHANGED <<files, evidence, ran, history>>

Stage(p) ==
    /\ Is(p, "stage")
    /\ staging' = [staging EXCEPT ![p] = Tree(Wanted[p], 0)] /\ Goto(p, "write")
    /\ UNCHANGED <<dest, backup, existed, evidence, ran, history>>

\* Mutant of AllWritten: what was written so far is committed.
SomeWritten(p) == TRUE

AllWritten(p) == staging[p].parts = Parts

\* materializeTree: the next object is authenticated again and written.
Materialize(p) ==
    /\ Is(p, "write")
    /\ LET next == staging[p].parts + 1 IN
       \/ /\ next <= Parts /\ <<Wanted[p], next>> \notin rotten
          /\ staging' = [staging EXCEPT ![p] = Tree(Wanted[p], next)]
          /\ UNCHANGED <<pc, evidence>>
       \/ /\ next <= Parts /\ <<Wanted[p], next>> \in rotten
          /\ MarkCorrupt(Wanted[p]) /\ Goto(p, "clean") /\ UNCHANGED staging
       \/ /\ AllWritten(p)
          /\ Goto(p, "commit") /\ UNCHANGED <<staging, evidence>>
    /\ UNCHANGED <<dest, backup, existed, ran, history>>

\* Mutant of Fails: an error during the materialization leaves the staging directory.
FailsAtOnce(p) ==
    /\ pc[p] \in {"verify", "validate", "stage", "write", "commit"} /\ Goto(p, "failed")
    /\ UNCHANGED <<files, existed, evidence, ran, history>>

\* Any other error before the commit, a cancelled context among them.
Fails(p) ==
    /\ \/ pc[p] \in {"verify", "validate", "stage"} /\ Goto(p, "failed")
       \/ pc[p] \in {"write", "commit"} /\ Goto(p, "clean")
    /\ UNCHANGED <<files, existed, evidence, ran, history>>

\* Mutant of Cleaned: everything whose name begins like that of staging goes.
CleanedByPrefix(p) ==
    /\ staging' = [staging EXCEPT ![p] = Nothing]
    /\ backup' = [backup EXCEPT ![p] = Nothing]

Cleaned(p) == staging' = [staging EXCEPT ![p] = Nothing] /\ UNCHANGED backup

\* The deferred RemoveAll, whose error is ignored.
Clean(p) ==
    /\ Is(p, "clean")
    /\ \/ Cleaned(p) /\ Goto(p, "failed")
       \/ UNCHANGED <<staging, backup>> /\ Goto(p, "littered")
    /\ UNCHANGED <<dest, existed, evidence, ran, history>>

---------------------------------------------------------------------------
(* commitRestore.                                                          *)

\* The rename of the complete staging directory.
MoveIn(p) ==
    /\ MovesTo(staging[p], dest)
    /\ dest' = staging[p] /\ staging' = [staging EXCEPT ![p] = Nothing]
    /\ committed' = committed \cup {p}
    /\ UNCHANGED <<backup, replaced>>

\* Mutant of IsNew: the destination is looked at again, and moved aside if taken.
IsNewNow(p) == dest = Nothing

\* Who found the destination taken was given --force: the internal error of
\* commitRestore is unreachable.
IsNew(p) == p \notin existed

CommitNew(p) ==
    /\ Is(p, "commit") /\ IsNew(p)
    /\ \/ MoveIn(p) /\ Goto(p, "done")
       \/ ~MovesTo(staging[p], dest) /\ Goto(p, "clean") /\ UNCHANGED <<files, history>>
    /\ UNCHANGED <<existed, evidence, ran>>

MoveAside(p) ==
    /\ Is(p, "commit") /\ ~IsNew(p)
    /\ \/ /\ dest # Nothing
          /\ backup' = [backup EXCEPT ![p] = dest] /\ dest' = Nothing
          /\ Goto(p, "moved") /\ UNCHANGED staging
       \/ dest = Nothing /\ Goto(p, "clean") /\ UNCHANGED files
    /\ UNCHANGED <<existed, evidence, ran, history>>

\* The rename may fail for a reason of its own.
CommitForced(p) ==
    /\ Is(p, "moved")
    /\ \/ MoveIn(p) /\ Goto(p, "tidy")
       \/ Goto(p, "rollback") /\ UNCHANGED <<files, history>>
    /\ UNCHANGED <<existed, evidence, ran>>

Rollback(p) ==
    /\ Is(p, "rollback")
    /\ \/ /\ MovesTo(backup[p], dest)
          /\ dest' = backup[p] /\ backup' = [backup EXCEPT ![p] = Nothing]
       \/ UNCHANGED <<dest, backup>>
    /\ Goto(p, "clean")
    /\ UNCHANGED <<staging, existed, evidence, ran, history>>

\* The error of RemoveAll is returned although the restore is committed; what it leaves
\* of the backup counts as all of it.
RemoveBackup(p) ==
    /\ Is(p, "tidy")
    /\ \/ /\ backup' = [backup EXCEPT ![p] = Nothing]
          /\ replaced' = replaced \cup (IF p \in committed THEN {backup[p]} ELSE {})
          /\ Goto(p, "done") /\ UNCHANGED <<dest, staging, committed>>
       \/ Goto(p, "clean") /\ UNCHANGED <<files, history>>
    /\ UNCHANGED <<existed, evidence, ran>>

---------------------------------------------------------------------------
(* Rerun: the recorder captures the branch and starts the command in it.   *)

\* Mutant of ExactRoot: any root will do.
AnyRoot(p) == TRUE

ExactRoot(p) == dest = Tree(Wanted[p], Parts)

Capture(p) ==
    /\ Is(p, "done")
    /\ Goto(p, IF ExactRoot(p) THEN "ready" ELSE "refused")
    /\ UNCHANGED <<files, existed, evidence, ran, history>>

\* The command needs a directory to start in.
Start(p) ==
    /\ Is(p, "ready")
    /\ \/ IsDir(dest) /\ ran' = [ran EXCEPT ![p] = dest] /\ Goto(p, "ran")
       \/ ~IsDir(dest) /\ Goto(p, "refused") /\ UNCHANGED ran
    /\ UNCHANGED <<files, existed, evidence, history>>

---------------------------------------------------------------------------
(* The user, the disk, and the loss of a process.                          *)

Over == {"failed", "littered", "refused", "ran", "killed"}

Killed(p) ==
    /\ pc[p] \notin Over \cup {"done"}
    /\ Goto(p, "killed")
    /\ UNCHANGED <<files, existed, evidence, ran, history>>

\* The user makes, edits, empties, removes or replaces what is at the destination.
UserChanges ==
    /\ changes < MaxChanges /\ changes' = changes + 1
    /\ dest' \in {Nothing, File(changes + 1)} \cup {Work(changes + 1, n) : n \in {0, Parts}}
    /\ owed' = (owed \ {dest}) \cup {dest'}
    /\ UNCHANGED <<forced, staging, backup, pc, existed, evidence, ran, history>>

Rot ==
    /\ rotten = {}
    /\ \E s \in States, n \in 1 .. Parts : rotten' = {<<s, n>>}
    /\ UNCHANGED <<forced, files, pc, existed, degraded, ran, changes, history, owed>>

Step(p) ==
    \/ Verify(p) \/ ValidateDestination(p) \/ Stage(p) \/ Materialize(p)
    \/ Fails(p) \/ Clean(p)
    \/ CommitNew(p) \/ MoveAside(p) \/ CommitForced(p) \/ Rollback(p) \/ RemoveBackup(p)
    \/ Capture(p) \/ Start(p) \/ Killed(p)

---------------------------------------------------------------------------

Init ==
    /\ forced \in SUBSET Procs
    /\ dest \in {Nothing, File(0), Work(0, 0), Work(0, Parts)}
    /\ staging = [p \in Procs |-> Nothing] /\ backup = [p \in Procs |-> Nothing]
    /\ pc = [p \in Procs |-> "verify"] /\ existed = {}
    /\ rotten = {} /\ degraded = {}
    /\ ran = [p \in Procs |-> Nothing]
    /\ changes = 0
    /\ committed = {} /\ replaced = {}
    /\ owed = {dest} /\ touched = {}

Next ==
    /\ \/ \E p \in Procs : Step(p) /\ Kept
       \/ UserChanges
       \/ Rot
       \/ (\A p \in Procs : pc[p] \in Over) /\ UNCHANGED vars
    /\ touched' = touched \cup {p \in Procs : Is(p, "ready") /\ dest' # dest}

Spec == Init /\ [][Next]_vars

---------------------------------------------------------------------------
(* Properties.                                                             *)

Locations == {"verify", "validate", "stage", "write", "clean", "commit", "moved",
              "rollback", "tidy", "done", "ready"} \cup Over

Trees    == {Tree(s, n) : s \in States, n \in 0 .. Parts}
Contents == {Nothing} \cup Trees
              \cup {Work(n, k) : n \in 0 .. MaxChanges, k \in {0, Parts}}
              \cup {File(n) : n \in 0 .. MaxChanges}

\* Every variable has its type; only a process with --force goes on when it found the
\* destination taken.
TypeOK ==
    /\ forced \subseteq Procs /\ existed \subseteq forced
    /\ dest \in Contents
    /\ staging \in [Procs -> {Nothing} \cup Trees]
    /\ backup \in [Procs -> Contents] /\ ran \in [Procs -> Contents]
    /\ pc \in [Procs -> Locations]
    /\ rotten \subseteq States \X (1 .. Parts) /\ degraded \subseteq States
    /\ changes \in 0 .. MaxChanges
    /\ committed \subseteq Procs /\ touched \subseteq Procs
    /\ replaced \subseteq Contents /\ owed \subseteq Contents

\* The destination is never a partly materialized state, whatever fails, rots or is
\* killed: it has a complete state, or nothing that Replay wrote (ADR-028).
NeverPartial == dest.what \in States => dest.parts = Parts

\* What a process can take from the user, with --force and only after its own state
\* is in place, is a directory it moved aside; until then that directory is at the
\* destination or in a backup, even when another process or the user took the
\* destination between the two renames (commitRestore).
UserDataIsKept ==
    \A c \in owed : c.what = "work" /\ c.parts > 0 =>
        c \in {dest} \cup {backup[p] : p \in Procs} \cup replaced

\* Without --force a process never takes the destination from anybody, even if it was
\* free when validateDestination looked.
OnlyForceReplaces ==
    [][\A p \in Procs \ forced : pc'[p] # pc[p] => dest' = dest \/ dest.parts = 0]_vars

\* A process that returned has left no staging directory behind, unless it could not
\* remove it, and one that succeeded no backup.
NoLitter ==
    \A p \in Procs :
        /\ pc[p] \in {"failed", "done", "refused", "ran"} => staging[p] = Nothing
        /\ pc[p] \in {"done", "refused", "ran"} => backup[p] = Nothing

\* A rerun's command is started in exactly the recorded state: if it is not, somebody
\* changed the branch after it was captured, and not between the restore and the
\* capture (the check of ExpectedInitialRoot).
ExactBranch ==
    \A p \in Procs :
        ran[p] # Nothing /\ p \notin touched => ran[p] = Tree(Wanted[p], Parts)
============================================================================
