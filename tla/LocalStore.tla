---------------------------- MODULE LocalStore ----------------------------
(***************************************************************************)
(* The encrypted content-addressed store (internal/store/local.go) and the *)
(* publication that relies on it, as the system calls several processes    *)
(* make on one object: the hard link that commits it without replacing,    *)
(* the directory syncs that make its entry survive a power loss, the       *)
(* verification that precedes deduplication, and the quarantine that       *)
(* blocks damaged bytes with a marker before it moves them away.           *)
(*                                                                         *)
(* Objects do not interact: each has its own directory entry and marker,   *)
(* and the sync of a directory on behalf of another object can only make   *)
(* more entries durable.  File contents are synced before they are linked, *)
(* so what a power loss can take back is a directory entry.                *)
(***************************************************************************)
EXTENDS Naturals

CONSTANT Procs   \* processes and threads that use the store

VARIABLES
    file,       \* the object's bytes as processes see them: absent, good or bad
    onDisk,     \* the bytes its directory entry leads to after a power loss
    marker,     \* the quarantine marker exists
    markerOnDisk,
    pc,         \* pc[p]: the system call p makes next
    caller,     \* caller[p]: the operation on whose behalf p runs Get
    published,  \* a committed state references the object
    condemned   \* history: the object's bytes were moved to quarantine

vars == <<file, onDisk, marker, markerOnDisk, pc, caller, published, condemned>>

Bytes   == {"absent", "good", "bad"}
Callers == {"get", "put", "inspect"}
Steps   == {"idle", "stat", "chain", "link", "sync", "check", "read",
            "markChain", "markLink", "markSync", "rename", "renameSync",
            "committed", "deduplicated", "publish"}

Goto(p, step) == pc' = [pc EXCEPT ![p] = step]
Enter(p, step, who) == Goto(p, step) /\ caller' = [caller EXCEPT ![p] = who]

UnchangedStore == UNCHANGED <<file, onDisk, marker, markerOnDisk, condemned>>

---------------------------------------------------------------------------
(* Put.                                                                    *)

\* Put begins with the marker: a quarantined object is refused.
PutStart(p) ==
    /\ pc[p] = "idle" /\ ~marker
    /\ Enter(p, "stat", "put")
    /\ UnchangedStore /\ UNCHANGED published

\* os.Stat: an object already there is verified, an absent one written.
PutStat(p) ==
    /\ pc[p] = "stat"
    /\ Goto(p, IF file = "absent" THEN "chain" ELSE "check")
    /\ UnchangedStore /\ UNCHANGED <<caller, published>>

\* syncDirectoryChain, before the staging file is written and synced.
PutChain(p) ==
    /\ pc[p] = "chain"
    /\ onDisk' = file
    /\ Goto(p, "link")
    /\ UNCHANGED <<file, marker, markerOnDisk, condemned, caller, published>>

\* Mutant of Linked: the commit replaces whatever is there, as a rename would.
Replaced == TRUE /\ file' = "good"

\* os.Link never replaces: it fails when another writer was first.
Linked == file = "absent" /\ file' = "good"

PutLink(p) ==
    /\ pc[p] = "link"
    /\ \/ Linked /\ Goto(p, "sync")
       \/ file # "absent" /\ UNCHANGED file /\ Goto(p, "check")
    /\ UNCHANGED <<onDisk, marker, markerOnDisk, condemned, caller, published>>

\* Mutant of Synced: the entry is left to the kernel.
NotSynced == UNCHANGED onDisk

Synced == onDisk' = file

PutSync(p) ==
    /\ pc[p] = "sync"
    /\ \/ Synced /\ Goto(p, "committed")
       \/ UNCHANGED onDisk /\ Goto(p, "idle")    \* syncDir failed: Put reports it
    /\ UNCHANGED <<file, marker, markerOnDisk, condemned, caller, published>>

---------------------------------------------------------------------------
(* Get: by itself, to verify a deduplicated object, and to inspect a       *)
(* snapshot before its publication.                                        *)

GetStart(p) ==
    /\ pc[p] = "idle"
    /\ Enter(p, "check", "get")
    /\ UnchangedStore /\ UNCHANGED published

\* isQuarantined stops Get before it opens the file.
GetCheck(p) ==
    /\ pc[p] = "check"
    /\ Goto(p, IF marker THEN "idle" ELSE "read")
    /\ UnchangedStore /\ UNCHANGED <<caller, published>>

\* Where the operation that called Get continues with verified bytes.
Return(p) == CASE caller[p] = "get"     -> "idle"
               [] caller[p] = "put"     -> "deduplicated"
               [] caller[p] = "inspect" -> "publish"

\* Damaged bytes are quarantined; a file that is gone, or was replaced while it
\* was read, is an error to the caller and no more.
GetRead(p) ==
    /\ pc[p] = "read"
    /\ \/ file = "good" /\ Goto(p, Return(p))
       \/ file = "bad" /\ Goto(p, "markChain")
       \/ Goto(p, "idle")
    /\ UnchangedStore /\ UNCHANGED <<caller, published>>

---------------------------------------------------------------------------
(* quarantineCorruptObject.                                                *)

MarkChain(p) ==
    /\ pc[p] = "markChain"
    /\ markerOnDisk' = marker
    /\ Goto(p, "markLink")
    /\ UNCHANGED <<file, onDisk, marker, condemned, caller, published>>

\* A marker that another process linked first counts as committed.
AfterMarkLink == IF marker THEN "rename" ELSE "markSync"

MarkLink(p) ==
    /\ pc[p] = "markLink"
    /\ marker' = TRUE
    /\ Goto(p, AfterMarkLink)
    /\ UNCHANGED <<file, onDisk, markerOnDisk, condemned, caller, published>>

MarkSync(p) ==
    /\ pc[p] = "markSync"
    /\ \/ markerOnDisk' = marker /\ Goto(p, "rename")
       \/ UNCHANGED markerOnDisk /\ Goto(p, "idle")
    /\ UNCHANGED <<file, onDisk, marker, condemned, caller, published>>

\* os.Rename moves whatever the source is by now, and fails if it is gone.
Rename(p) ==
    /\ pc[p] = "rename"
    /\ file' = "absent"
    /\ condemned' = (condemned \/ file # "absent")
    /\ Goto(p, IF file = "absent" THEN "idle" ELSE "renameSync")
    /\ UNCHANGED <<onDisk, marker, markerOnDisk, caller, published>>

RenameSync(p) ==
    /\ pc[p] = "renameSync"
    /\ onDisk' = file
    /\ Goto(p, "idle")
    /\ UNCHANGED <<file, marker, markerOnDisk, condemned, caller, published>>

---------------------------------------------------------------------------
(* The caller of a successful Put inspects the snapshot and publishes it.  *)

Inspect(p) ==
    /\ pc[p] \in {"committed", "deduplicated"}
    /\ Enter(p, "check", "inspect")
    /\ UnchangedStore /\ UNCHANGED published

\* The SQLite commit, durable when it returns (synchronous = FULL).
Publish(p) ==
    /\ pc[p] = "publish"
    /\ published' = TRUE
    /\ Goto(p, "idle")
    /\ UnchangedStore /\ UNCHANGED caller

---------------------------------------------------------------------------
(* What happens to the store from outside.                                 *)

Rot ==
    /\ file = "good"
    /\ file' = "bad"
    /\ onDisk' = IF onDisk = "good" THEN "bad" ELSE onDisk
    /\ UNCHANGED <<marker, markerOnDisk, condemned, pc, caller, published>>

\* A process dies between two system calls; another starts in its place.
Kill(p) ==
    /\ pc[p] # "idle"
    /\ Goto(p, "idle")
    /\ UnchangedStore /\ UNCHANGED <<caller, published>>

\* The machine stops: an entry that was not synced may or may not survive.
PowerLoss ==
    /\ file' \in {file, onDisk} /\ onDisk' = file'
    /\ marker' \in {marker, markerOnDisk} /\ markerOnDisk' = marker'
    /\ pc' = [p \in Procs |-> "idle"]
    /\ UNCHANGED <<caller, published, condemned>>

---------------------------------------------------------------------------

Init ==
    /\ file = "absent" /\ onDisk = "absent"
    /\ marker = FALSE /\ markerOnDisk = FALSE
    /\ pc = [p \in Procs |-> "idle"]
    /\ caller = [p \in Procs |-> "get"]
    /\ published = FALSE /\ condemned = FALSE

Step(p) ==
    \/ PutStart(p) \/ PutStat(p) \/ PutChain(p) \/ PutLink(p) \/ PutSync(p)
    \/ GetStart(p) \/ GetCheck(p) \/ GetRead(p)
    \/ MarkChain(p) \/ MarkLink(p) \/ MarkSync(p) \/ Rename(p) \/ RenameSync(p)
    \/ Inspect(p) \/ Publish(p) \/ Kill(p)

Next == (\E p \in Procs : Step(p)) \/ Rot \/ PowerLoss

Spec == Init /\ [][Next]_vars

---------------------------------------------------------------------------
(* Properties.                                                             *)

\* Types, and the control invariant: only Put goes through the commit, and only
\* an inspected object is published.
TypeOK ==
    /\ file \in Bytes /\ onDisk \in Bytes
    /\ marker \in BOOLEAN /\ markerOnDisk \in BOOLEAN
    /\ pc \in [Procs -> Steps] /\ caller \in [Procs -> Callers]
    /\ published \in BOOLEAN /\ condemned \in BOOLEAN
    /\ \A p \in Procs :
         /\ pc[p] \in {"stat", "chain", "link", "sync", "committed", "deduplicated"} =>
              caller[p] = "put"
         /\ pc[p] = "publish" => caller[p] = "inspect"

\* Put returns from its own commit only when the entry survives a power loss
\* (unless the object was condemned, or rotted, meanwhile).
CommitIsDurable ==
    \A p \in Procs : pc[p] = "committed" => onDisk # "absent" \/ condemned

Object == INSTANCE ContentStore WITH
    object <- IF marker THEN "condemned" ELSE file

\* Between power losses the processes together implement the abstract store:
\* in particular an object is only condemned while its bytes are bad, and no
\* interleaving of Put with a quarantine brings a condemned object back.
ImplementsContentStore == Object!Init /\ [][Object!Next \/ PowerLoss]_(IF marker THEN "condemned" ELSE file)

\* A state is visible in metadata only when every object it references has
\* been durably written (ADR-003, and PublishSnapshot's comment).
PublishedIsDurable == published => onDisk # "absent" \/ condemned

\* After a quarantine, no crash lets a later Put store the object again
\* (quarantineCorruptObject's comment).
NoSilentHeal == condemned => marker \/ file = "bad"
============================================================================
