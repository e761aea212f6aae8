---------------------------- MODULE Inspection ----------------------------
(***************************************************************************)
(* InspectSnapshot (internal/state/inspection.go), which PublishSnapshot   *)
(* calls on what Capture stored and which decides what is published: it    *)
(* loads every object a tree refers to and counts what the workspace has,  *)
(* with one visit for each tree object.  VerifySnapshot (verify.go), which *)
(* a restore starts with, is the same walk without the set of objects.     *)
(*                                                                         *)
(* cas is the set of the objects that GetObject returns.                   *)
(***************************************************************************)
EXTENDS Snapshot, SequencesExt

Zero == [trees |-> 0, files |-> 0, directories |-> 0, symlinks |-> 0, bytes |-> 0]

Plus(a, b) == [c \in DOMAIN a |-> a[c] + b[c]]

\* A walk through the trees: whether all was well, what was counted, the counts of each
\* tree that was finished, and the objects that were added.
Started == [ok |-> TRUE, counts |-> Zero, stats |-> [t \in {} |-> Zero], objects |-> {}]

Refused(walk) == [walk EXCEPT !.ok = FALSE]

ChunksOf(object) == IF object.kind = "chunk_list" THEN Range(object.chunks) ELSE {}

SizeOf(object) ==
    IF object.kind = "chunk_list"
    THEN FoldLeft(LAMBDA size, chunk : size + Len(chunk.data), 0, object.chunks)
    ELSE Len(object.data)

\* The object of a file or a link is there with all its chunks, and has the kind and
\* the size that its entry says.
Loads(cas, entry) ==
    /\ entry.object \in cas
    /\ entry.object.kind \in IF entry.kind = "file" THEN {"blob", "chunk_list"} ELSE {"link"}
    /\ \A c \in ChunksOf(entry.object) : c \in cas /\ c.kind = "blob"
    /\ SizeOf(entry.object) = entry.size

InspectFile(cas, entry, walk) ==
    IF ~Loads(cas, entry) THEN Refused(walk)
    ELSE [walk EXCEPT
            !.counts = Plus(@, IF entry.kind = "file"
                               THEN [Zero EXCEPT !.files = 1, !.bytes = entry.size]
                               ELSE [Zero EXCEPT !.symlinks = 1]),
            !.objects = @ \cup {entry.object} \cup ChunksOf(entry.object)]

RECURSIVE InspectTree(_, _, _)

\* The entries of a tree that is visited for the first time, in their order.
InspectEntries(cas, tree, walk) ==
    LET Visit(sofar, name) ==
          LET entry == tree.entries[name] IN
          CASE ~sofar.ok           -> sofar
            [] entry.kind = "dir" ->
                 InspectTree(cas, entry.object,
                             [sofar EXCEPT !.counts.directories = @ + 1])
            [] OTHER              -> InspectFile(cas, entry, sofar)
    IN FoldLeft(Visit, walk, SetToSortSeq(DOMAIN tree.entries, <))

\* A tree that was finished before counts again, and is not visited again.
InspectTree(cas, id, walk) ==
    CASE id \in DOMAIN walk.stats -> [walk EXCEPT !.counts = Plus(@, walk.stats[id])]
      [] id \notin cas \/ id.kind # "tree" -> Refused(walk)
      [] OTHER ->
           LET inside == InspectEntries(cas, id,
                           [walk EXCEPT !.counts = [Zero EXCEPT !.trees = 1],
                                        !.objects = @ \cup {id}])
           IN [inside EXCEPT !.counts = Plus(walk.counts, @),
                             !.stats = With(@, id, inside.counts)]

InspectSnapshot(cas, root) == InspectTree(cas, root, Started)

---------------------------------------------------------------------------
(* Properties.                                                             *)

\* The paths below a tree, each with its entry.
RECURSIVE PathsOf(_)
PathsOf(tree) ==
    UNION {{<< <<n>>, tree.entries[n] >>} \cup
             (IF tree.entries[n].kind = "dir"
              THEN {<< <<n>> \o p[1], p[2] >> : p \in PathsOf(tree.entries[n].object)}
              ELSE {})
           : n \in DOMAIN tree.entries}

\* The counts of a tree, by its paths.
CountsOf(tree) ==
    LET Of(kind) == {p \in PathsOf(tree) : p[2].kind = kind} IN
    [trees       |-> Cardinality(Of("dir")) + 1,
     files       |-> Cardinality(Of("file")),
     directories |-> Cardinality(Of("dir")),
     symlinks    |-> Cardinality(Of("symlink")),
     bytes       |-> MapThenSumSet(LAMBDA p : p[2].size, Of("file"))]

ReachableFrom(tree) ==
    LET objects == {tree} \cup {p[2].object : p \in PathsOf(tree)}
    IN objects \cup UNION {ChunksOf(o) : o \in objects}

\* Whatever tree is in the content store at any moment of a capture, of one that goes on
\* changing, fails or is killed as well, inspection accepts: nothing it refers to is
\* missing or of another kind, down to the chunks.  The inspection counts every path,
\* also those of a directory with the same contents as another, and lists every
\* object the state reaches: PublishSnapshot makes its edges from them.
TreesAreAccepted ==
    \A t \in stored : t.kind = "tree" =>
        LET inspection == InspectSnapshot(stored, t) IN
        /\ inspection.ok
        /\ inspection.counts = CountsOf(t)
        /\ inspection.objects = ReachableFrom(t)
============================================================================
