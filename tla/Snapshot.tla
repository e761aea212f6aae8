----------------------------- MODULE Snapshot -----------------------------
(***************************************************************************)
(* Capture (internal/state/snapshot.go) of a workspace that other          *)
(* processes keep changing.  Directories are captured depth first, in the  *)
(* order of their names, through handles: the stack has one frame for each *)
(* directory being captured.  What a stat tells, and sameStableInfo        *)
(* compares, is an inode and a stamp that stands for its kind, mode, size  *)
(* and modification time.                                                  *)
(*                                                                         *)
(* Assumed: two changes of one inode never leave it with the same stamp    *)
(* (the clock of the file system is fine enough), and the root is not      *)
(* itself replaced.  Names exclude what readDirectoryItems skips.  A file  *)
(* that is shorter or longer than it was is found changed by its stamp,    *)
(* and a chunk of a large file is what one read returns.                   *)
(***************************************************************************)
EXTENDS Naturals, Sequences, FiniteSetsExt, Functions

CONSTANTS
    Inodes, Root,
    Large,        \* the inodes whose files are larger than LargeFileThreshold
    Names,        \* names of entries, in byte order
    Initial,      \* the workspace before the capture, a value of nodes
    MaxChanges,   \* bound on the changes during the capture
    Blocks        \* a file is read in this many reads

ASSUME LargeAreInodes == Large \subseteq Inodes
ASSUME NamesAreOrdered == Names \subseteq Nat
ASSUME BoundsAreNaturals == MaxChanges \in Nat /\ Blocks \in Nat

\* What an inode can be.
DirNodes  == [kind : {"dir"}, stamp : Nat, kids : UNION {[N -> Inodes] : N \in SUBSET Names}]
FileNodes == [kind : {"file"}, stamp : Nat, data : [1 .. Blocks -> Nat]]
LinkNodes == [kind : {"link"}, stamp : Nat, data : [1 .. Blocks -> Nat]]
SpecialNodes == [kind : {"special"}, stamp : {0}]
Nodes == DirNodes \cup FileNodes \cup LinkNodes \cup SpecialNodes

ASSUME InitialAssumption ==
    /\ Initial \in [Inodes -> Nodes] /\ \A i \in Inodes : Initial[i].stamp = 0
    /\ Root \in Inodes /\ Initial[Root].kind = "dir"

VARIABLES
    nodes,    \* nodes[i]: what inode i is and holds
    changes,  \* the changes made so far; the stamp of the next is one more
    past,     \* history: every value of nodes since the capture began
    stack,    \* the directories being captured, the innermost last
    step,     \* what Capture does next
    file,     \* the open file or link: its inode and what was read
    stored    \* the objects in the content store

vars == <<nodes, changes, past, stack, step, file, stored>>
workspace == <<nodes, changes, past>>

Dir(stamp, kids)  == [kind |-> "dir", stamp |-> stamp, kids |-> kids]
File(stamp, data) == [kind |-> "file", stamp |-> stamp, data |-> data]
Link(stamp, data) == [kind |-> "link", stamp |-> stamp, data |-> data]
Special           == [kind |-> "special", stamp |-> 0]

\* An object of the content store is its own id: ids are hashes of kind and payload.
Blob(data)        == [kind |-> "blob", data |-> data]
Target(data)      == [kind |-> "link", data |-> data]
ChunkList(chunks) == [kind |-> "chunk_list", chunks |-> chunks]
Tree(entries)     == [kind |-> "tree", entries |-> entries]

\* An entry of a tree; its mode is left out.
FileEntry(size, object) == [kind |-> "file", size |-> size, object |-> object]
LinkEntry(data)  == [kind |-> "symlink", size |-> Len(data), object |-> Target(data)]
DirEntry(tree)   == [kind |-> "dir", size |-> 0, object |-> tree]

\* The object of a file: one blob, or a list of one blob for each chunk.
Contents(i, data) ==
    IF i \in Large THEN ChunkList([b \in DOMAIN data |-> Blob(<<data[b]>>)]) ELSE Blob(data)

Empty  == [n \in {} |-> Root]
Closed == [inode |-> Root, read |-> <<>>]

With(f, n, value) == [x \in DOMAIN f \cup {n} |-> IF x = n THEN value ELSE f[x]]
Without(f, n)     == [x \in DOMAIN f \ {n} |-> f[x]]

Finished == step \in {"done", "changed", "failed"}

---------------------------------------------------------------------------
(* The directory being captured, and its next entry.                       *)

Frame(i) == [dir |-> i, todo |-> {}, before |-> Empty, after |-> Empty, kids |-> Empty]

Top == stack[Len(stack)]
Becomes(frame) == stack' = [stack EXCEPT ![Len(stack)] = frame]

Kids    == nodes[Top.dir].kids
Entry   == Min(Top.todo)
Here    == Entry \in DOMAIN Kids
Current == Kids[Entry]

\* Mutant of Info: sameStableInfo compares the inodes alone.
Identity(i) == [inode |-> i, stamp |-> 0]

Info(i) == [inode |-> i, stamp |-> nodes[i].stamp]

\* Mutant of Same: the time of the last access counts, which reading the file changes.
SameUnread(i) == Info(i) = Top.before[Entry] /\ file.read = <<>>

\* sameStableInfo, of an inode and the entry when it was listed.
Same(i) == Info(i) = Top.before[Entry]

Unchanged == Here /\ Same(Current)

\* What opening the entry opens: a link is followed inside the root, to any inode.
Opened == IF nodes[Current].kind = "link" THEN Inodes ELSE {Current}

Continues(next) == step' = next /\ UNCHANGED <<stack, file, stored>>

\* ErrWorkspaceChanged or another error: every handle is closed.
Ends(how) ==
    /\ step' = how /\ stack' = <<Frame(Root)>> /\ file' = Closed
    /\ UNCHANGED stored

\* Mutant of Stores: an object that could not be stored is taken for stored.
StoresOrNot(object) == stored' \in {stored, stored \cup {object}}

Stores(object) == stored' = stored \cup {object}

---------------------------------------------------------------------------
(* Listing a directory, before its entries are captured and after.         *)

ReadDir ==
    /\ step \in {"list", "relist"}
    /\ Becomes([Top EXCEPT !.todo = DOMAIN Kids])
    /\ step' = IF step = "list" THEN "lstat" ELSE "relstat"
    /\ UNCHANGED <<file, stored>>

Lstat ==
    /\ step \in {"lstat", "relstat"} /\ Top.todo # {}
    /\ \/ ~Here /\ Ends("changed")
       \/ /\ Here /\ step = "lstat"
          /\ Becomes([Top EXCEPT !.todo = @ \ {Entry},
                                 !.before = With(@, Entry, Info(Current))])
          /\ UNCHANGED <<step, file, stored>>
       \/ /\ Here /\ step = "relstat"
          /\ Becomes([Top EXCEPT !.todo = @ \ {Entry},
                                 !.after = With(@, Entry, Info(Current))])
          /\ UNCHANGED <<step, file, stored>>

Listed ==
    /\ step = "lstat" /\ Top.todo = {}
    /\ Becomes([Top EXCEPT !.todo = DOMAIN Top.before])
    /\ step' = "entry"
    /\ UNCHANGED <<file, stored>>

EntriesDone ==
    /\ step = "entry" /\ Top.todo = {}
    /\ Continues("relist")

\* sameDirectoryItems
SameItems == Top.before = Top.after

\* The second listing agrees with the first: the tree is stored, and captureDir
\* returns to the directory above.
Relisted ==
    /\ step = "relstat" /\ Top.todo = {}
    /\ \/ ~SameItems /\ Ends("changed")
       \/ /\ SameItems /\ Len(stack) = 1
          /\ Stores(Tree(Top.kids))
          /\ step' = "reroot" /\ UNCHANGED <<stack, file>>
       \/ /\ SameItems /\ Len(stack) > 1
          /\ Stores(Tree(Top.kids))
          /\ stack' = [SubSeq(stack, 1, Len(stack) - 1) EXCEPT ![Len(stack) - 1].kids =
                         With(@, Min(stack[Len(stack) - 1].todo), DirEntry(Tree(Top.kids)))]
          /\ step' = "redir" /\ UNCHANGED file

\* The directory above looks at the captured one again.
Redir ==
    /\ step = "redir"
    /\ \/ ~Unchanged /\ Ends("changed")
       \/ /\ Unchanged
          /\ Becomes([Top EXCEPT !.todo = @ \ {Entry}])
          /\ step' = "entry" /\ UNCHANGED <<file, stored>>

\* Capture looks at the root again.
Reroot ==
    /\ step = "reroot"
    /\ \/ nodes[Root].stamp = Initial[Root].stamp /\ Continues("done")
       \/ nodes[Root].stamp # Initial[Root].stamp /\ Ends("changed")

---------------------------------------------------------------------------
(* The entries of a directory.                                             *)

Captured(value) ==
    /\ Becomes([Top EXCEPT !.todo = @ \ {Entry}, !.kids = With(@, Entry, value)])
    /\ file' = Closed /\ step' = "entry"

\* The next entry was of this kind when it was listed.
NextIs(kind) ==
    /\ step = "entry" /\ Top.todo # {}
    /\ nodes[Top.before[Entry].inode].kind = kind

Gone == ~Here /\ Ends("changed")

OpenDir ==
    /\ NextIs("dir")
    /\ \/ Gone
       \/ /\ Here
          /\ \E i \in Opened :
               \/ nodes[i].kind # "dir" /\ Ends("failed")
               \/ nodes[i].kind = "dir" /\ ~Same(i) /\ Ends("changed")
               \/ /\ nodes[i].kind = "dir" /\ Same(i)
                  /\ stack' = Append(stack, Frame(i))
                  /\ step' = "list" /\ UNCHANGED <<file, stored>>

OpenFile ==
    /\ NextIs("file")
    /\ \/ Gone
       \/ /\ Here
          /\ \E i \in Opened :
               \/ ~Same(i) /\ Ends("changed")
               \/ /\ Same(i)
                  /\ file' = [inode |-> i, read |-> <<>>]
                  /\ step' = "read" /\ UNCHANGED <<stack, stored>>

\* The reads follow the open inode, wherever its name leads by now.  A chunk of a
\* large file is stored as it comes.
Read ==
    /\ step = "read" /\ Len(file.read) < Blocks
    /\ LET block == nodes[file.inode].data[Len(file.read) + 1] IN
       /\ file' = [file EXCEPT !.read = Append(@, block)]
       /\ IF file.inode \in Large THEN Stores(Blob(<<block>>)) ELSE UNCHANGED stored
    /\ UNCHANGED <<stack, step>>

StoreFile ==
    /\ step = "read" /\ Len(file.read) = Blocks
    /\ Stores(Contents(file.inode, file.read)) /\ step' = "restat"
    /\ UNCHANGED <<stack, file>>

\* The handle, then the name: the file that was read is the file listed.
Restat ==
    /\ step = "restat"
    /\ \/ Same(file.inode) /\ Continues("relook")
       \/ ~Same(file.inode) /\ Ends("changed")

Relook ==
    /\ step = "relook"
    /\ \/ ~Unchanged /\ Ends("changed")
       \/ /\ Unchanged /\ UNCHANGED stored
          /\ Captured(FileEntry(Len(file.read), Contents(file.inode, file.read)))

ReadLink ==
    /\ NextIs("link")
    /\ \/ Gone
       \/ Here /\ nodes[Current].kind # "link" /\ Ends("failed")
       \/ /\ Here /\ nodes[Current].kind = "link"
          /\ file' = [inode |-> Current, read |-> nodes[Current].data]
          /\ step' = "relink" /\ UNCHANGED <<stack, stored>>

Relink ==
    /\ step = "relink"
    /\ \/ ~Unchanged /\ Ends("changed")
       \/ Unchanged /\ Stores(Target(file.read)) /\ Captured(LinkEntry(file.read))

Refuse == NextIs("special") /\ Ends("failed")

\* Any call of the file system or of the content store may fail.
Fails == ~Finished /\ Ends("failed")

Capture ==
    /\ \/ ReadDir \/ Lstat \/ Listed \/ EntriesDone \/ Relisted \/ Redir \/ Reroot
       \/ OpenDir \/ OpenFile \/ Read \/ StoreFile \/ Restat \/ Relook
       \/ ReadLink \/ Relink \/ Refuse \/ Fails
    /\ UNCHANGED workspace

---------------------------------------------------------------------------
(* The other processes.  An inode keeps its kind, and is used again for a  *)
(* new entry once no entry and no handle refers to it.                     *)

Stamp == changes + 1

Change(new) ==
    /\ changes < MaxChanges /\ ~Finished
    /\ changes' = changes + 1
    /\ nodes' = new /\ past' = past \cup {new}
    /\ UNCHANGED <<stack, step, file, stored>>

Dirs == {i \in Inodes : nodes[i].kind = "dir"}
Used == {Root, file.inode} \cup {stack[k].dir : k \in DOMAIN stack}
          \cup UNION {Range(nodes[d].kids) : d \in Dirs}

Fresh(i) ==
    CASE nodes[i].kind = "dir"     -> Dir(Stamp, Empty)
      [] nodes[i].kind = "special" -> Special
      [] OTHER -> [nodes[i] EXCEPT !.stamp = Stamp, !.data = [b \in 1 .. Blocks |-> Stamp]]

WriteBlock(i, b) ==
    /\ nodes[i].kind = "file"
    /\ Change([nodes EXCEPT ![i].stamp = Stamp, ![i].data[b] = Stamp])

Create(d, n, i) ==
    /\ d \in Dirs /\ n \notin DOMAIN nodes[d].kids /\ i \notin Used
    /\ Change([nodes EXCEPT ![d] = Dir(Stamp, With(@.kids, n, i)), ![i] = Fresh(i)])

\* The parents of a removed or moved entry change, and no other directory.
Unlink(d, n) ==
    /\ d \in Dirs /\ n \in DOMAIN nodes[d].kids
    /\ LET i == nodes[d].kids[n] IN nodes[i].kind = "dir" => nodes[i].kids = Empty
    /\ Change([nodes EXCEPT ![d] = Dir(Stamp, Without(@.kids, n))])

\* A file replaces what had the name; a directory keeps its parent (a bound on the
\* moves) and takes a free name.
Rename(d, n, e, m) ==
    /\ d \in Dirs /\ e \in Dirs /\ n \in DOMAIN nodes[d].kids
    /\ LET i == nodes[d].kids[n]
           taken == m \in DOMAIN nodes[e].kids
           cut == [nodes EXCEPT ![d] = Dir(Stamp, Without(@.kids, n))] IN
       /\ nodes[i].kind = "dir" => d = e /\ ~taken
       /\ taken => nodes[e].kids[m] # i /\ nodes[nodes[e].kids[m]].kind # "dir"
       /\ Change([cut EXCEPT ![e] = Dir(Stamp, With(@.kids, m, i))])

Others ==
    \/ \E i \in Inodes, b \in 1 .. Blocks : WriteBlock(i, b)
    \/ \E d, i \in Inodes, n \in Names : Create(d, n, i)
    \/ \E d \in Inodes, n \in Names : Unlink(d, n)
    \/ \E d, e \in Inodes, n, m \in Names : Rename(d, n, e, m)

---------------------------------------------------------------------------

Init ==
    /\ nodes = Initial /\ changes = 0 /\ past = {Initial}
    /\ stack = <<Frame(Root)>> /\ step = "list" /\ file = Closed
    /\ stored = {}

Next == Capture \/ Others \/ (Finished /\ UNCHANGED vars)

Spec == Init /\ [][Next]_vars

---------------------------------------------------------------------------
(* Properties.                                                             *)

\* The entry of inode i in workspace w; of a directory, that it is one.
EntryOf(w, i) ==
    CASE w[i].kind = "file" -> FileEntry(Len(w[i].data), Contents(i, w[i].data))
      [] w[i].kind = "link" -> LinkEntry(w[i].data)
      [] OTHER              -> [kind |-> w[i].kind]

\* The same with all that is below it.
EntryAt(w) ==
    LET At[i \in Inodes] ==
          IF w[i].kind = "dir"
          THEN DirEntry(Tree([n \in DOMAIN w[i].kids |-> At[w[i].kids[n]]]))
          ELSE EntryOf(w, i)
    IN At

RootAt(w) == EntryAt(w)[Root].object

Snap == Tree(Top.kids)

Steps == {"list", "lstat", "entry", "relist", "relstat", "redir", "reroot", "read",
          "restat", "relook", "relink", "done", "changed", "failed"}

\* Every variable has its type: the frames are nested directories with listings of
\* their names, and only directories are captured as directories.
TypeOK ==
    /\ nodes \in [Inodes -> Nodes] /\ \A i \in Inodes : nodes[i].stamp <= changes
    /\ changes \in 0 .. MaxChanges
    /\ stack # <<>> /\ stack[1].dir = Root
    /\ \A k \in DOMAIN stack :
         /\ nodes[stack[k].dir].kind = "dir"
         /\ stack[k].todo \subseteq Names
         /\ DOMAIN stack[k].kids \subseteq DOMAIN stack[k].before
    /\ step \in Steps
    /\ file.inode \in Inodes /\ Len(file.read) <= Blocks

\* What is directly in a directory: in workspace w, and as a tree tells it.
ListingAt(w, d) == [n \in DOMAIN w[d].kids |-> EntryOf(w, w[d].kids[n])]

Listing(tree) ==
    [n \in DOMAIN tree.entries |->
        IF tree.entries[n].kind = "dir" THEN [kind |-> "dir"] ELSE tree.entries[n]]

\* Every directory of a published snapshot (here the root and those in it) was, at one
\* instant of the capture and at its path, what the snapshot tells of it: the same
\* names, and under them the same files and links.  No file is a mixture of two of
\* its versions or has the contents of another that had the name before or after.
DirectoriesAreInstants ==
    step = "done" =>
        /\ \E w \in past : ListingAt(w, Root) = Listing(Snap)
        /\ \A n \in DOMAIN Snap.entries : Snap.entries[n].kind = "dir" =>
             \E w \in past :
                 /\ n \in DOMAIN w[Root].kids /\ w[w[Root].kids[n]].kind = "dir"
                 /\ ListingAt(w, w[Root].kids[n]) = Listing(Snap.entries[n].object)

\* A workspace that nobody changes is never reported as changing: a caller that
\* retries on ErrWorkspaceChanged gets its snapshot once the workspace is quiet.
NoFalseAlarm == step = "changed" => nodes # Initial

\* The published snapshot is the workspace as it was at one instant: a state whose
\* consistency was not established is not published (ADR-014).
SnapshotIsAnInstant == step = "done" => \E w \in past : RootAt(w) = Snap
============================================================================
