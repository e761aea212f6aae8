-------------------------- MODULE SnapshotProofs --------------------------
(***************************************************************************)
(* Proofs about Snapshot: the entries of every directory of a published    *)
(* snapshot are what they were at one instant, a workspace that nobody     *)
(* changes is never reported as changing, and nothing that is stored       *)
(* refers to what is not.                                                  *)
(***************************************************************************)
EXTENDS Snapshot, TLAPS, WellFoundedInduction, SequenceTheorems

---------------------------------------------------------------------------
(* The inductive invariant.  P is the set of the workspaces so far, w the  *)
(* present one.                                                            *)

\* A change of an inode gives it a stamp that it never had.
Worlds(P, w, c) ==
    /\ c \in Nat /\ w \in P /\ P \subseteq [Inodes -> Nodes]
    /\ c = 0 => w = Initial
    /\ c > 0 => \E i \in Inodes : w[i].stamp = c
    /\ \A i \in Inodes : w[i].stamp <= c
    /\ \A v \in P : \A i \in Inodes :
         v[i].kind = Initial[i].kind /\ v[i].stamp <= w[i].stamp
    /\ \A u, v \in P : \A i \in Inodes : u[i].stamp = v[i].stamp => u[i] = v[i]

\* The value v that was captured for an entry is what the inode of the entry was, at an
\* instant when it had the stamp of the listing, b.
Told(P, b, v) ==
    \E w \in P :
        /\ w[b.inode].stamp = b.stamp
        /\ IF w[b.inode].kind = "dir"
           THEN v.kind = "dir" /\ ListingAt(w, b.inode) = Listing(v.object)
           ELSE v = EntryOf(w, b.inode)

Infos == [inode : Inodes, stamp : Nat]
IsListing(b) == DOMAIN b \subseteq Names /\ b \in [DOMAIN b -> Infos]

IsFrame(f) ==
    /\ f = [dir |-> f.dir, todo |-> f.todo, before |-> f.before, after |-> f.after,
            kids |-> f.kids]
    /\ f.dir \in Inodes /\ Initial[f.dir].kind = "dir"
    /\ f.todo \subseteq Names
    /\ IsListing(f.before) /\ IsListing(f.after)
    /\ f.kids = [n \in DOMAIN f.kids |-> f.kids[n]] /\ DOMAIN f.kids \subseteq DOMAIN f.before

\* What the entries of directory d now are.
KidsOf(w, d) == w[d].kids

\* A listing agrees with the entries of a directory, as far as it goes.
Agrees(kids, b) == \A n \in DOMAIN b : n \in DOMAIN kids /\ b[n].inode = kids[n]

\* The directory of frame f is as it was when it had stamp s.
Still(w, f, s) == w[f.dir].stamp = s

\* What holds at each step for the frame of a directory that had stamp s when the
\* directory above was listed.
Proper(w, f, s) ==
    /\ IsFrame(f)
    /\ s \in Nat /\ s <= w[f.dir].stamp
    /\ \A n \in DOMAIN f.before : f.before[n].stamp <= w[f.before[n].inode].stamp
    /\ \A n \in DOMAIN f.after : f.after[n].stamp <= w[f.after[n].inode].stamp
    /\ Still(w, f, s) => Agrees(KidsOf(w, f.dir), f.before)

\* While the first listing is made.
FirstListing(w, f, s) ==
    /\ f.kids = Empty /\ f.after = Empty
    /\ Still(w, f, s) => /\ f.todo \subseteq DOMAIN KidsOf(w, f.dir)
                         /\ DOMAIN KidsOf(w, f.dir) \subseteq f.todo \cup DOMAIN f.before

\* While the entries are captured.
Entering(P, w, f, s) ==
    /\ f.after = Empty /\ f.todo \subseteq DOMAIN f.before
    /\ DOMAIN f.before \subseteq f.todo \cup DOMAIN f.kids
    /\ Still(w, f, s) =>
         /\ DOMAIN KidsOf(w, f.dir) \subseteq DOMAIN f.before
         /\ \A n \in DOMAIN f.kids \ f.todo : Told(P, f.before[n], f.kids[n])

\* After all of them are.
Complete(P, w, f, s) ==
    /\ DOMAIN f.before \subseteq DOMAIN f.kids
    /\ Still(w, f, s) =>
         /\ DOMAIN KidsOf(w, f.dir) \subseteq DOMAIN f.before
         /\ \A n \in DOMAIN f.kids : Told(P, f.before[n], f.kids[n])

\* There was an instant between the two listings.
Between(P, f, s) ==
    \E v \in P :
        /\ s <= v[f.dir].stamp
        /\ \A n \in DOMAIN f.before : f.before[n].stamp <= v[f.before[n].inode].stamp
        /\ \A n \in DOMAIN f.after : v[f.after[n].inode].stamp <= f.after[n].stamp

\* While the second listing is made.
SecondListing(w, f, s) ==
    Still(w, f, s) =>
        /\ f.todo \subseteq DOMAIN KidsOf(w, f.dir)
        /\ DOMAIN KidsOf(w, f.dir) \subseteq f.todo \cup DOMAIN f.after
        /\ Agrees(KidsOf(w, f.dir), f.after)

\* What was stored for the directory is what it was at an instant when it had stamp s.
Kept(P, d, s, tree) ==
    \E v \in P : v[d].stamp = s /\ ListingAt(v, d) = Listing(tree)

\* The file that is open is the next entry, and as much as was read of it is so.
Reading(w, f, h) ==
    LET b == f.before[Min(f.todo)] IN
    /\ f.todo # {} /\ h.inode = b.inode /\ Initial[b.inode].kind = "file"
    /\ w[b.inode].stamp = b.stamp =>
         \A k \in 1 .. Len(h.read) : h.read[k] = w[b.inode].data[k]

\* The link that was read is the next entry, if the directory is as it was.
Linking(w, f, s, h) ==
    LET b == f.before[Min(f.todo)] IN
    /\ f.todo # {} /\ Initial[b.inode].kind = "link"
    /\ Still(w, f, s) => /\ h.inode = b.inode
                         /\ w[b.inode].stamp = b.stamp => h.read = w[b.inode].data

\* The next entry was captured, and is told if it is not changed when looked at again.
Returned(P, w, f, s) ==
    LET n == Min(f.todo) IN
    /\ f.todo # {} /\ n \in DOMAIN f.kids
    /\ w[f.before[n].inode].stamp = f.before[n].stamp => Told(P, f.before[n], f.kids[n])

AtStep(P, w, f, s, at, h) ==
    /\ at = "list" => f = Frame(f.dir)
    /\ at = "lstat" => FirstListing(w, f, s)
    /\ at \in {"entry", "redir", "read", "restat", "relook", "relink"} => Entering(P, w, f, s)
    /\ at = "redir" => Returned(P, w, f, s)
    /\ at \in {"read", "restat", "relook"} => Reading(w, f, h)
    /\ at \in {"restat", "relook"} => Len(h.read) = Blocks
    /\ at = "relook" => LET b == f.before[Min(f.todo)] IN
         Told(P, b, FileEntry(Len(h.read), Contents(h.inode, h.read)))
    /\ at = "relink" => Linking(w, f, s, h)
    /\ at \in {"relist", "relstat", "reroot", "done"} => Complete(P, w, f, s)
    /\ at = "relist" => f.after = Empty
    /\ at = "relstat" => Between(P, f, s) /\ SecondListing(w, f, s)
    /\ at \in {"reroot", "done"} =>
         f.dir = Root /\ (Still(w, f, s) => Kept(P, Root, s, Tree(f.kids)))
    /\ at = "done" => Still(w, f, s)

\* The stamp of the directory of frame k when the directory above it was listed.
StampOf(stk, k) ==
    IF k = 1 THEN 0 ELSE stk[k - 1].before[Min(stk[k - 1].todo)].stamp

\* Each directory but the innermost waits for the next of its entries.
Waits(P, w, f, s, d) ==
    /\ Proper(w, f, s) /\ Entering(P, w, f, s)
    /\ f.todo # {} /\ d = f.before[Min(f.todo)].inode

Nested(P, w, stk) ==
    /\ stk \in Seq(Range(stk)) /\ stk # <<>> /\ stk[1].dir = Root
    /\ \A k \in 1 .. Len(stk) - 1 : Waits(P, w, stk[k], StampOf(stk, k), stk[k + 1].dir)

TopStamp == StampOf(stack, Len(stack))

FileOK(h) ==
    /\ h = [inode |-> h.inode, read |-> h.read]
    /\ h.inode \in Inodes /\ h.read \in Seq(Nat) /\ Len(h.read) <= Blocks

Inv ==
    /\ Worlds(past, nodes, changes) /\ changes <= MaxChanges
    /\ step \in Steps
    /\ FileOK(file)
    /\ Nested(past, nodes, stack)
    /\ Proper(nodes, Top, TopStamp)
    /\ AtStep(past, nodes, Top, TopStamp, step, file)
    /\ step = "changed" => changes > 0
    /\ step \in {"reroot", "done"} => Len(stack) = 1

---------------------------------------------------------------------------
(* Workspaces.                                                             *)

\* The first of a set of names is one of them.
LEMMA FirstIsIn ==
  ASSUME NEW S, S \subseteq Nat, S # {}
  PROVE  Min(S) \in S
  <1>1. PICK n \in S : \A m \in S : <<m, n>> \notin OpToRel(<, Nat)
    BY NatLessThanWellFounded, WFMin
  <1>2. ASSUME NEW m \in S PROVE n <= m
    <2>1. m < n => <<m, n>> \in OpToRel(<, Nat)
      BY SMT DEF OpToRel
    <2>2. ~(m < n)
      BY <1>1, <2>1, Zenon
    <2> QED  BY <2>2
  <1> QED  BY <1>2 DEF Min

\* What a node is, by its kind.
LEMMA NodeHas ==
  ASSUME NEW w \in [Inodes -> Nodes], NEW i \in Inodes
  PROVE  /\ w[i].stamp \in Nat
         /\ w[i].kind \in {"dir", "file", "link", "special"}
         /\ w[i].kind = "dir" => /\ DOMAIN w[i].kids \subseteq Names
                                 /\ w[i].kids \in [DOMAIN w[i].kids -> Inodes]
         /\ w[i].kind \in {"file", "link"} => w[i].data \in [1 .. Blocks -> Nat]
  BY DEF Nodes, DirNodes, FileNodes, LinkNodes, SpecialNodes

\* One workspace comes after another: stamps grow, and with the same stamp an inode
\* is as it was.
After(w, v) ==
    /\ w \in [Inodes -> Nodes] /\ v \in [Inodes -> Nodes]
    /\ \A i \in Inodes :
         /\ w[i].kind = v[i].kind
         /\ w[i].stamp <= v[i].stamp
         /\ v[i].stamp = w[i].stamp => v[i] = w[i]

\* The workspaces of the past come before the present one.
LEMMA PastIsBefore ==
  ASSUME NEW P, NEW w, NEW c, Worlds(P, w, c), NEW v \in P
  PROVE  After(v, w)
  BY DEF Worlds, After

\* A change of some inodes, which get a new stamp and keep their kind, keeps the
\* history as it should be.
LEMMA ChangesGrow ==
  ASSUME NEW P, NEW w, NEW c, Worlds(P, w, c),
         NEW v \in [Inodes -> Nodes],
         \A i \in Inodes : v[i] = w[i] \/ (v[i].stamp = c + 1 /\ v[i].kind = w[i].kind),
         \E i \in Inodes : v[i].stamp = c + 1
  PROVE  /\ Worlds(P \cup {v}, v, c + 1)
         /\ After(w, v)
  <1>1. c \in Nat /\ w \in [Inodes -> Nodes]
    BY DEF Worlds
  <1>2. \A i \in Inodes : w[i].stamp \in Nat /\ v[i].stamp \in Nat
    BY <1>1, NodeHas
  <1>3. \A i \in Inodes : /\ w[i].stamp <= c /\ v[i].stamp <= c + 1
                          /\ w[i].stamp <= v[i].stamp /\ w[i].kind = v[i].kind
    BY <1>1, <1>2 DEF Worlds
  <1>4. After(w, v)
    BY <1>1, <1>2, <1>3 DEF After
  <1>5. \A u \in P : \A i \in Inodes :
          /\ u[i].stamp \in Nat /\ u[i].stamp <= w[i].stamp
          /\ u[i].kind = Initial[i].kind
    BY NodeHas DEF Worlds
  <1>6. \A u \in P \cup {v} : \A i \in Inodes :
          u[i].kind = Initial[i].kind /\ u[i].stamp <= v[i].stamp
    BY <1>1, <1>2, <1>3, <1>5 DEF Worlds
  <1>7. \A u \in P : \A i \in Inodes : u[i].stamp = v[i].stamp => u[i] = v[i]
    BY <1>1, <1>2, <1>3, <1>5 DEF Worlds
  <1>8. \A u, x \in P \cup {v} : \A i \in Inodes : u[i].stamp = x[i].stamp => u[i] = x[i]
    BY <1>7 DEF Worlds
  <1> QED  BY <1>1, <1>3, <1>4, <1>6, <1>8 DEF Worlds

\* What the other processes do to the workspace.
LEMMA OthersChange ==
  ASSUME nodes \in [Inodes -> Nodes], changes \in Nat, Others
  PROVE  /\ nodes' \in [Inodes -> Nodes] /\ changes < MaxChanges
         /\ \A i \in Inodes : \/ nodes'[i] = nodes[i]
                              \/ nodes'[i].stamp = changes + 1 /\ nodes'[i].kind = nodes[i].kind
         /\ \E i \in Inodes : nodes'[i].stamp = changes + 1
         /\ changes' = changes + 1 /\ past' = past \cup {nodes'}
         /\ ~Finished /\ UNCHANGED <<stack, step, file, stored>>
  <1> USE BoundsAreNaturals
  <1>d. ASSUME NEW k, DOMAIN k \subseteq Names, k \in [DOMAIN k -> Inodes]
        PROVE  /\ Dir(Stamp, k) \in Nodes
               /\ Dir(Stamp, k).stamp = changes + 1 /\ Dir(Stamp, k).kind = "dir"
    BY <1>d DEF Dir, Stamp, Nodes, DirNodes
  <1>w. ASSUME NEW d \in Inodes, NEW n \in Names, NEW i \in Inodes, nodes[d].kind = "dir"
        PROVE  /\ DOMAIN With(nodes[d].kids, n, i) \subseteq Names
               /\ With(nodes[d].kids, n, i) \in [DOMAIN With(nodes[d].kids, n, i) -> Inodes]
    BY <1>w, NodeHas DEF With
  <1>o. ASSUME NEW d \in Inodes, NEW n, nodes[d].kind = "dir"
        PROVE  /\ DOMAIN Without(nodes[d].kids, n) \subseteq Names
               /\ Without(nodes[d].kids, n) \in [DOMAIN Without(nodes[d].kids, n) -> Inodes]
    BY <1>o, NodeHas DEF Without
  <1>1. ASSUME NEW i \in Inodes, NEW b \in 1 .. Blocks, WriteBlock(i, b)
        PROVE  /\ nodes' \in [Inodes -> Nodes]
               /\ \A j \in Inodes : j # i => nodes'[j] = nodes[j]
               /\ nodes'[i].stamp = changes + 1 /\ nodes'[i].kind = "file"
    <2>1. nodes[i] \in FileNodes
      BY <1>1, NodeHas DEF WriteBlock, Nodes, DirNodes, FileNodes, LinkNodes, SpecialNodes
    <2>2. nodes' = [nodes EXCEPT ![i].stamp = Stamp, ![i].data[b] = Stamp]
      BY <1>1 DEF WriteBlock, Change
    <2>3. nodes' = [nodes EXCEPT ![i] = [[nodes[i] EXCEPT !.stamp = Stamp] EXCEPT
                                           !.data = [nodes[i].data EXCEPT ![b] = Stamp]]]
      BY <2>1, <2>2 DEF FileNodes
    <2>4. Stamp \in Nat /\ Stamp = changes + 1
      BY DEF Stamp
    <2> DEFINE data == [nodes[i].data EXCEPT ![b] = Stamp]
               y == nodes'[i]
    <2>6. data \in [1 .. Blocks -> Nat]
      BY <2>1, <2>4 DEF FileNodes
    <2>7. y = [[nodes[i] EXCEPT !.stamp = Stamp] EXCEPT !.data = data]
      BY <2>3
    <2> HIDE DEF data, y
    <2>8. y \in FileNodes /\ y.stamp = Stamp /\ y.kind = "file"
      BY <2>1, <2>4, <2>6, <2>7 DEF FileNodes
    <2> USE DEF y
    <2>9. nodes'[i] \in Nodes
      BY <2>8 DEF Nodes
    <2> QED  BY <2>3, <2>4, <2>8, <2>9
  <1>2. ASSUME NEW i \in Inodes
        PROVE  /\ Fresh(i) \in Nodes
               /\ \/ Fresh(i) = nodes[i]
                  \/ Fresh(i).stamp = changes + 1 /\ Fresh(i).kind = nodes[i].kind
    <2>1. CASE nodes[i].kind = "dir"
      <3>1. Fresh(i) = Dir(Stamp, Empty)
        BY <2>1 DEF Fresh
      <3>2. Dir(Stamp, Empty) \in Nodes /\ Dir(Stamp, Empty).stamp = changes + 1
            /\ Dir(Stamp, Empty).kind = "dir"
        BY <1>d DEF Empty
      <3> QED  BY <2>1, <3>1, <3>2
    <2>2. CASE nodes[i].kind = "special"
      BY <2>2 DEF Fresh, Special, Nodes, DirNodes, FileNodes, LinkNodes, SpecialNodes
    <2>3. CASE nodes[i].kind = "file"
      <3>1. nodes[i] \in FileNodes
        BY <2>3 DEF Nodes, DirNodes, FileNodes, LinkNodes, SpecialNodes
      <3>2. Fresh(i) = [nodes[i] EXCEPT !.stamp = Stamp, !.data = [b \in 1 .. Blocks |-> Stamp]]
        BY <2>3 DEF Fresh
      <3>3. Fresh(i) = [kind |-> "file", stamp |-> changes + 1,
                        data |-> [b \in 1 .. Blocks |-> changes + 1]]
        BY <3>1, <3>2 DEF Stamp, FileNodes
      <3> QED  BY <2>3, <3>3 DEF Nodes, FileNodes
    <2>4. CASE nodes[i].kind = "link"
      <3>1. nodes[i] \in LinkNodes
        BY <2>4 DEF Nodes, DirNodes, FileNodes, LinkNodes, SpecialNodes
      <3>2. Fresh(i) = [nodes[i] EXCEPT !.stamp = Stamp, !.data = [b \in 1 .. Blocks |-> Stamp]]
        BY <2>4 DEF Fresh
      <3>3. Fresh(i) = [kind |-> "link", stamp |-> changes + 1,
                        data |-> [b \in 1 .. Blocks |-> changes + 1]]
        BY <3>1, <3>2 DEF Stamp, LinkNodes
      <3> QED  BY <2>4, <3>3 DEF Nodes, LinkNodes
    <2> QED  BY <2>1, <2>2, <2>3, <2>4, NodeHas
  <1>3. ASSUME NEW new, Change(new), new \in [Inodes -> Nodes],
               \A i \in Inodes : \/ new[i] = nodes[i]
                                 \/ new[i].stamp = changes + 1 /\ new[i].kind = nodes[i].kind,
               \E i \in Inodes : new[i].stamp = changes + 1
        PROVE  /\ nodes' \in [Inodes -> Nodes] /\ changes < MaxChanges
               /\ \A i \in Inodes : \/ nodes'[i] = nodes[i]
                                    \/ nodes'[i].stamp = changes + 1 /\ nodes'[i].kind = nodes[i].kind
               /\ \E i \in Inodes : nodes'[i].stamp = changes + 1
               /\ changes' = changes + 1 /\ past' = past \cup {nodes'}
               /\ ~Finished /\ UNCHANGED <<stack, step, file, stored>>
    BY <1>3 DEF Change
  <1>4. CASE \E i \in Inodes, b \in 1 .. Blocks : WriteBlock(i, b)
    <2>1. PICK i \in Inodes, b \in 1 .. Blocks : WriteBlock(i, b)
      BY <1>4
    <2>2. Change(nodes') /\ nodes[i].kind = "file"
      BY <2>1 DEF WriteBlock, Change
    <2>3. /\ \A j \in Inodes : j # i => nodes'[j] = nodes[j]
          /\ nodes'[i].stamp = changes + 1 /\ nodes'[i].kind = "file"
          /\ nodes' \in [Inodes -> Nodes]
      BY <1>1, <2>1
    <2>4. \A j \in Inodes : \/ nodes'[j] = nodes[j]
                            \/ nodes'[j].stamp = changes + 1 /\ nodes'[j].kind = nodes[j].kind
      BY <2>2, <2>3
    <2> QED  BY <2>2, <2>3, <2>4, <1>3
  <1>5. CASE \E d, i \in Inodes, n \in Names : Create(d, n, i)
    <2>1. PICK d \in Inodes, i \in Inodes, n \in Names : Create(d, n, i)
      BY <1>5
    <2> DEFINE new == [nodes EXCEPT ![d] = Dir(Stamp, With(nodes[d].kids, n, i)), ![i] = Fresh(i)]
    <2>2. Change(new) /\ nodes[d].kind = "dir"
      BY <2>1 DEF Create, Dirs
    <2>3. Dir(Stamp, With(nodes[d].kids, n, i)) \in Nodes
      BY <1>d, <1>w, <2>2
    <2>4. Dir(Stamp, With(nodes[d].kids, n, i)).stamp = changes + 1
          /\ Dir(Stamp, With(nodes[d].kids, n, i)).kind = "dir"
      BY DEF Dir, Stamp
    <2>5. Fresh(d).stamp = changes + 1 /\ Fresh(d).kind = "dir"
      BY <2>2 DEF Fresh, Dir, Stamp
    <2> QED  BY <2>2, <2>3, <2>4, <2>5, <1>2, <1>3
  <1>6. CASE \E d \in Inodes, n \in Names : Unlink(d, n)
    <2>1. PICK d \in Inodes, n \in Names : Unlink(d, n)
      BY <1>6
    <2> DEFINE new == [nodes EXCEPT ![d] = Dir(Stamp, Without(nodes[d].kids, n))]
    <2>2. Change(new) /\ nodes[d].kind = "dir"
      BY <2>1 DEF Unlink, Dirs
    <2> QED  BY <2>2, <1>d, <1>o, <1>3
  <1>7. CASE \E d, e \in Inodes, n, m \in Names : Rename(d, n, e, m)
    <2>1. PICK d \in Inodes, e \in Inodes, n \in Names, m \in Names : Rename(d, n, e, m)
      BY <1>7
    <2> DEFINE i == nodes[d].kids[n]
               cut == [nodes EXCEPT ![d] = Dir(Stamp, Without(nodes[d].kids, n))]
               new == [cut EXCEPT ![e] = Dir(Stamp, With(cut[e].kids, m, i))]
    <2>2. Change(new) /\ nodes[d].kind = "dir" /\ nodes[e].kind = "dir" /\ i \in Inodes
      BY <2>1, NodeHas DEF Rename, Dirs
    <2>3. /\ cut \in [Inodes -> Nodes] /\ cut[d].stamp = changes + 1 /\ cut[d].kind = "dir"
          /\ \A j \in Inodes : j # d => cut[j] = nodes[j]
      BY <2>2, <1>d, <1>o
    <2>4. cut[e].kind = "dir"
      BY <2>2, <2>3
    <2>5. /\ DOMAIN With(cut[e].kids, m, i) \subseteq Names
          /\ With(cut[e].kids, m, i) \in [DOMAIN With(cut[e].kids, m, i) -> Inodes]
      <3>1. /\ DOMAIN cut[e].kids \subseteq Names
            /\ cut[e].kids \in [DOMAIN cut[e].kids -> Inodes]
        BY <2>3, <2>4, NodeHas
      <3> HIDE DEF cut, i
      <3> QED  BY <2>2, <3>1 DEF With
    <2> HIDE DEF cut
    <2>6. Dir(Stamp, With(cut[e].kids, m, i)) \in Nodes
          /\ Dir(Stamp, With(cut[e].kids, m, i)).stamp = changes + 1
          /\ Dir(Stamp, With(cut[e].kids, m, i)).kind = "dir"
      BY <2>5, <1>d
    <2> QED  BY <2>2, <2>3, <2>4, <2>6, <1>3
  <1> QED  BY <1>4, <1>5, <1>6, <1>7 DEF Others

---------------------------------------------------------------------------
(* What a change of the workspace leaves as it is.                         *)

\* The next entry of a frame was listed.
LEMMA FirstEntry ==
  ASSUME NEW f, IsFrame(f), f.todo \subseteq DOMAIN f.before, f.todo # {}
  PROVE  /\ Min(f.todo) \in f.todo /\ Min(f.todo) \in DOMAIN f.before
         /\ f.before[Min(f.todo)].inode \in Inodes /\ f.before[Min(f.todo)].stamp \in Nat
         /\ f.before[Min(f.todo)]
              = [inode |-> f.before[Min(f.todo)].inode, stamp |-> f.before[Min(f.todo)].stamp]
  <1>1. Min(f.todo) \in f.todo
    BY FirstIsIn, NamesAreOrdered DEF IsFrame
  <1>2. f.before[Min(f.todo)] \in Infos
    BY <1>1 DEF IsFrame, IsListing
  <1> QED  BY <1>1, <1>2 DEF Infos

\* What a listing tells of an entry.
LEMMA ListingHas ==
  ASSUME NEW b, IsListing(b), NEW n \in DOMAIN b
  PROVE  /\ b[n].inode \in Inodes /\ b[n].stamp \in Nat
         /\ b[n] = [inode |-> b[n].inode, stamp |-> b[n].stamp]
  BY DEF IsListing, Infos

\* A directory that is still as it was, was so before.
LEMMA StillBefore ==
  ASSUME NEW w, NEW v, After(w, v), NEW f, NEW s, Proper(w, f, s), Still(v, f, s)
  PROVE  Still(w, f, s) /\ KidsOf(v, f.dir) = KidsOf(w, f.dir)
  <1>1. /\ f.dir \in Inodes /\ s <= w[f.dir].stamp /\ w[f.dir].stamp <= v[f.dir].stamp
        /\ w[f.dir].stamp \in Nat /\ s \in Nat /\ v[f.dir].stamp = s
    BY NodeHas DEF After, Proper, IsFrame, Still
  <1> QED  BY <1>1 DEF After, Still, KidsOf

\* An entry that is still as it was listed, was so before.
LEMMA EntryBefore ==
  ASSUME NEW w, NEW v, After(w, v), NEW i \in Inodes, NEW s \in Nat,
         s <= w[i].stamp, v[i].stamp = s
  PROVE  w[i].stamp = s /\ v[i] = w[i]
  <1>1. w[i].stamp \in Nat /\ w[i].stamp <= v[i].stamp
    BY NodeHas DEF After
  <1> QED  BY <1>1 DEF After

\* A frame stays proper.
LEMMA ProperStays ==
  ASSUME NEW w, NEW v, After(w, v), NEW f, NEW s, Proper(w, f, s)
  PROVE  Proper(v, f, s)
  <1>1. /\ IsFrame(f) /\ s \in Nat
        /\ f.dir \in Inodes /\ IsListing(f.before) /\ IsListing(f.after)
    BY DEF Proper, IsFrame
  <1>2. \A i \in Inodes : w[i].stamp \in Nat /\ v[i].stamp \in Nat /\ w[i].stamp <= v[i].stamp
    BY NodeHas DEF After
  <1>3. s <= v[f.dir].stamp
    BY <1>1, <1>2 DEF Proper
  <1>4. \A n \in DOMAIN f.before : f.before[n].stamp <= v[f.before[n].inode].stamp
    BY <1>1, <1>2, ListingHas DEF Proper
  <1>5. \A n \in DOMAIN f.after : f.after[n].stamp <= v[f.after[n].inode].stamp
    BY <1>1, <1>2, ListingHas DEF Proper
  <1>6. Still(v, f, s) => Agrees(KidsOf(v, f.dir), f.before)
    BY StillBefore DEF Proper
  <1> QED  BY <1>1, <1>3, <1>4, <1>5, <1>6 DEF Proper

\* What is told of an entry stays told.
LEMMA ToldStays ==
  ASSUME NEW P, NEW Q, P \subseteq Q, NEW b, NEW v, Told(P, b, v)
  PROVE  Told(Q, b, v)
  BY DEF Told

\* What was captured of a directory stays told, if the directory stays as it was.
LEMMA EnteringStays ==
  ASSUME NEW P, NEW Q, P \subseteq Q, NEW w, NEW v, After(w, v), NEW f, NEW s,
         Proper(w, f, s), Entering(P, w, f, s)
  PROVE  Entering(Q, v, f, s)
  BY StillBefore, ToldStays DEF Entering

\* The same when all of its entries were captured.
LEMMA CompleteStays ==
  ASSUME NEW P, NEW Q, P \subseteq Q, NEW w, NEW v, After(w, v), NEW f, NEW s,
         Proper(w, f, s), Complete(P, w, f, s)
  PROVE  Complete(Q, v, f, s)
  BY StillBefore, ToldStays DEF Complete

\* What holds at a step of the capture holds after a change of the workspace, too.
LEMMA AtStepStays ==
  ASSUME NEW P, NEW Q, P \subseteq Q, NEW w, NEW v, After(w, v), NEW f, NEW s, NEW at, NEW h,
         Proper(w, f, s), AtStep(P, w, f, s, at, h), at # "done"
  PROVE  AtStep(Q, v, f, s, at, h)
  <1>i. IsFrame(f)
    BY DEF Proper
  <1>f. ASSUME f.todo # {}, Entering(P, w, f, s)
        PROVE  LET b == f.before[Min(f.todo)] IN
               /\ b.inode \in Inodes
               /\ v[b.inode].stamp = b.stamp => w[b.inode].stamp = b.stamp /\ v[b.inode] = w[b.inode]
    <2>1. /\ Min(f.todo) \in DOMAIN f.before
          /\ f.before[Min(f.todo)].inode \in Inodes /\ f.before[Min(f.todo)].stamp \in Nat
      BY <1>i, <1>f, FirstEntry DEF Entering
    <2> QED  BY <2>1, EntryBefore DEF Proper
  <1>1. at = "list" => f = Frame(f.dir)
    BY DEF AtStep
  <1>2. at = "lstat" => FirstListing(v, f, s)
    BY StillBefore DEF AtStep, FirstListing
  <1>3. at \in {"entry", "redir", "read", "restat", "relook", "relink"} =>
          Entering(P, w, f, s) /\ Entering(Q, v, f, s)
    BY EnteringStays DEF AtStep
  <1>4. at = "redir" => Returned(Q, v, f, s)
    BY <1>3, <1>f, ToldStays DEF AtStep, Returned
  <1>5. at \in {"read", "restat", "relook"} => Reading(v, f, h)
    BY <1>3, <1>f DEF AtStep, Reading
  <1>6. at \in {"restat", "relook"} => Len(h.read) = Blocks
    BY DEF AtStep
  <1>7. at = "relook" => Told(Q, f.before[Min(f.todo)],
                              FileEntry(Len(h.read), Contents(h.inode, h.read)))
    BY ToldStays DEF AtStep
  <1>8. at = "relink" => Linking(v, f, s, h)
    BY <1>3, <1>f, StillBefore DEF AtStep, Linking
  <1>9. at \in {"relist", "relstat", "reroot", "done"} => Complete(Q, v, f, s)
    BY CompleteStays DEF AtStep
  <1>10. at = "relist" => f.after = Empty
    BY DEF AtStep
  <1>11. at = "relstat" => Between(Q, f, s)
    BY DEF AtStep, Between
  <1>12. at = "relstat" => SecondListing(v, f, s)
    BY StillBefore DEF AtStep, SecondListing
  <1>13. at = "reroot" => f.dir = Root /\ (Still(v, f, s) => Kept(Q, Root, s, Tree(f.kids)))
    BY StillBefore DEF AtStep, Kept
  <1> QED  BY <1>1, <1>2, <1>3, <1>4, <1>5, <1>6, <1>7, <1>8, <1>9, <1>10, <1>11, <1>12,
              <1>13 DEF AtStep

\* The directories above the innermost one still wait for their entries.
LEMMA NestedStays ==
  ASSUME NEW P, NEW Q, P \subseteq Q, NEW w, NEW v, After(w, v), NEW stk, Nested(P, w, stk)
  PROVE  Nested(Q, v, stk)
  <1>1. ASSUME NEW f, NEW s, NEW d, Waits(P, w, f, s, d)
        PROVE  Waits(Q, v, f, s, d)
    BY <1>1, ProperStays, EnteringStays DEF Waits
  <1> QED  BY <1>1 DEF Nested

---------------------------------------------------------------------------
(* What two equal listings of a directory show.                            *)

\* An inode is the same in two workspaces where it has the same stamp, and so is its
\* entry.
LEMMA SameEntry ==
  ASSUME NEW P, NEW w, NEW c, Worlds(P, w, c), NEW u \in P, NEW v \in P, NEW i \in Inodes,
         u[i].stamp = v[i].stamp
  PROVE  u[i] = v[i] /\ EntryOf(u, i) = EntryOf(v, i)
  BY DEF Worlds, EntryOf

\* What is told of an entry is what a listing of its directory has, at any instant
\* when the inode had the stamp of the listing.
LEMMA ToldEntry ==
  ASSUME NEW P, NEW w, NEW c, Worlds(P, w, c), NEW b, b.inode \in Inodes, NEW x,
         Told(P, b, x), NEW v \in P, v[b.inode].stamp = b.stamp
  PROVE  (IF x.kind = "dir" THEN [kind |-> "dir"] ELSE x) = EntryOf(v, b.inode)
  <1>1. PICK u \in P :
          /\ u[b.inode].stamp = b.stamp
          /\ IF u[b.inode].kind = "dir"
             THEN x.kind = "dir" /\ ListingAt(u, b.inode) = Listing(x.object)
             ELSE x = EntryOf(u, b.inode)
    BY DEF Told
  <1>2. u[b.inode] = v[b.inode] /\ EntryOf(u, b.inode) = EntryOf(v, b.inode)
    BY <1>1, SameEntry
  <1>3. CASE u[b.inode].kind = "dir"
    BY <1>1, <1>2, <1>3 DEF EntryOf
  <1>4. CASE u[b.inode].kind # "dir"
    <2>1. EntryOf(u, b.inode).kind # "dir"
      <3>1. CASE u[b.inode].kind = "file"
        BY <3>1 DEF EntryOf, FileEntry
      <3>2. CASE u[b.inode].kind = "link"
        BY <3>2 DEF EntryOf, LinkEntry
      <3>3. CASE u[b.inode].kind \notin {"file", "link"}
        BY <1>4, <3>3 DEF EntryOf
      <3> QED  BY <3>1, <3>2, <3>3
    <2> QED  BY <1>1, <1>2, <1>4, <2>1
  <1> QED  BY <1>3, <1>4

\* A directory whose two listings are the same was, between them, what was stored for
\* it, if it is as it was when it was opened.
LEMMA ListedTwice ==
  ASSUME NEW P, NEW w, NEW c, Worlds(P, w, c), NEW f, NEW s,
         Proper(w, f, s), Complete(P, w, f, s), Between(P, f, s),
         f.before = f.after, Still(w, f, s)
  PROVE  Kept(P, f.dir, s, Tree(f.kids))
  <1>1. PICK v \in P :
          /\ s <= v[f.dir].stamp
          /\ \A n \in DOMAIN f.before : f.before[n].stamp <= v[f.before[n].inode].stamp
          /\ \A n \in DOMAIN f.after : v[f.after[n].inode].stamp <= f.after[n].stamp
    BY DEF Between
  <1>2. /\ IsFrame(f) /\ f.dir \in Inodes /\ s \in Nat /\ IsListing(f.before)
        /\ DOMAIN f.kids \subseteq DOMAIN f.before
        /\ w \in P /\ w \in [Inodes -> Nodes] /\ v \in [Inodes -> Nodes]
    BY DEF Proper, IsFrame, Worlds
  <1>3. v[f.dir].stamp = s /\ v[f.dir] = w[f.dir]
    <2>1. v[f.dir].stamp <= w[f.dir].stamp /\ v[f.dir].stamp \in Nat
      BY <1>2, NodeHas DEF Worlds
    <2>2. v[f.dir].stamp = s /\ w[f.dir].stamp = s
      BY <1>1, <1>2, <2>1 DEF Still
    <2> QED  BY <1>2, <2>2 DEF Worlds
  <1>4. /\ DOMAIN v[f.dir].kids = DOMAIN f.before /\ DOMAIN f.kids = DOMAIN f.before
        /\ \A n \in DOMAIN f.before : v[f.dir].kids[n] = f.before[n].inode
        /\ \A n \in DOMAIN f.before : Told(P, f.before[n], f.kids[n])
    BY <1>2, <1>3 DEF Proper, Complete, Agrees, KidsOf
  <1>5. \A n \in DOMAIN f.before :
          /\ f.before[n].inode \in Inodes
          /\ v[f.before[n].inode].stamp = f.before[n].stamp
    BY <1>1, <1>2, ListingHas, NodeHas
  <1>6. \A n \in DOMAIN f.before :
          (IF f.kids[n].kind = "dir" THEN [kind |-> "dir"] ELSE f.kids[n])
            = EntryOf(v, v[f.dir].kids[n])
    BY <1>4, <1>5, ToldEntry
  <1>7. ListingAt(v, f.dir) = Listing(Tree(f.kids))
    <2>1. Tree(f.kids).entries = f.kids
      BY DEF Tree
    <2> QED  BY <1>4, <1>6, <2>1 DEF ListingAt, Listing
  <1> QED  BY <1>3, <1>7 DEF Kept

---------------------------------------------------------------------------
(* The stack.                                                              *)

\* A stack has a length and a first frame.
LEMMA StackHas ==
  ASSUME NEW P, NEW w, NEW stk, Nested(P, w, stk)
  PROVE  /\ Len(stk) \in Nat \ {0} /\ DOMAIN stk = 1 .. Len(stk)
         /\ \A k \in 1 .. Len(stk) : stk[k] \in Range(stk)
  <1>1. stk \in Seq(Range(stk)) /\ stk # <<>>
    BY DEF Nested
  <1> QED  BY <1>1, EmptySeq, LenProperties, ElementOfSeq

\* The stamps of the frames are told by the frames below.
LEMMA StampsStay ==
  ASSUME NEW stk, NEW t, NEW len \in Nat, \A j \in 1 .. len - 1 : t[j] = stk[j]
  PROVE  \A k \in 1 .. len : StampOf(t, k) = StampOf(stk, k)
  <1> SUFFICES ASSUME NEW k \in 1 .. len
               PROVE  StampOf(t, k) = StampOf(stk, k)
    OBVIOUS
  <1>1. k # 1 => k - 1 \in 1 .. len - 1
    OBVIOUS
  <1>2. k # 1 => t[k - 1] = stk[k - 1]
    BY <1>1
  <1> QED  BY <1>2 DEF StampOf

\* The stack with another innermost frame.
IsEdited(stk, f, t) == t = [stk EXCEPT ![Len(stk)] = f]

\* The innermost frame becomes f, of the same directory.
LEMMA Replaced ==
  ASSUME NEW P, NEW w, NEW stk, Nested(P, w, stk), NEW f, f.dir = stk[Len(stk)].dir,
         NEW t, IsEdited(stk, f, t)
  PROVE  /\ Nested(P, w, t) /\ Len(t) = Len(stk) /\ t[Len(t)] = f
         /\ StampOf(t, Len(t)) = StampOf(stk, Len(stk))
  <1> DEFINE S == Range(stk) \cup {f}
             len == Len(stk)
  <1>1. len \in Nat \ {0} /\ len \in 1 .. len
    BY StackHas
  <1>2. stk \in Seq(S) /\ f \in S
    BY SeqMonotonic DEF Nested
  <1>3. /\ t \in Seq(S) /\ Len(t) = len
        /\ \A j \in 1 .. len : t[j] = IF j = len THEN f ELSE stk[j]
    BY <1>1, <1>2, ExceptSeq DEF IsEdited
  <1>4. t \in Seq(Range(t)) /\ t # <<>>
    BY <1>1, <1>3, SeqOfRange, EmptySeq
  <1>5. \A j \in 1 .. len : t[j].dir = stk[j].dir
    BY <1>3
  <1>6. t[1].dir = Root
    BY <1>1, <1>5 DEF Nested
  <1>7. \A k \in 1 .. len : StampOf(t, k) = StampOf(stk, k)
    <2>1. len \in Nat /\ \A j \in 1 .. len - 1 : t[j] = stk[j]
      BY <1>1, <1>3
    <2> HIDE DEF len
    <2> QED  BY <2>1, StampsStay
  <1>8. ASSUME NEW k \in 1 .. len - 1
        PROVE  Waits(P, w, t[k], StampOf(t, k), t[k + 1].dir)
    <2>1. k \in 1 .. len /\ k + 1 \in 1 .. len /\ k # len
      BY <1>1
    <2>2. Waits(P, w, stk[k], StampOf(stk, k), stk[k + 1].dir)
      BY DEF Nested
    <2> QED  BY <1>3, <1>5, <1>7, <2>1, <2>2
  <1> QED  BY <1>1, <1>3, <1>4, <1>6, <1>7, <1>8 DEF Nested

\* The stack with one frame more.
IsPushed(stk, f, t) == t = Append(stk, f)

\* A frame is opened for the next entry of the innermost.
LEMMA Pushed ==
  ASSUME NEW P, NEW w, NEW stk, Nested(P, w, stk), NEW f,
         Waits(P, w, stk[Len(stk)], StampOf(stk, Len(stk)), f.dir),
         NEW t, IsPushed(stk, f, t)
  PROVE  /\ Nested(P, w, t) /\ t[Len(t)] = f
         /\ StampOf(t, Len(t)) = stk[Len(stk)].before[Min(stk[Len(stk)].todo)].stamp
  <1> DEFINE S == Range(stk) \cup {f}
             len == Len(stk)
  <1>1. len \in Nat \ {0} /\ len \in 1 .. len
    BY StackHas
  <1>2. stk \in Seq(S) /\ f \in S
    BY SeqMonotonic DEF Nested
  <1>3. /\ t \in Seq(S) /\ Len(t) = len + 1 /\ t # <<>>
        /\ \A j \in 1 .. len : t[j] = stk[j]
        /\ t[len + 1] = f
    BY <1>1, <1>2, AppendProperties DEF IsPushed
  <1>4. t \in Seq(Range(t))
    BY <1>3, SeqOfRange
  <1>6. t[1].dir = Root
    BY <1>1, <1>3 DEF Nested
  <1>7. \A k \in 1 .. len : StampOf(t, k) = StampOf(stk, k)
    <2>1. len \in Nat /\ \A j \in 1 .. len - 1 : t[j] = stk[j]
      BY <1>1, <1>3
    <2> HIDE DEF len
    <2> QED  BY <2>1, StampsStay
  <1>8. ASSUME NEW k \in 1 .. len
        PROVE  Waits(P, w, t[k], StampOf(t, k), t[k + 1].dir)
    <2>1. CASE k = len
      BY <1>1, <1>3, <1>7, <2>1
    <2>2. CASE k # len
      <3>1. k \in 1 .. len - 1 /\ k + 1 \in 1 .. len
        BY <1>1, <2>2
      <3>2. Waits(P, w, stk[k], StampOf(stk, k), stk[k + 1].dir)
        BY <3>1 DEF Nested
      <3> QED  BY <1>3, <1>7, <3>1, <3>2
    <2> QED  BY <2>1, <2>2
  <1>9. StampOf(t, len + 1) = stk[len].before[Min(stk[len].todo)].stamp
    <2>1. (len + 1) - 1 = len /\ len + 1 # 1 /\ t[len] = stk[len]
      BY <1>1, <1>3
    <2> QED  BY <2>1 DEF StampOf
  <1>10. Nested(P, w, t)
    <2>1. \A k \in 1 .. Len(t) - 1 : Waits(P, w, t[k], StampOf(t, k), t[k + 1].dir)
      BY <1>1, <1>3, <1>8
    <2> QED  BY <1>3, <1>4, <1>6, <2>1 DEF Nested
  <1> QED  BY <1>3, <1>9, <1>10

\* The innermost frame is left, and the one below it becomes f, of the same directory.
LEMMA Popped ==
  ASSUME NEW P, NEW w, NEW stk, Nested(P, w, stk), Len(stk) > 1,
         NEW f, f.dir = stk[Len(stk) - 1].dir,
         NEW t, t = [SubSeq(stk, 1, Len(stk) - 1) EXCEPT ![Len(stk) - 1] = f]
  PROVE  /\ Nested(P, w, t) /\ t[Len(t)] = f
         /\ StampOf(t, Len(t)) = StampOf(stk, Len(stk) - 1)
  <1> DEFINE len == Len(stk) - 1
             u == SubSeq(stk, 1, len)
  <1>1. len \in Nat \ {0} /\ len \in 1 .. len /\ Len(stk) \in Nat \ {0}
    BY StackHas
  <1>2. /\ u \in Seq(Range(stk)) /\ Len(u) = len
        /\ \A i \in 1 .. len : u[i] = stk[i]
    <2>1. \A i \in 1 .. len : stk[i] \in Range(stk)
      BY <1>1, StackHas
    <2> QED  BY <1>1, <2>1, SubSeqProperties
  <1>3. u \in Seq(Range(u)) /\ u # <<>>
    BY <1>1, <1>2, SeqOfRange, EmptySeq
  <1>4. u[1].dir = Root
    BY <1>1, <1>2 DEF Nested
  <1>5. \A k \in 1 .. len : StampOf(u, k) = StampOf(stk, k)
    <2>1. len \in Nat /\ \A j \in 1 .. len - 1 : u[j] = stk[j]
      BY <1>1, <1>2
    <2> HIDE DEF len, u
    <2> QED  BY <2>1, StampsStay
  <1>6. ASSUME NEW k \in 1 .. len - 1
        PROVE  Waits(P, w, u[k], StampOf(u, k), u[k + 1].dir)
    <2>1. k \in 1 .. len /\ k + 1 \in 1 .. len /\ k \in 1 .. Len(stk) - 1
      BY <1>1
    <2>2. Waits(P, w, stk[k], StampOf(stk, k), stk[k + 1].dir)
      BY <2>1 DEF Nested
    <2> QED  BY <1>2, <1>5, <2>1, <2>2
  <1> HIDE DEF u
  <1>7. Nested(P, w, u)
    BY <1>2, <1>3, <1>4, <1>6 DEF Nested
  <1>8. f.dir = u[Len(u)].dir /\ IsEdited(u, f, t)
    BY <1>1, <1>2 DEF u, IsEdited
  <1>9. /\ Nested(P, w, t) /\ t[Len(t)] = f
        /\ StampOf(t, Len(t)) = StampOf(u, Len(u))
    BY <1>7, <1>8, Replaced
  <1>10. StampOf(u, Len(u)) = StampOf(stk, len)
    BY <1>1, <1>2, <1>5
  <1> QED  BY <1>9, <1>10

\* The stack of a capture that begins or has ended.
LEMMA SingleFrame ==
  ASSUME NEW P, NEW w, NEW c, Worlds(P, w, c)
  PROVE  /\ Nested(P, w, <<Frame(Root)>>) /\ Len(<<Frame(Root)>>) = 1
         /\ <<Frame(Root)>>[1] = Frame(Root) /\ StampOf(<<Frame(Root)>>, 1) = 0
         /\ Proper(w, Frame(Root), 0)
  <1> DEFINE t == <<Frame(Root)>>
  <1>1. Len(t) = 1 /\ t[1] = Frame(Root) /\ t # <<>> /\ t \in Seq({Frame(Root)})
    OBVIOUS
  <1>2. t \in Seq(Range(t))
    BY <1>1, SeqOfRange
  <1>3. StampOf(t, 1) = 0
    BY DEF StampOf
  <1>4. Frame(Root).dir = Root
    BY DEF Frame
  <1> HIDE DEF t
  <1>5. Nested(P, w, t)
    BY <1>1, <1>2, <1>4 DEF Nested
  <1>6. Proper(w, Frame(Root), 0)
    <2>1. IsFrame(Frame(Root))
      BY InitialAssumption DEF IsFrame, IsListing, Frame, Empty
    <2>2. w[Root].stamp \in Nat
      BY InitialAssumption, NodeHas DEF Worlds
    <2> QED  BY <1>4, <2>1, <2>2 DEF Proper, Frame, Empty, Agrees
  <1> QED  BY <1>1, <1>3, <1>5, <1>6 DEF t

---------------------------------------------------------------------------
(* Keeping the invariant.                                                  *)

\* The innermost frame.
LEMMA TopHas ==
  ASSUME Inv
  PROVE  /\ Len(stack) \in Nat \ {0} /\ DOMAIN stack = 1 .. Len(stack)
         /\ IsFrame(Top) /\ Top.dir \in Inodes /\ Top.todo \subseteq Names
         /\ IsListing(Top.before) /\ IsListing(Top.after)
         /\ DOMAIN Top.kids \subseteq DOMAIN Top.before
         /\ nodes \in past /\ nodes \in [Inodes -> Nodes] /\ nodes[Top.dir].kind = "dir"
         /\ \A i \in Inodes : nodes[i].kind = Initial[i].kind
         /\ Kids = KidsOf(nodes, Top.dir) /\ DOMAIN Kids \subseteq Names
         /\ \A n \in DOMAIN Kids : Kids[n] \in Inodes
  <1>1. Len(stack) \in Nat \ {0} /\ DOMAIN stack = 1 .. Len(stack)
    BY StackHas DEF Inv
  <1>2. /\ IsFrame(Top) /\ Top.dir \in Inodes /\ Top.todo \subseteq Names
        /\ IsListing(Top.before) /\ IsListing(Top.after)
        /\ DOMAIN Top.kids \subseteq DOMAIN Top.before /\ Initial[Top.dir].kind = "dir"
    BY DEF Inv, Proper, IsFrame
  <1>3. /\ nodes \in past /\ nodes \in [Inodes -> Nodes]
        /\ \A i \in Inodes : nodes[i].kind = Initial[i].kind
    BY DEF Inv, Worlds
  <1>4. nodes[Top.dir].kind = "dir" /\ Kids = nodes[Top.dir].kids
    BY <1>2, <1>3 DEF Kids
  <1>5. DOMAIN Kids \subseteq Names /\ Kids \in [DOMAIN Kids -> Inodes]
    BY <1>2, <1>3, <1>4, NodeHas
  <1> QED  BY <1>1, <1>2, <1>3, <1>4, <1>5 DEF KidsOf

\* The workspace is as it was before the capture: everything is as it was listed.
LEMMA Quiet ==
  ASSUME Inv, changes = 0
  PROVE  /\ nodes = Initial /\ Still(nodes, Top, TopStamp) /\ Agrees(Kids, Top.before)
         /\ \A i \in Inodes : Info(i) = [inode |-> i, stamp |-> 0]
         /\ \A n \in DOMAIN Top.before : Top.before[n] = [inode |-> Kids[n], stamp |-> 0]
         /\ \A n \in DOMAIN Top.after : Top.after[n].stamp = 0
  <1>1. /\ nodes = Initial /\ \A i \in Inodes : nodes[i].stamp = 0
        /\ Proper(nodes, Top, TopStamp)
    BY InitialAssumption DEF Inv, Worlds
  <1>2. Still(nodes, Top, TopStamp)
    BY <1>1, TopHas DEF Proper, Still
  <1>3. Agrees(Kids, Top.before)
    BY <1>1, <1>2, TopHas DEF Proper
  <1>4. \A n \in DOMAIN Top.before :
          /\ Top.before[n] = [inode |-> Top.before[n].inode, stamp |-> Top.before[n].stamp]
          /\ Top.before[n].stamp = 0
    BY <1>1, TopHas, ListingHas DEF Proper
  <1>5. \A n \in DOMAIN Top.after : Top.after[n].stamp = 0
    BY <1>1, TopHas, ListingHas DEF Proper
  <1>6. \A n \in DOMAIN Top.before : Top.before[n].inode = Kids[n]
    BY <1>3 DEF Agrees
  <1> QED  BY <1>1, <1>2, <1>3, <1>4, <1>5, <1>6 DEF Info

\* Then the next entry, if it was listed, is there and the same.
LEMMA QuietEntry ==
  ASSUME Inv, changes = 0, Top.todo # {}, Top.todo \subseteq DOMAIN Top.before
  PROVE  /\ Here /\ Current \in Inodes /\ Info(Current) = Top.before[Entry]
         /\ Current = Top.before[Entry].inode /\ Unchanged
  <1>1. Entry \in DOMAIN Top.before
    BY TopHas, FirstEntry DEF Entry
  <1>2. Here
    BY <1>1, Quiet DEF Here, Agrees
  <1>3. Current \in Inodes
    BY <1>2, TopHas DEF Here, Current
  <1>4. Info(Current) = Top.before[Entry] /\ Current = Top.before[Entry].inode
    BY <1>1, <1>3, Quiet DEF Current
  <1> QED  BY <1>2, <1>3, <1>4 DEF Unchanged, Same

\* The capture ends.
LEMMA EndsKeeps ==
  ASSUME Inv, UNCHANGED workspace, NEW how \in {"changed", "failed"}, Ends(how),
         how = "changed" => changes > 0
  PROVE  Inv'
  <1>1. /\ stack' = <<Frame(Root)>> /\ step' = how /\ file' = Closed
        /\ nodes' = nodes /\ past' = past /\ changes' = changes
    BY DEF Ends, workspace
  <1>2. /\ Nested(past, nodes, stack') /\ Len(stack') = 1 /\ stack'[1] = Frame(Root)
        /\ StampOf(stack', 1) = 0 /\ Proper(nodes, Frame(Root), 0)
    BY <1>1, SingleFrame DEF Inv
  <1>3. Top' = Frame(Root) /\ TopStamp' = 0
    BY <1>2 DEF Top, TopStamp
  <1>4. FileOK(file')
    <2>1. <<>> \in Seq(Nat) /\ Len(<<>>) = 0
      OBVIOUS
    <2> QED  BY <1>1, <2>1, InitialAssumption, BoundsAreNaturals DEF FileOK, Closed
  <1>5. AtStep(past, nodes, Frame(Root), 0, how, file')
    BY DEF AtStep
  <1>6. how \in Steps /\ how \notin {"reroot", "done"}
    BY DEF Steps
  <1> QED  BY <1>1, <1>2, <1>3, <1>4, <1>5, <1>6 DEF Inv

\* The innermost frame becomes f.
LEMMA BecomesKeeps ==
  ASSUME Inv, UNCHANGED workspace, NEW f, Becomes(f), f.dir = Top.dir,
         Proper(nodes, f, TopStamp), AtStep(past, nodes, f, TopStamp, step', file'),
         FileOK(file'), step' \in Steps \ {"changed", "reroot", "done"}
  PROVE  Inv'
  <1>1. nodes' = nodes /\ past' = past /\ changes' = changes
    BY DEF workspace
  <1>2. IsEdited(stack, f, stack') /\ f.dir = stack[Len(stack)].dir
    BY DEF Becomes, IsEdited, Top
  <1>3. /\ Nested(past, nodes, stack') /\ stack'[Len(stack')] = f
        /\ StampOf(stack', Len(stack')) = TopStamp
    BY <1>2, Replaced DEF Inv, TopStamp
  <1>4. Top' = f /\ TopStamp' = TopStamp
    BY <1>3 DEF Top, TopStamp
  <1> QED  BY <1>1, <1>3, <1>4 DEF Inv

\* The stack stays.
LEMMA ContinuesKeeps ==
  ASSUME Inv, UNCHANGED workspace, UNCHANGED stack,
         AtStep(past, nodes, Top, TopStamp, step', file'), FileOK(file'),
         step' \in Steps \ {"changed"}, step' \in {"reroot", "done"} => Len(stack) = 1
  PROVE  Inv'
  <1>1. nodes' = nodes /\ past' = past /\ changes' = changes /\ stack' = stack
    BY DEF workspace
  <1>2. Top' = Top /\ TopStamp' = TopStamp
    BY <1>1 DEF Top, TopStamp
  <1> QED  BY <1>1, <1>2 DEF Inv

\* Frames of which some fields are set.
SetsTodo(f, T, g)      == g = [f EXCEPT !.todo = T]
SetsBefore(f, T, B, g) == g = [f EXCEPT !.todo = T, !.before = B]
SetsAfter(f, T, A, g)  == g = [f EXCEPT !.todo = T, !.after = A]
SetsKids(f, T, K, g)   == g = [f EXCEPT !.todo = T, !.kids = K]

\* Their fields.
LEMMA SetTodo ==
  ASSUME NEW f, IsFrame(f), NEW T, NEW g, SetsTodo(f, T, g)
  PROVE  /\ g.dir = f.dir /\ g.todo = T /\ g.before = f.before /\ g.after = f.after
         /\ g.kids = f.kids
         /\ g = [dir |-> f.dir, todo |-> T, before |-> f.before, after |-> f.after,
                 kids |-> f.kids]
  BY DEF IsFrame, SetsTodo

\* The same for the first listing.
LEMMA SetBefore ==
  ASSUME NEW f, IsFrame(f), NEW T, NEW B, NEW g, SetsBefore(f, T, B, g)
  PROVE  /\ g.dir = f.dir /\ g.todo = T /\ g.before = B /\ g.after = f.after
         /\ g.kids = f.kids
         /\ g = [dir |-> f.dir, todo |-> T, before |-> B, after |-> f.after,
                 kids |-> f.kids]
  BY DEF IsFrame, SetsBefore

\* The same for the second listing.
LEMMA SetAfter ==
  ASSUME NEW f, IsFrame(f), NEW T, NEW A, NEW g, SetsAfter(f, T, A, g)
  PROVE  /\ g.dir = f.dir /\ g.todo = T /\ g.before = f.before /\ g.after = A
         /\ g.kids = f.kids
         /\ g = [dir |-> f.dir, todo |-> T, before |-> f.before, after |-> A,
                 kids |-> f.kids]
  BY DEF IsFrame, SetsAfter

\* The same for the captured entries.
LEMMA SetKids ==
  ASSUME NEW f, IsFrame(f), NEW T, NEW K, NEW g, SetsKids(f, T, K, g)
  PROVE  /\ g.dir = f.dir /\ g.todo = T /\ g.before = f.before /\ g.after = f.after
         /\ g.kids = K
         /\ g = [dir |-> f.dir, todo |-> T, before |-> f.before, after |-> f.after,
                 kids |-> K]
  BY DEF IsFrame, SetsKids

\* A function with another value at n.
LEMMA WithHas ==
  ASSUME NEW f, NEW n, NEW x
  PROVE  /\ DOMAIN With(f, n, x) = DOMAIN f \cup {n}
         /\ With(f, n, x)[n] = x
         /\ \A m \in DOMAIN f : m # n => With(f, n, x)[m] = f[m]
         /\ With(f, n, x) = [m \in DOMAIN With(f, n, x) |-> With(f, n, x)[m]]
  BY DEF With

\* A listing to which an entry is added.
LEMMA ListingGrows ==
  ASSUME NEW b, IsListing(b), NEW n \in Names, NEW x \in Infos
  PROVE  IsListing(With(b, n, x))
  BY DEF IsListing, With

\* A frame with the same directory and listings is as proper.
LEMMA ProperFrame ==
  ASSUME NEW w, NEW f, NEW s, Proper(w, f, s), NEW g, IsFrame(g),
         g.dir = f.dir, g.before = f.before, g.after = f.after
  PROVE  Proper(w, g, s)
  BY DEF Proper, Still

---------------------------------------------------------------------------
(* The steps that list a directory.                                        *)

\* The names of a directory are read: its first listing begins.
LEMMA ReadDirKeeps ==
  ASSUME Inv, UNCHANGED workspace, ReadDir
  PROVE  Inv'
  <1> DEFINE f == [Top EXCEPT !.todo = DOMAIN Kids]
  <1>1. Becomes(f) /\ file' = file /\ FileOK(file') /\ step \in {"list", "relist"}
    BY DEF ReadDir, Inv
  <1>2. /\ f.dir = Top.dir /\ f.todo = DOMAIN Kids /\ f.before = Top.before
        /\ f.after = Top.after /\ f.kids = Top.kids
        /\ f = [dir |-> f.dir, todo |-> f.todo, before |-> f.before, after |-> f.after,
                kids |-> f.kids]
    <2>1. SetsTodo(Top, DOMAIN Kids, f)
      BY DEF SetsTodo
    <2> HIDE DEF f
    <2> QED  BY <2>1, TopHas, SetTodo
  <1> HIDE DEF f
  <1>3. IsFrame(f)
    <2>1. IsFrame(Top) /\ DOMAIN Kids \subseteq Names
      BY TopHas
    <2> QED  BY <1>2, <2>1 DEF IsFrame
  <1>4. Proper(nodes, f, TopStamp)
    BY <1>2, <1>3, ProperFrame DEF Inv
  <1>5. CASE step = "list"
    <2>1. step' = "lstat" /\ step' \in Steps \ {"changed", "reroot", "done"}
      BY <1>5 DEF ReadDir, Steps
    <2>2. Top = Frame(Top.dir)
      BY <1>5 DEF Inv, AtStep
    <2>3. f.kids = Empty /\ f.after = Empty
      BY <1>2, <2>2 DEF Frame
    <2>4. FirstListing(nodes, f, TopStamp)
      BY <1>2, <2>3, TopHas DEF FirstListing
    <2>5. AtStep(past, nodes, f, TopStamp, step', file')
      BY <2>1, <2>4 DEF AtStep
    <2> QED  BY <1>1, <1>2, <1>4, <2>1, <2>5, BecomesKeeps
  <1>6. CASE step = "relist"
    <2>1. step' = "relstat" /\ step' \in Steps \ {"changed", "reroot", "done"}
      BY <1>6 DEF ReadDir, Steps
    <2>2. Complete(past, nodes, Top, TopStamp) /\ Top.after = Empty
      BY <1>6 DEF Inv, AtStep
    <2>3. Complete(past, nodes, f, TopStamp)
      BY <1>2, <2>2 DEF Complete, Still
    <2>4. DOMAIN f.after = {}
      BY <1>2, <2>2 DEF Empty
    <2>5. Between(past, f, TopStamp)
      BY <1>4, <2>4, TopHas DEF Proper, Between
    <2>6. SecondListing(nodes, f, TopStamp)
      BY <1>2, <2>4, TopHas DEF SecondListing, Agrees
    <2>7. AtStep(past, nodes, f, TopStamp, step', file')
      BY <2>1, <2>3, <2>5, <2>6 DEF AtStep
    <2> QED  BY <1>1, <1>2, <1>4, <2>1, <2>7, BecomesKeeps
  <1> QED  BY <1>1, <1>5, <1>6

\* The next name is looked at, in the first or the second listing.
LEMMA LstatKeeps ==
  ASSUME Inv, UNCHANGED workspace, Lstat
  PROVE  Inv'
  <1>1. Top.todo # {} /\ step \in {"lstat", "relstat"} /\ Entry \in Top.todo /\ Entry \in Names
    BY TopHas, FirstIsIn, NamesAreOrdered DEF Lstat, Entry
  <1>2. CASE ~Here /\ Ends("changed")
    <2>1. ASSUME changes = 0 PROVE FALSE
      <3>1. Still(nodes, Top, TopStamp)
        BY <2>1, Quiet
      <3>2. Top.todo \subseteq DOMAIN Kids
        BY <1>1, <3>1, TopHas DEF Inv, AtStep, FirstListing, SecondListing
      <3> QED  BY <1>1, <1>2, <3>2 DEF Here
    <2>2. changes \in Nat
      BY DEF Inv, Worlds
    <2> QED  BY <1>2, <2>1, <2>2, EndsKeeps
  <1>3. ASSUME Here
        PROVE  /\ Current \in Inodes /\ Info(Current) \in Infos
               /\ Info(Current).inode = Kids[Entry]
               /\ Info(Current).stamp = nodes[Kids[Entry]].stamp
    <2>1. Current \in Inodes
      BY <1>3, TopHas DEF Here, Current
    <2> QED  BY <2>1, TopHas, NodeHas DEF Info, Infos, Current
  <1>4. CASE /\ Here /\ step = "lstat" /\ UNCHANGED <<step, file, stored>>
             /\ Becomes([Top EXCEPT !.todo = @ \ {Entry},
                                    !.before = With(@, Entry, Info(Current))])
    <2> DEFINE B == With(Top.before, Entry, Info(Current))
               f == [Top EXCEPT !.todo = Top.todo \ {Entry}, !.before = B]
    <2>1. Becomes(f) /\ step' = "lstat" /\ FileOK(file')
      BY <1>4 DEF Inv
    <2>2. /\ IsListing(B) /\ DOMAIN B = DOMAIN Top.before \cup {Entry}
          /\ B[Entry] = Info(Current)
          /\ \A n \in DOMAIN Top.before : n # Entry => B[n] = Top.before[n]
      <3>1. IsListing(B)
        BY <1>1, <1>3, <1>4, ListingGrows, TopHas
      <3> QED  BY <3>1 DEF With
    <2> HIDE DEF B
    <2>3. /\ f.dir = Top.dir /\ f.todo = Top.todo \ {Entry} /\ f.before = B
          /\ f.after = Top.after /\ f.kids = Top.kids
          /\ f = [dir |-> f.dir, todo |-> f.todo, before |-> f.before, after |-> f.after,
                  kids |-> f.kids]
      <3>1. SetsBefore(Top, Top.todo \ {Entry}, B, f)
        BY DEF SetsBefore
      <3> HIDE DEF f
      <3> QED  BY <3>1, TopHas, SetBefore
    <2> HIDE DEF f
    <2>4. FirstListing(nodes, Top, TopStamp)
      BY <1>4 DEF Inv, AtStep
    <2>5. IsFrame(f)
      <3>1. IsFrame(Top) /\ DOMAIN Top.kids \subseteq DOMAIN B
        BY <2>2, TopHas
      <3> QED  BY <2>2, <2>3, <3>1 DEF IsFrame
    <2>6. Proper(nodes, f, TopStamp)
      <3>1. Proper(nodes, Top, TopStamp)
        BY DEF Inv
      <3>2. \A n \in DOMAIN B : B[n].stamp <= nodes[B[n].inode].stamp
        <4>1. nodes[Kids[Entry]].stamp \in Nat
          BY <1>3, <1>4, NodeHas, TopHas DEF Current
        <4> QED  BY <1>3, <1>4, <2>2, <3>1, <4>1 DEF Proper
      <3>3. Still(nodes, f, TopStamp) => Agrees(Kids, B)
        <4>1. Still(nodes, f, TopStamp) => Agrees(Kids, Top.before)
          BY <2>3, <3>1, TopHas DEF Proper, Still
        <4> QED  BY <1>3, <1>4, <2>2, <4>1 DEF Agrees, Here
      <3> QED  BY <2>3, <2>5, <3>1, <3>2, <3>3, TopHas DEF Proper
    <2>7. FirstListing(nodes, f, TopStamp)
      BY <1>1, <2>2, <2>3, <2>4 DEF FirstListing, Still
    <2>8. AtStep(past, nodes, f, TopStamp, step', file')
      BY <2>1, <2>7 DEF AtStep
    <2>9. step' \in Steps \ {"changed", "reroot", "done"}
      BY <2>1 DEF Steps
    <2> QED  BY <2>1, <2>3, <2>6, <2>8, <2>9, BecomesKeeps
  <1>5. CASE /\ Here /\ step = "relstat" /\ UNCHANGED <<step, file, stored>>
             /\ Becomes([Top EXCEPT !.todo = @ \ {Entry},
                                    !.after = With(@, Entry, Info(Current))])
    <2> DEFINE A == With(Top.after, Entry, Info(Current))
               f == [Top EXCEPT !.todo = Top.todo \ {Entry}, !.after = A]
    <2>1. Becomes(f) /\ step' = "relstat" /\ FileOK(file')
      BY <1>5 DEF Inv
    <2>2. /\ IsListing(A) /\ DOMAIN A = DOMAIN Top.after \cup {Entry}
          /\ A[Entry] = Info(Current)
          /\ \A n \in DOMAIN Top.after : n # Entry => A[n] = Top.after[n]
      <3>1. IsListing(A)
        BY <1>1, <1>3, <1>5, ListingGrows, TopHas
      <3> QED  BY <3>1 DEF With
    <2> HIDE DEF A
    <2>3. /\ f.dir = Top.dir /\ f.todo = Top.todo \ {Entry} /\ f.before = Top.before
          /\ f.after = A /\ f.kids = Top.kids
          /\ f = [dir |-> f.dir, todo |-> f.todo, before |-> f.before, after |-> f.after,
                  kids |-> f.kids]
      <3>1. SetsAfter(Top, Top.todo \ {Entry}, A, f)
        BY DEF SetsAfter
      <3> HIDE DEF f
      <3> QED  BY <3>1, TopHas, SetAfter
    <2> HIDE DEF f
    <2>4. /\ Complete(past, nodes, Top, TopStamp) /\ Between(past, Top, TopStamp)
          /\ SecondListing(nodes, Top, TopStamp)
      BY <1>5 DEF Inv, AtStep
    <2>5. IsFrame(f)
      <3>1. IsFrame(Top)
        BY TopHas
      <3> QED  BY <2>2, <2>3, <3>1 DEF IsFrame
    <2>n. nodes[Kids[Entry]].stamp \in Nat
      BY <1>3, <1>5, NodeHas, TopHas DEF Current
    <2>6. Proper(nodes, f, TopStamp)
      <3>1. Proper(nodes, Top, TopStamp)
        BY DEF Inv
      <3>2. \A n \in DOMAIN A : A[n].stamp <= nodes[A[n].inode].stamp
        BY <1>3, <1>5, <2>2, <2>n, <3>1 DEF Proper
      <3> QED  BY <2>3, <2>5, <3>1, <3>2 DEF Proper, Still
    <2>7. Complete(past, nodes, f, TopStamp)
      BY <2>3, <2>4 DEF Complete, Still
    <2>8. Between(past, f, TopStamp)
      <3>1. PICK v \in past :
              /\ TopStamp <= v[Top.dir].stamp
              /\ \A n \in DOMAIN Top.before :
                   Top.before[n].stamp <= v[Top.before[n].inode].stamp
              /\ \A n \in DOMAIN Top.after : v[Top.after[n].inode].stamp <= Top.after[n].stamp
        BY <2>4 DEF Between
      <3>2. After(v, nodes)
        BY PastIsBefore DEF Inv
      <3>3. v[Kids[Entry]].stamp <= nodes[Kids[Entry]].stamp
        BY <1>3, <1>5, <3>2 DEF After, Current
      <3>4. \A n \in DOMAIN A : v[A[n].inode].stamp <= A[n].stamp
        BY <1>3, <1>5, <2>2, <3>1, <3>3
      <3> QED  BY <2>3, <3>1, <3>4 DEF Between
    <2>9. SecondListing(nodes, f, TopStamp)
      <3> SUFFICES ASSUME Still(nodes, f, TopStamp)
                   PROVE  /\ f.todo \subseteq DOMAIN Kids
                          /\ DOMAIN Kids \subseteq f.todo \cup DOMAIN f.after
                          /\ Agrees(Kids, f.after)
        BY <2>3, TopHas DEF SecondListing
      <3>1. /\ Top.todo \subseteq DOMAIN Kids
            /\ DOMAIN Kids \subseteq Top.todo \cup DOMAIN Top.after
            /\ Agrees(Kids, Top.after)
        BY <2>3, <2>4, TopHas DEF SecondListing, Still
      <3>2. Agrees(Kids, A)
        BY <1>3, <1>5, <2>2, <3>1 DEF Agrees, Here
      <3> QED  BY <2>2, <2>3, <3>1, <3>2
    <2>10. AtStep(past, nodes, f, TopStamp, step', file')
      BY <2>1, <2>7, <2>8, <2>9 DEF AtStep
    <2>11. step' \in Steps \ {"changed", "reroot", "done"}
      BY <2>1 DEF Steps
    <2> QED  BY <2>1, <2>3, <2>6, <2>10, <2>11, BecomesKeeps
  <1> QED  BY <1>2, <1>4, <1>5 DEF Lstat

\* The first listing is complete.
LEMMA ListedKeeps ==
  ASSUME Inv, UNCHANGED workspace, Listed
  PROVE  Inv'
  <1> DEFINE f == [Top EXCEPT !.todo = DOMAIN Top.before]
  <1>1. /\ Becomes(f) /\ FileOK(file') /\ step = "lstat" /\ step' = "entry" /\ Top.todo = {}
        /\ step' \in Steps \ {"changed", "reroot", "done"}
    BY DEF Listed, Inv, Steps
  <1>2. /\ f.dir = Top.dir /\ f.todo = DOMAIN Top.before /\ f.before = Top.before
        /\ f.after = Top.after /\ f.kids = Top.kids
        /\ f = [dir |-> f.dir, todo |-> f.todo, before |-> f.before, after |-> f.after,
                kids |-> f.kids]
    <2>1. SetsTodo(Top, DOMAIN Top.before, f)
      BY DEF SetsTodo
    <2> HIDE DEF f
    <2> QED  BY <2>1, TopHas, SetTodo
  <1> HIDE DEF f
  <1>3. IsFrame(f)
    BY <1>2, TopHas DEF IsFrame, IsListing
  <1>4. Proper(nodes, f, TopStamp)
    BY <1>2, <1>3, ProperFrame DEF Inv
  <1>5. FirstListing(nodes, Top, TopStamp)
    BY <1>1 DEF Inv, AtStep
  <1>6. DOMAIN f.kids = {}
    BY <1>2, <1>5 DEF FirstListing, Empty
  <1>7. Entering(past, nodes, f, TopStamp)
    BY <1>1, <1>2, <1>5, <1>6 DEF Entering, FirstListing, Still
  <1>8. AtStep(past, nodes, f, TopStamp, step', file')
    BY <1>1, <1>7 DEF AtStep
  <1> QED  BY <1>1, <1>2, <1>4, <1>8, BecomesKeeps

\* Every entry was captured: the second listing begins.
LEMMA EntriesDoneKeeps ==
  ASSUME Inv, UNCHANGED workspace, EntriesDone
  PROVE  Inv'
  <1>1. /\ step = "entry" /\ step' = "relist" /\ Top.todo = {} /\ UNCHANGED stack
        /\ FileOK(file') /\ step' \in Steps \ {"changed", "reroot", "done"}
    BY DEF EntriesDone, Continues, Inv, Steps
  <1>2. Entering(past, nodes, Top, TopStamp)
    BY <1>1 DEF Inv, AtStep
  <1>3. Complete(past, nodes, Top, TopStamp) /\ Top.after = Empty
    BY <1>1, <1>2 DEF Entering, Complete
  <1>4. AtStep(past, nodes, Top, TopStamp, step', file')
    BY <1>1, <1>3 DEF AtStep
  <1> QED  BY <1>1, <1>4, ContinuesKeeps

---------------------------------------------------------------------------
(* The steps that return to the directory above.                           *)

\* The two listings of a quiet directory are the same.
LEMMA QuietListings ==
  ASSUME Inv, changes = 0, step = "relstat", Top.todo = {}
  PROVE  SameItems
  <1>1. /\ Complete(past, nodes, Top, TopStamp) /\ SecondListing(nodes, Top, TopStamp)
        /\ Still(nodes, Top, TopStamp) /\ Agrees(Kids, Top.before)
    BY Quiet DEF Inv, AtStep
  <1>2. /\ DOMAIN Kids \subseteq DOMAIN Top.before /\ DOMAIN Kids \subseteq DOMAIN Top.after
        /\ Agrees(Kids, Top.after)
    BY <1>1, TopHas DEF Complete, SecondListing
  <1>3. DOMAIN Top.before = DOMAIN Kids /\ DOMAIN Top.after = DOMAIN Kids
    BY <1>1, <1>2 DEF Agrees
  <1>4. \A n \in DOMAIN Kids : Top.after[n] = [inode |-> Kids[n], stamp |-> 0]
    <2> SUFFICES ASSUME NEW n \in DOMAIN Kids
                 PROVE  Top.after[n] = [inode |-> Kids[n], stamp |-> 0]
      OBVIOUS
    <2>1. Top.after[n] = [inode |-> Top.after[n].inode, stamp |-> Top.after[n].stamp]
      BY <1>3, TopHas, ListingHas
    <2>2. Top.after[n].inode = Kids[n] /\ Top.after[n].stamp = 0
      BY <1>2, <1>3, Quiet DEF Agrees
    <2> QED  BY <2>1, <2>2
  <1>5. \A n \in DOMAIN Kids : Top.before[n] = [inode |-> Kids[n], stamp |-> 0]
    BY <1>3, Quiet
  <1>6. Top.before = [n \in DOMAIN Kids |-> Top.before[n]]
    BY <1>3, TopHas DEF IsListing
  <1>7. Top.after = [n \in DOMAIN Kids |-> Top.after[n]]
    BY <1>3, TopHas DEF IsListing
  <1> QED  BY <1>4, <1>5, <1>6, <1>7 DEF SameItems

\* The second listing is complete: the directory is stored, or it has changed.
LEMMA RelistedKeeps ==
  ASSUME Inv, UNCHANGED workspace, Relisted
  PROVE  Inv'
  <1>1. /\ step = "relstat" /\ Top.todo = {}
        /\ Complete(past, nodes, Top, TopStamp) /\ Between(past, Top, TopStamp)
    BY DEF Relisted, Inv, AtStep
  <1>2. ASSUME SameItems, Still(nodes, Top, TopStamp)
        PROVE  Kept(past, Top.dir, TopStamp, Tree(Top.kids))
    BY <1>1, <1>2, ListedTwice DEF Inv, SameItems
  <1>3. CASE ~SameItems /\ Ends("changed")
    <2>1. changes # 0 /\ changes \in Nat
      BY <1>1, <1>3, QuietListings DEF Inv, Worlds
    <2> QED  BY <1>3, <2>1, EndsKeeps
  <1>4. CASE SameItems /\ Len(stack) = 1 /\ step' = "reroot" /\ UNCHANGED <<stack, file>>
    <2>1. Top.dir = Root
      BY <1>4 DEF Top, Inv, Nested
    <2>2. AtStep(past, nodes, Top, TopStamp, step', file')
      BY <1>1, <1>2, <1>4, <2>1 DEF AtStep
    <2>3. step' \in Steps \ {"changed"} /\ FileOK(file')
      BY <1>4 DEF Steps, Inv
    <2> QED  BY <1>4, <2>2, <2>3, ContinuesKeeps
  <1>5. CASE /\ SameItems /\ Len(stack) > 1 /\ step' = "redir" /\ UNCHANGED file
             /\ stack' = [SubSeq(stack, 1, Len(stack) - 1) EXCEPT ![Len(stack) - 1].kids =
                            With(@, Min(stack[Len(stack) - 1].todo), DirEntry(Tree(Top.kids)))]
    <2> DEFINE len == Len(stack) - 1
               g == stack[len]
               s == StampOf(stack, len)
               n == Min(g.todo)
               value == DirEntry(Tree(Top.kids))
               K == With(g.kids, n, value)
               f == [g EXCEPT !.todo = g.todo, !.kids = K]
    <2>1. len \in 1 .. Len(stack) - 1 /\ len + 1 = Len(stack) /\ len \in Nat \ {0}
      BY <1>5, TopHas
    <2>2. Waits(past, nodes, g, s, Top.dir)
      BY <2>1 DEF Inv, Nested, Top
    <2>3. /\ IsFrame(g) /\ Proper(nodes, g, s) /\ Entering(past, nodes, g, s)
          /\ g.todo # {} /\ g.todo \subseteq DOMAIN g.before
          /\ Top.dir = g.before[n].inode
      BY <2>2 DEF Waits, Proper, Entering
    <2>4. TopStamp = g.before[n].stamp
      <3>1. Len(stack) # 1 /\ Len(stack) - 1 = len
        BY <1>5
      <3> QED  BY <3>1 DEF TopStamp, StampOf
    <2>5. n \in g.todo /\ n \in DOMAIN g.before
      BY <2>3, FirstEntry
    <2>6. /\ DOMAIN K = DOMAIN g.kids \cup {n} /\ K[n] = value
          /\ \A m \in DOMAIN g.kids : m # n => K[m] = g.kids[m]
          /\ K = [m \in DOMAIN K |-> K[m]]
      BY DEF With
    <2>7. /\ f.dir = g.dir /\ f.todo = g.todo /\ f.before = g.before
          /\ f.after = g.after /\ f.kids = K
          /\ f = [dir |-> g.dir, todo |-> g.todo, before |-> g.before, after |-> g.after,
                  kids |-> K]
      <3>1. SetsKids(g, g.todo, K, f)
        BY DEF SetsKids
      <3> HIDE DEF f, K, g
      <3> QED  BY <2>3, <3>1, SetKids
    <2>8. stack' = [SubSeq(stack, 1, Len(stack) - 1) EXCEPT ![Len(stack) - 1] = f]
      <3>1. SubSeq(stack, 1, len)[len] = g /\ DOMAIN SubSeq(stack, 1, len) = 1 .. len
        <4>1. \A i \in 1 .. len : stack[i] \in Range(stack)
          BY <2>1, StackHas DEF Inv
        <4>2. /\ SubSeq(stack, 1, len) \in Seq(Range(stack)) /\ Len(SubSeq(stack, 1, len)) = len
              /\ SubSeq(stack, 1, len)[len] = stack[len]
          BY <2>1, <4>1, SubSeqProperties
        <4> QED  BY <4>2, LenProperties
      <3>2. stack' = [SubSeq(stack, 1, len) EXCEPT ![len] =
                        [SubSeq(stack, 1, len)[len] EXCEPT !.kids =
                           With(SubSeq(stack, 1, len)[len].kids, n, value)]]
        BY <1>5
      <3>3. [g EXCEPT !.kids = K] = f
        BY <2>3, <2>7 DEF IsFrame
      <3> QED  BY <3>1, <3>2, <3>3
    <2> HIDE DEF f, K
    <2>9. /\ Nested(past, nodes, stack') /\ stack'[Len(stack')] = f
          /\ StampOf(stack', Len(stack')) = s
      <3>1. f.dir = stack[Len(stack) - 1].dir /\ Len(stack) > 1
        BY <1>5, <2>7
      <3> QED  BY <2>8, <3>1, Popped DEF Inv
    <2>10. Top' = f /\ TopStamp' = s
      BY <2>9 DEF Top, TopStamp
    <2>11. IsFrame(f)
      BY <2>3, <2>5, <2>6, <2>7 DEF IsFrame
    <2>12. Proper(nodes, f, s)
      BY <2>3, <2>7, <2>11, ProperFrame
    <2>13. Entering(past, nodes, f, s)
      <3>1. \A m \in DOMAIN K \ g.todo : m \in DOMAIN g.kids \ g.todo /\ K[m] = g.kids[m]
        BY <2>5, <2>6
      <3> QED  BY <2>3, <2>6, <2>7, <3>1 DEF Entering, Still
    <2>14. Returned(past, nodes, f, s)
      <3>1. ASSUME nodes[g.before[n].inode].stamp = g.before[n].stamp
            PROVE  Told(past, g.before[n], value)
        <4>1. Still(nodes, Top, TopStamp)
          BY <2>3, <2>4, <3>1 DEF Still
        <4>2. Kept(past, Top.dir, TopStamp, Tree(Top.kids))
          BY <1>2, <1>5, <4>1
        <4>3. PICK v \in past : /\ v[Top.dir].stamp = TopStamp
                                /\ ListingAt(v, Top.dir) = Listing(Tree(Top.kids))
          BY <4>2 DEF Kept
        <4>4. v[Top.dir].kind = "dir"
          BY TopHas DEF Inv, Worlds
        <4>5. value.kind = "dir" /\ value.object = Tree(Top.kids)
          BY DEF DirEntry
        <4> QED  BY <2>3, <2>4, <4>3, <4>4, <4>5 DEF Told
      <3> QED  BY <2>3, <2>6, <2>7, <3>1 DEF Returned
    <2>15. AtStep(past, nodes, f, s, step', file')
      BY <1>5, <2>13, <2>14 DEF AtStep
    <2>16. nodes' = nodes /\ past' = past /\ changes' = changes /\ FileOK(file')
      BY <1>5 DEF workspace, Inv
    <2>17. step' \in Steps /\ step' \notin {"changed", "reroot", "done"}
      BY <1>5 DEF Steps
    <2> QED  BY <2>9, <2>10, <2>12, <2>15, <2>16, <2>17 DEF Inv
  <1> QED  BY <1>3, <1>4, <1>5 DEF Relisted

\* A subdirectory is looked at again after it was captured.
LEMMA RedirKeeps ==
  ASSUME Inv, UNCHANGED workspace, Redir
  PROVE  Inv'
  <1>1. /\ step = "redir" /\ Entering(past, nodes, Top, TopStamp)
        /\ Returned(past, nodes, Top, TopStamp) /\ Top.todo # {}
        /\ Top.todo \subseteq DOMAIN Top.before
    BY DEF Redir, Inv, AtStep, Returned, Entering
  <1>2. CASE ~Unchanged /\ Ends("changed")
    <2>1. changes # 0 /\ changes \in Nat
      BY <1>1, <1>2, QuietEntry DEF Inv, Worlds
    <2> QED  BY <1>2, <2>1, EndsKeeps
  <1>3. CASE /\ Unchanged /\ Becomes([Top EXCEPT !.todo = @ \ {Entry}])
             /\ step' = "entry" /\ UNCHANGED <<file, stored>>
    <2> DEFINE f == [Top EXCEPT !.todo = Top.todo \ {Entry}]
    <2>1. /\ Becomes(f) /\ FileOK(file') /\ step' = "entry"
          /\ step' \in Steps \ {"changed", "reroot", "done"}
      BY <1>3 DEF Inv, Steps
    <2>2. /\ f.dir = Top.dir /\ f.todo = Top.todo \ {Entry} /\ f.before = Top.before
          /\ f.after = Top.after /\ f.kids = Top.kids
          /\ f = [dir |-> f.dir, todo |-> f.todo, before |-> f.before, after |-> f.after,
                  kids |-> f.kids]
      <3>1. SetsTodo(Top, Top.todo \ {Entry}, f)
        BY DEF SetsTodo
      <3> HIDE DEF f
      <3> QED  BY <3>1, TopHas, SetTodo
    <2> HIDE DEF f
    <2>3. IsFrame(f)
      BY <2>2, TopHas DEF IsFrame
    <2>4. Proper(nodes, f, TopStamp)
      BY <2>2, <2>3, ProperFrame DEF Inv
    <2>5. Entry \in DOMAIN Top.kids /\ Told(past, Top.before[Entry], Top.kids[Entry])
      <3>1. Current = Top.before[Entry].inode
            /\ nodes[Current].stamp = Top.before[Entry].stamp
        <4>1. Info(Current) = Top.before[Entry]
          BY <1>3 DEF Unchanged, Same
        <4>2. Info(Current).inode = Current /\ Info(Current).stamp = nodes[Current].stamp
          BY DEF Info
        <4> QED  BY <4>1, <4>2
      <3> QED  BY <1>1, <3>1 DEF Returned, Entry
    <2>6. Entering(past, nodes, f, TopStamp)
      BY <1>1, <2>2, <2>5 DEF Entering, Still
    <2>7. AtStep(past, nodes, f, TopStamp, step', file')
      BY <2>1, <2>6 DEF AtStep
    <2> QED  BY <2>1, <2>2, <2>4, <2>7, BecomesKeeps
  <1> QED  BY <1>2, <1>3 DEF Redir

\* The root is looked at again after it was captured.
LEMMA RerootKeeps ==
  ASSUME Inv, UNCHANGED workspace, Reroot
  PROVE  Inv'
  <1>1. /\ step = "reroot" /\ Len(stack) = 1 /\ Top.dir = Root
        /\ AtStep(past, nodes, Top, TopStamp, "reroot", file)
    BY DEF Reroot, Inv, AtStep
  <1>2. CASE nodes[Root].stamp = Initial[Root].stamp /\ Continues("done")
    <2>1. TopStamp = 0
      BY <1>1 DEF TopStamp, StampOf
    <2>2. Still(nodes, Top, TopStamp)
      BY <1>1, <1>2, <2>1, InitialAssumption DEF Still
    <2>3. /\ step' = "done" /\ UNCHANGED stack /\ FileOK(file')
          /\ step' \in Steps \ {"changed"}
      BY <1>2 DEF Continues, Inv, Steps
    <2>4. AtStep(past, nodes, Top, TopStamp, step', file')
      BY <1>1, <2>2, <2>3 DEF AtStep
    <2> QED  BY <1>1, <2>3, <2>4, ContinuesKeeps
  <1>3. CASE nodes[Root].stamp # Initial[Root].stamp /\ Ends("changed")
    <2>1. changes # 0 /\ changes \in Nat
      BY <1>3, Quiet DEF Inv, Worlds
    <2> QED  BY <1>3, <2>1, EndsKeeps
  <1> QED  BY <1>2, <1>3 DEF Reroot

---------------------------------------------------------------------------
(* The steps that capture an entry.                                        *)

\* While entries are captured, the next one was listed.
LEMMA NextListed ==
  ASSUME Inv, step \in {"entry", "redir", "read", "restat", "relook", "relink"},
         Top.todo # {}
  PROVE  /\ Entering(past, nodes, Top, TopStamp) /\ Top.todo \subseteq DOMAIN Top.before
         /\ Entry \in Top.todo /\ Entry \in DOMAIN Top.before
         /\ Top.before[Entry].inode \in Inodes /\ Top.before[Entry].stamp \in Nat
         /\ Top.before[Entry]
              = [inode |-> Top.before[Entry].inode, stamp |-> Top.before[Entry].stamp]
         /\ nodes[Top.before[Entry].inode].kind = Initial[Top.before[Entry].inode].kind
  <1>1. Entering(past, nodes, Top, TopStamp) /\ Top.todo \subseteq DOMAIN Top.before
    BY DEF Inv, AtStep, Entering
  <1> QED  BY <1>1, TopHas, FirstEntry DEF Entry

\* A gone or changed entry is not found where nothing was changed.
LEMMA GoneKeeps ==
  ASSUME Inv, UNCHANGED workspace,
         step \in {"entry", "redir", "read", "restat", "relook", "relink"}, Top.todo # {},
         ~Unchanged, Ends("changed")
  PROVE  Inv'
  <1>1. changes # 0 /\ changes \in Nat
    BY NextListed, QuietEntry DEF Inv, Worlds
  <1> QED  BY <1>1, EndsKeeps

\* The handle of the next entry is of the inode that was listed.
LEMMA SameInode ==
  ASSUME Inv, step \in {"entry", "redir", "read", "restat", "relook", "relink"},
         Top.todo # {}, NEW i, Same(i)
  PROVE  /\ i = Top.before[Entry].inode /\ i \in Inodes
         /\ nodes[i].stamp = Top.before[Entry].stamp
  <1>1. Info(i).inode = i /\ Info(i).stamp = nodes[i].stamp
    BY DEF Info
  <1> QED  BY <1>1, NextListed DEF Same

\* The next entry is a directory: its capture begins.
LEMMA OpenDirKeeps ==
  ASSUME Inv, UNCHANGED workspace, OpenDir
  PROVE  Inv'
  <1>1. /\ step = "entry" /\ Top.todo # {}
        /\ nodes[Top.before[Entry].inode].kind = "dir"
    BY DEF OpenDir, NextIs
  <1>2. CASE Gone
    BY <1>1, <1>2, GoneKeeps DEF Gone, Unchanged
  <1>3. CASE Here /\ \E i \in Opened : nodes[i].kind # "dir" /\ Ends("failed")
    BY <1>3, EndsKeeps
  <1>4. CASE Here /\ \E i \in Opened : nodes[i].kind = "dir" /\ ~Same(i) /\ Ends("changed")
    <2>1. ASSUME changes = 0 PROVE FALSE
      <3>1. Current = Top.before[Entry].inode /\ Same(Current)
        BY <1>1, <2>1, NextListed, QuietEntry DEF Unchanged
      <3>2. Opened = {Current}
        BY <1>1, <3>1 DEF Opened
      <3> QED  BY <1>4, <3>1, <3>2
    <2>2. changes \in Nat
      BY DEF Inv, Worlds
    <2> QED  BY <1>4, <2>1, <2>2, EndsKeeps
  <1>5. CASE \E i \in Opened : /\ nodes[i].kind = "dir" /\ Same(i)
                               /\ stack' = Append(stack, Frame(i))
                               /\ step' = "list" /\ UNCHANGED <<file, stored>>
    <2>1. PICK i : /\ nodes[i].kind = "dir" /\ Same(i)
                   /\ stack' = Append(stack, Frame(i))
                   /\ step' = "list" /\ UNCHANGED <<file, stored>>
      BY <1>5
    <2> DEFINE s == Top.before[Entry].stamp
    <2>2. /\ i = Top.before[Entry].inode /\ i \in Inodes /\ nodes[i].stamp = s /\ s \in Nat
          /\ Initial[i].kind = "dir"
      BY <1>1, <2>1, SameInode, NextListed
    <2>3. Waits(past, nodes, Top, TopStamp, Frame(i).dir)
      <3>1. Frame(i).dir = i
        BY DEF Frame
      <3> QED  BY <1>1, <2>2, <3>1, NextListed DEF Waits, Inv, Entry
    <2>4. /\ Nested(past, nodes, stack') /\ stack'[Len(stack')] = Frame(i)
          /\ StampOf(stack', Len(stack')) = s
      <3>1. /\ Nested(past, nodes, stack)
            /\ Waits(past, nodes, stack[Len(stack)], StampOf(stack, Len(stack)), Frame(i).dir)
        BY <2>3 DEF Inv, Top, TopStamp
      <3>2. IsPushed(stack, Frame(i), stack')
        BY <2>1 DEF IsPushed
      <3>3. /\ Nested(past, nodes, stack') /\ stack'[Len(stack')] = Frame(i)
            /\ StampOf(stack', Len(stack'))
                 = stack[Len(stack)].before[Min(stack[Len(stack)].todo)].stamp
        BY <3>1, <3>2, Pushed
      <3> QED  BY <3>3 DEF Top, Entry
    <2>5. Top' = Frame(i) /\ TopStamp' = s
      BY <2>4 DEF Top, TopStamp
    <2>6. Proper(nodes, Frame(i), s)
      <3>1. IsFrame(Frame(i))
        BY <2>2 DEF IsFrame, IsListing, Frame, Empty
      <3> QED  BY <2>2, <3>1 DEF Proper, Frame, Empty, Agrees
    <2>7. AtStep(past, nodes, Frame(i), s, step', file')
      BY <2>1 DEF AtStep, Frame
    <2>8. nodes' = nodes /\ past' = past /\ changes' = changes /\ FileOK(file')
      BY <2>1 DEF workspace, Inv
    <2>9. step' \in Steps /\ step' \notin {"changed", "reroot", "done"}
      BY <2>1 DEF Steps
    <2> QED  BY <2>4, <2>5, <2>6, <2>7, <2>8, <2>9 DEF Inv
  <1> QED  BY <1>2, <1>3, <1>4, <1>5 DEF OpenDir

\* The next entry is a file, and is opened.
LEMMA OpenFileKeeps ==
  ASSUME Inv, UNCHANGED workspace, OpenFile
  PROVE  Inv'
  <1>1. /\ step = "entry" /\ Top.todo # {}
        /\ nodes[Top.before[Entry].inode].kind = "file"
    BY DEF OpenFile, NextIs
  <1>2. CASE Gone
    BY <1>1, <1>2, GoneKeeps DEF Gone, Unchanged
  <1>3. CASE Here /\ \E i \in Opened : ~Same(i) /\ Ends("changed")
    <2>1. ASSUME changes = 0 PROVE FALSE
      <3>1. Current = Top.before[Entry].inode /\ Same(Current)
        BY <1>1, <2>1, NextListed, QuietEntry DEF Unchanged
      <3>2. Opened = {Current}
        BY <1>1, <3>1 DEF Opened
      <3> QED  BY <1>3, <3>1, <3>2
    <2>2. changes \in Nat
      BY DEF Inv, Worlds
    <2> QED  BY <1>3, <2>1, <2>2, EndsKeeps
  <1>4. CASE \E i \in Opened : /\ Same(i) /\ file' = [inode |-> i, read |-> <<>>]
                               /\ step' = "read" /\ UNCHANGED <<stack, stored>>
    <2>1. PICK i : /\ Same(i) /\ file' = [inode |-> i, read |-> <<>>]
                   /\ step' = "read" /\ UNCHANGED <<stack, stored>>
      BY <1>4
    <2>2. i = Top.before[Entry].inode /\ i \in Inodes /\ Initial[i].kind = "file"
      BY <1>1, <2>1, SameInode, NextListed
    <2>3. FileOK(file')
      <3>1. <<>> \in Seq(Nat) /\ Len(<<>>) = 0
        OBVIOUS
      <3> QED  BY <2>1, <2>2, <3>1, BoundsAreNaturals DEF FileOK
    <2>4. Reading(nodes, Top, file')
      <3>1. Len(file'.read) = 0 /\ file'.inode = i
        BY <2>1
      <3> QED  BY <1>1, <2>2, <3>1 DEF Reading, Entry
    <2>5. step' = "read" /\ step' \in Steps \ {"changed", "reroot", "done"} /\ UNCHANGED stack
      BY <2>1 DEF Steps
    <2>6. AtStep(past, nodes, Top, TopStamp, step', file')
      BY <1>1, <2>4, <2>5, NextListed DEF AtStep
    <2> QED  BY <2>3, <2>5, <2>6, ContinuesKeeps
  <1> QED  BY <1>2, <1>3, <1>4 DEF OpenFile

\* The next block of the open file is read.
LEMMA ReadKeeps ==
  ASSUME Inv, UNCHANGED workspace, Read
  PROVE  Inv'
  <1> DEFINE b == Top.before[Entry]
             len == Len(file.read)
             block == nodes[file.inode].data[len + 1]
             read == Append(file.read, block)
  <1>1. /\ step = "read" /\ len < Blocks /\ step' = "read" /\ UNCHANGED stack
        /\ file' = [file EXCEPT !.read = read]
        /\ step' \in Steps \ {"changed", "reroot", "done"}
    BY DEF Read, Inv, Steps
  <1>2. /\ Reading(nodes, Top, file) /\ FileOK(file) /\ Top.todo # {}
    BY <1>1 DEF Inv, AtStep, Reading
  <1>3. /\ file.inode = b.inode /\ file.inode \in Inodes
        /\ nodes[file.inode].kind = "file"
    BY <1>1, <1>2, NextListed DEF Reading, Entry, FileOK
  <1>4. nodes[file.inode].data \in [1 .. Blocks -> Nat]
    BY <1>3, TopHas, NodeHas
  <1>5. len \in Nat /\ len + 1 \in 1 .. Blocks /\ block \in Nat
    <2>1. len \in Nat
      BY <1>2, LenProperties DEF FileOK
    <2> QED  BY <1>1, <1>4, <2>1, BoundsAreNaturals
  <1>6. /\ read \in Seq(Nat) /\ Len(read) = len + 1
        /\ \A k \in 1 .. len : read[k] = file.read[k]
        /\ read[len + 1] = block
    <2>1. file.read \in Seq(Nat)
      BY <1>2 DEF FileOK
    <2> HIDE DEF block
    <2> QED  BY <1>5, <2>1, AppendProperties
  <1> HIDE DEF read
  <1>7. file' = [inode |-> file.inode, read |-> read]
    BY <1>1, <1>2 DEF FileOK
  <1>8. FileOK(file')
    <2>1. Len(read) <= Blocks
      BY <1>5, <1>6, BoundsAreNaturals
    <2>2. file'.inode = file.inode /\ file'.read = read
      BY <1>7
    <2> QED  BY <1>3, <1>6, <1>7, <2>1, <2>2 DEF FileOK
  <1>9. Reading(nodes, Top, file')
    <2>1. ASSUME nodes[b.inode].stamp = b.stamp, NEW k \in 1 .. Len(read)
          PROVE  read[k] = nodes[b.inode].data[k]
      <3>1. CASE k \in 1 .. len
        BY <1>2, <1>6, <2>1, <3>1 DEF Reading, Entry
      <3>2. CASE k = len + 1
        BY <1>3, <1>6, <3>2
      <3> QED  BY <1>5, <1>6, <2>1, <3>1, <3>2
    <2> QED  BY <1>2, <1>7, <2>1 DEF Reading, Entry
  <1>10. AtStep(past, nodes, Top, TopStamp, step', file')
    BY <1>1, <1>2, <1>9, NextListed DEF AtStep
  <1> QED  BY <1>1, <1>8, <1>10, ContinuesKeeps

\* The blocks of a file were read, and are stored.
LEMMA StoreFileKeeps ==
  ASSUME Inv, UNCHANGED workspace, StoreFile
  PROVE  Inv'
  <1>1. /\ step = "read" /\ Len(file.read) = Blocks /\ step' = "restat"
        /\ UNCHANGED stack /\ file' = file /\ FileOK(file')
        /\ step' \in Steps \ {"changed", "reroot", "done"}
    BY DEF StoreFile, Inv, Steps
  <1>2. Reading(nodes, Top, file) /\ Top.todo # {}
    BY <1>1 DEF Inv, AtStep, Reading
  <1>3. AtStep(past, nodes, Top, TopStamp, step', file')
    BY <1>1, <1>2, NextListed DEF AtStep
  <1> QED  BY <1>1, <1>3, ContinuesKeeps

\* A function on the blocks is a sequence of them.
LEMMA BlocksAreASeq ==
  ASSUME NEW d \in [1 .. Blocks -> Nat]
  PROVE  d \in Seq(Nat) /\ Len(d) = Blocks
  BY BoundsAreNaturals

\* The open file is looked at again.
LEMMA RestatKeeps ==
  ASSUME Inv, UNCHANGED workspace, Restat
  PROVE  Inv'
  <1> DEFINE b == Top.before[Entry]
             d == nodes[b.inode].data
  <1>1. /\ step = "restat" /\ Reading(nodes, Top, file) /\ Len(file.read) = Blocks
        /\ FileOK(file) /\ Top.todo # {} /\ file.inode = b.inode
    BY DEF Restat, Inv, AtStep, Reading, Entry
  <1>2. CASE ~Same(file.inode) /\ Ends("changed")
    <2>1. ASSUME changes = 0 PROVE FALSE
      <3>1. Same(Current) /\ Current = b.inode
        BY <1>1, <2>1, NextListed, QuietEntry DEF Unchanged
      <3> QED  BY <1>1, <1>2, <3>1
    <2>2. changes \in Nat
      BY DEF Inv, Worlds
    <2> QED  BY <1>2, <2>1, <2>2, EndsKeeps
  <1>3. CASE Same(file.inode) /\ Continues("relook")
    <2>1. /\ step' = "relook" /\ UNCHANGED stack /\ file' = file /\ FileOK(file')
          /\ step' \in Steps \ {"changed", "reroot", "done"}
      BY <1>3 DEF Continues, Inv, Steps
    <2>2. /\ b.inode \in Inodes /\ nodes[b.inode].stamp = b.stamp
          /\ nodes[b.inode].kind = "file"
      BY <1>1, <1>3, SameInode, NextListed DEF Reading, Entry
    <2>3. d \in Seq(Nat) /\ Len(d) = Blocks
      BY <2>2, TopHas, NodeHas, BlocksAreASeq
    <2>4. file.read = d
      <3>1. file.read \in Seq(Nat)
        BY <1>1 DEF FileOK
      <3>2. \A k \in 1 .. Len(file.read) : file.read[k] = d[k]
        BY <1>1, <2>2 DEF Reading, Entry
      <3> HIDE DEF d
      <3> QED  BY <1>1, <2>3, <3>1, <3>2, SeqEqual
    <2>5. FileEntry(Len(file.read), Contents(file.inode, file.read)) = EntryOf(nodes, b.inode)
      BY <1>1, <2>2, <2>4 DEF EntryOf
    <2>6. Told(past, b, FileEntry(Len(file.read), Contents(file.inode, file.read)))
      BY <2>2, <2>5, TopHas DEF Told
    <2>7. AtStep(past, nodes, Top, TopStamp, step', file')
      BY <1>1, <2>1, <2>6, NextListed DEF AtStep, Entry
    <2> QED  BY <2>1, <2>7, ContinuesKeeps
  <1> QED  BY <1>2, <1>3 DEF Restat

\* The next entry is captured as a value that tells it.
LEMMA CapturedKeeps ==
  ASSUME Inv, UNCHANGED workspace, step \in {"relook", "relink"}, Top.todo # {},
         NEW value, Captured(value),
         Still(nodes, Top, TopStamp) => Told(past, Top.before[Entry], value)
  PROVE  Inv'
  <1> DEFINE K == With(Top.kids, Entry, value)
             f == [Top EXCEPT !.todo = Top.todo \ {Entry}, !.kids = K]
  <1>1. /\ Becomes(f) /\ file' = Closed /\ step' = "entry"
        /\ step' \in Steps \ {"changed", "reroot", "done"}
    BY DEF Captured, Steps
  <1>2. FileOK(file')
    <2>1. <<>> \in Seq(Nat) /\ Len(<<>>) = 0
      OBVIOUS
    <2> QED  BY <1>1, <2>1, InitialAssumption, BoundsAreNaturals DEF FileOK, Closed
  <1>3. /\ DOMAIN K = DOMAIN Top.kids \cup {Entry} /\ K[Entry] = value
        /\ \A m \in DOMAIN Top.kids : m # Entry => K[m] = Top.kids[m]
        /\ K = [m \in DOMAIN K |-> K[m]]
    BY DEF With
  <1>4. /\ f.dir = Top.dir /\ f.todo = Top.todo \ {Entry} /\ f.before = Top.before
        /\ f.after = Top.after /\ f.kids = K
        /\ f = [dir |-> f.dir, todo |-> f.todo, before |-> f.before, after |-> f.after,
                kids |-> f.kids]
    <2>1. SetsKids(Top, Top.todo \ {Entry}, K, f)
      BY DEF SetsKids
    <2> HIDE DEF f, K
    <2> QED  BY <2>1, TopHas, SetKids
  <1> HIDE DEF f, K
  <1>5. Entry \in DOMAIN Top.before /\ Entering(past, nodes, Top, TopStamp)
    BY NextListed
  <1>6. IsFrame(f)
    BY <1>3, <1>4, <1>5, TopHas DEF IsFrame
  <1>7. Proper(nodes, f, TopStamp)
    BY <1>4, <1>6, ProperFrame DEF Inv
  <1>8. Entering(past, nodes, f, TopStamp)
    <2>1. \A m \in DOMAIN K \ (Top.todo \ {Entry}) :
            m = Entry \/ (m \in DOMAIN Top.kids \ Top.todo /\ K[m] = Top.kids[m])
      BY <1>3
    <2> QED  BY <1>3, <1>4, <1>5, <2>1 DEF Entering, Still
  <1>9. AtStep(past, nodes, f, TopStamp, step', file')
    BY <1>1, <1>8 DEF AtStep
  <1> QED  BY <1>1, <1>2, <1>4, <1>7, <1>9, BecomesKeeps

\* The name of the file is looked at again.
LEMMA RelookKeeps ==
  ASSUME Inv, UNCHANGED workspace, Relook
  PROVE  Inv'
  <1>1. /\ step = "relook" /\ Top.todo # {}
        /\ Told(past, Top.before[Entry],
                FileEntry(Len(file.read), Contents(file.inode, file.read)))
    BY DEF Relook, Inv, AtStep, Reading, Entry
  <1>2. CASE ~Unchanged /\ Ends("changed")
    BY <1>1, <1>2, GoneKeeps
  <1>3. CASE Captured(FileEntry(Len(file.read), Contents(file.inode, file.read)))
    BY <1>1, <1>3, CapturedKeeps
  <1> QED  BY <1>2, <1>3 DEF Relook

\* The next entry is a link, and is read.
LEMMA ReadLinkKeeps ==
  ASSUME Inv, UNCHANGED workspace, ReadLink
  PROVE  Inv'
  <1>1. /\ step = "entry" /\ Top.todo # {}
        /\ nodes[Top.before[Entry].inode].kind = "link"
    BY DEF ReadLink, NextIs
  <1>2. CASE Gone
    BY <1>1, <1>2, GoneKeeps DEF Gone, Unchanged
  <1>3. CASE Ends("failed")
    BY <1>3, EndsKeeps
  <1>4. CASE /\ Here /\ nodes[Current].kind = "link"
             /\ file' = [inode |-> Current, read |-> nodes[Current].data]
             /\ step' = "relink" /\ UNCHANGED <<stack, stored>>
    <2>1. Current \in Inodes
      BY <1>4, TopHas DEF Here, Current
    <2>2. nodes[Current].data \in Seq(Nat) /\ Len(nodes[Current].data) = Blocks
      BY <1>4, <2>1, TopHas, NodeHas, BlocksAreASeq
    <2>3. FileOK(file')
      BY <1>4, <2>1, <2>2, BoundsAreNaturals DEF FileOK
    <2>4. Linking(nodes, Top, TopStamp, file')
      <3>1. Initial[Top.before[Entry].inode].kind = "link"
        BY <1>1, NextListed
      <3>2. Still(nodes, Top, TopStamp) => Current = Top.before[Entry].inode
        <4>1. Still(nodes, Top, TopStamp) => Agrees(Kids, Top.before)
          BY TopHas DEF Inv, Proper
        <4> QED  BY <1>1, <4>1, NextListed DEF Agrees, Current
      <3>3. file'.inode = Current /\ file'.read = nodes[Current].data
        BY <1>4
      <3> QED  BY <1>1, <3>1, <3>2, <3>3 DEF Linking, Entry
    <2>5. step' = "relink" /\ step' \in Steps \ {"changed", "reroot", "done"} /\ UNCHANGED stack
      BY <1>4 DEF Steps
    <2>6. AtStep(past, nodes, Top, TopStamp, step', file')
      BY <1>1, <2>4, <2>5, NextListed DEF AtStep
    <2> QED  BY <2>3, <2>5, <2>6, ContinuesKeeps
  <1> QED  BY <1>2, <1>3, <1>4 DEF ReadLink

\* The link is looked at again.
LEMMA RelinkKeeps ==
  ASSUME Inv, UNCHANGED workspace, Relink
  PROVE  Inv'
  <1>1. /\ step = "relink" /\ Top.todo # {} /\ Linking(nodes, Top, TopStamp, file)
    BY DEF Relink, Inv, AtStep, Linking
  <1>2. CASE ~Unchanged /\ Ends("changed")
    BY <1>1, <1>2, GoneKeeps
  <1>3. CASE Unchanged /\ Captured(LinkEntry(file.read))
    <2>1. /\ Current = Top.before[Entry].inode /\ Current \in Inodes
          /\ nodes[Current].stamp = Top.before[Entry].stamp
      BY <1>1, <1>3, SameInode DEF Unchanged
    <2>2. nodes[Current].kind = "link"
      BY <1>1, <2>1, NextListed DEF Linking, Entry
    <2>3. ASSUME Still(nodes, Top, TopStamp)
          PROVE  Told(past, Top.before[Entry], LinkEntry(file.read))
      <3>1. file.read = nodes[Current].data
        BY <1>1, <2>1, <2>3 DEF Linking, Entry
      <3>2. LinkEntry(file.read) = EntryOf(nodes, Current)
        BY <2>2, <3>1 DEF EntryOf
      <3> QED  BY <2>1, <2>2, <3>2, TopHas DEF Told
    <2> QED  BY <1>1, <1>3, <2>3, CapturedKeeps
  <1> QED  BY <1>2, <1>3 DEF Relink

---------------------------------------------------------------------------
(* The theorems.                                                           *)

\* Every step of the capture keeps the invariant.
LEMMA CaptureKeeps ==
  ASSUME Inv, Capture
  PROVE  Inv'
  <1>1. UNCHANGED workspace
    BY DEF Capture
  <1>2. ASSUME Refuse \/ Fails PROVE Inv'
    BY <1>1, <1>2, EndsKeeps DEF Refuse, Fails
  <1> QED  BY <1>1, <1>2, ReadDirKeeps, LstatKeeps, ListedKeeps, EntriesDoneKeeps, RelistedKeeps,
              RedirKeeps, RerootKeeps, OpenDirKeeps, OpenFileKeeps, ReadKeeps, StoreFileKeeps,
              RestatKeeps, RelookKeeps, ReadLinkKeeps, RelinkKeeps DEF Capture

\* So does every change by another process.
LEMMA OthersKeep ==
  ASSUME Inv, Others
  PROVE  Inv'
  <1>1. nodes \in [Inodes -> Nodes] /\ changes \in Nat
    BY DEF Inv, Worlds
  <1>2. /\ nodes' \in [Inodes -> Nodes] /\ changes < MaxChanges
        /\ changes' = changes + 1 /\ past' = past \cup {nodes'}
        /\ ~Finished /\ UNCHANGED <<stack, step, file, stored>>
    BY <1>1, OthersChange
  <1>3. Worlds(past', nodes', changes') /\ After(nodes, nodes') /\ past \subseteq past'
    <2>1. /\ \A i \in Inodes : \/ nodes'[i] = nodes[i]
                               \/ nodes'[i].stamp = changes + 1 /\ nodes'[i].kind = nodes[i].kind
          /\ \E i \in Inodes : nodes'[i].stamp = changes + 1
      BY <1>1, OthersChange
    <2> QED  BY <1>2, <2>1, ChangesGrow DEF Inv
  <1>4. Top' = Top /\ TopStamp' = TopStamp
    BY <1>2 DEF Top, TopStamp
  <1>5. Nested(past', nodes', stack')
    BY <1>2, <1>3, NestedStays DEF Inv
  <1>6. Proper(nodes', Top, TopStamp)
    BY <1>3, ProperStays DEF Inv
  <1>7. AtStep(past', nodes', Top, TopStamp, step, file)
    BY <1>2, <1>3, AtStepStays DEF Inv, Finished
  <1>8. changes' <= MaxChanges
    BY <1>1, <1>2, BoundsAreNaturals
  <1>9. step' = "changed" => changes' > 0
    BY <1>2 DEF Finished
  <1> QED  BY <1>2, <1>3, <1>4, <1>5, <1>6, <1>7, <1>8, <1>9 DEF Inv

\* The invariant is inductive: each step of the capture and each change of the workspace
\* keeps what the frames, the listings and the open file say of the workspaces so far.
THEOREM Invariant == Spec => []Inv
  <1>1. Init => Inv
    <2> SUFFICES ASSUME Init PROVE Inv
      OBVIOUS
    <2>1. /\ nodes = Initial /\ changes = 0 /\ past = {Initial}
          /\ stack = <<Frame(Root)>> /\ step = "list" /\ file = Closed
      BY DEF Init
    <2>2. Worlds(past, nodes, changes)
      BY <2>1, InitialAssumption DEF Worlds
    <2>3. /\ Nested(past, nodes, stack) /\ Len(stack) = 1 /\ stack[1] = Frame(Root)
          /\ StampOf(stack, 1) = 0 /\ Proper(nodes, Frame(Root), 0)
      BY <2>1, <2>2, SingleFrame
    <2>4. Top = Frame(Root) /\ TopStamp = 0
      BY <2>3 DEF Top, TopStamp
    <2>5. FileOK(file)
      <3>1. <<>> \in Seq(Nat) /\ Len(<<>>) = 0
        OBVIOUS
      <3> QED  BY <2>1, <3>1, InitialAssumption, BoundsAreNaturals DEF FileOK, Closed
    <2>6. AtStep(past, nodes, Frame(Root), 0, step, file)
      BY <2>1 DEF AtStep, Frame
    <2> QED  BY <2>1, <2>2, <2>3, <2>4, <2>5, <2>6, BoundsAreNaturals DEF Inv, Steps
  <1>2. Inv /\ [Next]_vars => Inv'
    <2> SUFFICES ASSUME Inv, [Next]_vars PROVE Inv'
      OBVIOUS
    <2>1. CASE Capture
      BY <2>1, CaptureKeeps
    <2>2. CASE Others
      BY <2>2, OthersKeep
    <2>3. CASE UNCHANGED vars
      <3>1. /\ nodes' = nodes /\ changes' = changes /\ past' = past /\ stack' = stack
            /\ step' = step /\ file' = file
        BY <2>3 DEF vars
      <3>2. Top' = Top /\ TopStamp' = TopStamp
        BY <3>1 DEF Top, TopStamp
      <3> QED  BY <3>1, <3>2 DEF Inv
    <2> QED  BY <2>1, <2>2, <2>3 DEF Next
  <1> QED  BY <1>1, <1>2, PTL DEF Spec

\* Every variable of the capture has its type in every reachable state.
THEOREM TypeCorrect == Spec => []TypeOK
  <1>1. Inv => TypeOK
    <2> SUFFICES ASSUME Inv PROVE TypeOK
      OBVIOUS
    <2>1. ASSUME NEW k \in 1 .. Len(stack)
          PROVE  IsFrame(stack[k])
      <3>1. CASE k = Len(stack)
        BY <3>1, TopHas DEF Top
      <3>2. CASE k # Len(stack)
        <4>1. k \in 1 .. Len(stack) - 1
          BY <3>2, TopHas
        <4> QED  BY <4>1 DEF Inv, Nested, Waits, Proper
      <3> QED  BY <3>1, <3>2
    <2>2. \A k \in DOMAIN stack :
            /\ nodes[stack[k].dir].kind = "dir"
            /\ stack[k].todo \subseteq Names
            /\ DOMAIN stack[k].kids \subseteq DOMAIN stack[k].before
      BY <2>1, TopHas DEF IsFrame
    <2>3. changes \in 0 .. MaxChanges /\ \A i \in Inodes : nodes[i].stamp <= changes
      BY BoundsAreNaturals DEF Inv, Worlds
    <2> QED  BY <2>2, <2>3, TopHas DEF TypeOK, Inv, Nested, FileOK
  <1> QED  BY <1>1, Invariant, PTL

\* A capture reports that the workspace changed only if somebody changed it.
THEOREM QuietIsCaptured == Spec => []NoFalseAlarm
  <1>1. Inv => NoFalseAlarm
    <2> SUFFICES ASSUME Inv, step = "changed" PROVE nodes # Initial
      BY DEF NoFalseAlarm
    <2>1. PICK i \in Inodes : nodes[i].stamp = changes
      BY DEF Inv, Worlds
    <2> QED  BY <2>1, InitialAssumption DEF Inv
  <1> QED  BY <1>1, Invariant, PTL

\* Every directory of a published snapshot was at one instant, at its path, what the
\* snapshot tells of it, whatever others did during the capture.
THEOREM DirectoriesWereSo == Spec => []DirectoriesAreInstants
  <1>1. Inv => DirectoriesAreInstants
    <2> SUFFICES ASSUME Inv, step = "done"
                 PROVE  /\ \E w \in past : ListingAt(w, Root) = Listing(Snap)
                        /\ \A n \in DOMAIN Snap.entries : Snap.entries[n].kind = "dir" =>
                             \E w \in past :
                                /\ n \in DOMAIN w[Root].kids /\ w[w[Root].kids[n]].kind = "dir"
                                /\ ListingAt(w, w[Root].kids[n])
                                     = Listing(Snap.entries[n].object)
      BY DEF DirectoriesAreInstants
    <2>1. /\ Top.dir = Root /\ Still(nodes, Top, TopStamp)
          /\ Kept(past, Root, TopStamp, Snap) /\ Complete(past, nodes, Top, TopStamp)
      BY DEF Inv, AtStep, Snap
    <2>2. \E w \in past : ListingAt(w, Root) = Listing(Snap)
      BY <2>1 DEF Kept
    <2>3. Snap.entries = Top.kids
      BY DEF Snap, Tree
    <2>4. ASSUME NEW n \in DOMAIN Top.kids, Top.kids[n].kind = "dir"
          PROVE  \E w \in past :
                   /\ n \in DOMAIN w[Root].kids /\ w[w[Root].kids[n]].kind = "dir"
                   /\ ListingAt(w, w[Root].kids[n]) = Listing(Top.kids[n].object)
      <3> DEFINE b == Top.before[n]
      <3>1. n \in DOMAIN Top.before /\ b.inode \in Inodes
        BY TopHas, ListingHas
      <3>2. n \in DOMAIN nodes[Root].kids /\ nodes[Root].kids[n] = b.inode
        BY <2>1, <3>1, TopHas DEF Inv, Proper, Agrees, KidsOf
      <3>3. PICK w \in past :
              /\ w[b.inode].stamp = b.stamp
              /\ IF w[b.inode].kind = "dir"
                 THEN Top.kids[n].kind = "dir"
                      /\ ListingAt(w, b.inode) = Listing(Top.kids[n].object)
                 ELSE Top.kids[n] = EntryOf(w, b.inode)
        BY <2>1 DEF Complete, Told
      <3>4. w[Root] = nodes[Root]
        <4>1. TopStamp = 0 /\ nodes[Root].stamp = 0
          BY <2>1, TopHas DEF Inv, TopStamp, StampOf, Still
        <4>2. w[Root].stamp <= nodes[Root].stamp /\ w[Root].stamp \in Nat
          BY InitialAssumption, NodeHas DEF Inv, Worlds
        <4>3. w[Root].stamp = nodes[Root].stamp
          BY <4>1, <4>2
        <4> QED  BY <4>3, InitialAssumption DEF Inv, Worlds
      <3>5. w[b.inode].kind = "dir"
        <4>1. CASE w[b.inode].kind = "file"
          BY <2>4, <3>3, <4>1 DEF EntryOf, FileEntry
        <4>2. CASE w[b.inode].kind = "link"
          BY <2>4, <3>3, <4>2 DEF EntryOf, LinkEntry
        <4>3. CASE w[b.inode].kind \notin {"file", "link"}
          BY <2>4, <3>3, <4>3 DEF EntryOf
        <4> QED  BY <4>1, <4>2, <4>3
      <3> QED  BY <3>2, <3>3, <3>4, <3>5
    <2> QED  BY <2>2, <2>3, <2>4
  <1> QED  BY <1>1, Invariant, PTL

---------------------------------------------------------------------------
(* What was stored is whole, at every moment of a capture.                 *)

\* What an entry says is there, with the kind and the size that it says.
Whole(cas, e) ==
    /\ e.object \in cas
    /\ CASE e.kind = "dir"     -> e.object.kind = "tree"
         [] e.kind = "symlink" -> e.object.kind = "link" /\ Len(e.object.data) = e.size
         [] e.kind = "file"    ->
              \/ e.object.kind = "blob" /\ Len(e.object.data) = e.size
              \/ /\ e.object.kind = "chunk_list" /\ DOMAIN e.object.chunks = 1 .. e.size
                 /\ \A b \in 1 .. e.size : Len(e.object.chunks[b].data) = 1
         [] OTHER              -> FALSE

\* What an object refers to is there.
Refers(cas, o) ==
    /\ o.kind = "chunk_list" =>
         \A b \in DOMAIN o.chunks : o.chunks[b] \in cas /\ o.chunks[b].kind = "blob"
    /\ o.kind = "tree" => \A n \in DOMAIN o.entries : Whole(cas, o.entries[n])

\* Nothing that is stored refers to what is not stored or is of another kind or size, and
\* a state that is about to be published is stored.
StoredIsClosed ==
    /\ \A o \in stored : Refers(stored, o)
    /\ step \in {"reroot", "done"} => Tree(Top.kids) \in stored

\* What was captured in the frames of a stack is there.
WholeFrames(cas, stk) ==
    \A k \in DOMAIN stk : \A n \in DOMAIN stk[k].kids : Whole(cas, stk[k].kids[n])

\* The same, with the frames and with what was read of an open file.
Closure ==
    /\ StoredIsClosed
    /\ WholeFrames(stored, stack)
    /\ step = "read" /\ file.inode \in Large =>
         \A b \in 1 .. Len(file.read) : Blob(<<file.read[b]>>) \in stored
    /\ step \in {"restat", "relook"} => Contents(file.inode, file.read) \in stored

\* More objects leave what an entry says as it is.
LEMMA StaysWhole ==
  ASSUME NEW cas, NEW more, cas \subseteq more, NEW e, Whole(cas, e)
  PROVE  Whole(more, e)
  BY DEF Whole

\* An object whose references are there is added.
LEMMA ClosedGrows ==
  ASSUME NEW cas, \A o \in cas : Refers(cas, o), NEW o, Refers(cas, o)
  PROVE  \A p \in cas \cup {o} : Refers(cas \cup {o}, p)
  <1> SUFFICES ASSUME NEW p \in cas \cup {o} PROVE Refers(cas \cup {o}, p)
    OBVIOUS
  <1>1. Refers(cas, p)
    OBVIOUS
  <1>2. ASSUME NEW n \in DOMAIN p.entries, p.kind = "tree"
        PROVE  Whole(cas \cup {o}, p.entries[n])
    <2>1. Whole(cas, p.entries[n])
      BY <1>1, <1>2 DEF Refers
    <2> QED  BY <2>1, StaysWhole
  <1> QED  BY <1>1, <1>2 DEF Refers

\* Frames stay whole with more objects.
LEMMA FramesStay ==
  ASSUME NEW cas, NEW more, cas \subseteq more, NEW stk, WholeFrames(cas, stk)
  PROVE  WholeFrames(more, stk)
  BY StaysWhole DEF WholeFrames

\* Blobs, links, lists of chunks and trees refer to what they hold.
LEMMA PlainRefers ==
  ASSUME NEW cas, NEW data
  PROVE  Refers(cas, Blob(data)) /\ Refers(cas, Target(data))
  BY DEF Refers, Blob, Target

\* A tree of entries that are there.
LEMMA TreeRefers ==
  ASSUME NEW cas, NEW kids, \A n \in DOMAIN kids : Whole(cas, kids[n])
  PROVE  Refers(cas, Tree(kids))
  BY DEF Refers, Tree

\* The contents of a file that was read, when its chunks are there if it is large.
LEMMA ContentsRefer ==
  ASSUME NEW cas, NEW i, NEW data \in Seq(Nat),
         i \in Large => \A b \in 1 .. Len(data) : Blob(<<data[b]>>) \in cas
  PROVE  Refers(cas, Contents(i, data))
  <1>1. CASE i \in Large
    <2> DEFINE q == [b \in DOMAIN data |-> Blob(<<data[b]>>)]
    <2>1. DOMAIN data = 1 .. Len(data)
      BY LenProperties
    <2>2. \A b \in DOMAIN q : q[b] \in cas /\ q[b].kind = "blob"
      BY <1>1, <2>1 DEF Blob
    <2>3. Contents(i, data) = ChunkList(q)
      BY <1>1 DEF Contents
    <2> HIDE DEF q
    <2> QED  BY <2>2, <2>3 DEF Refers, ChunkList
  <1>2. CASE i \notin Large
    BY <1>2, PlainRefers DEF Contents
  <1> QED  BY <1>1, <1>2

\* The entry of a file whose contents are there.
LEMMA FileIsWhole ==
  ASSUME NEW cas, NEW i, NEW data \in Seq(Nat), Contents(i, data) \in cas
  PROVE  Whole(cas, FileEntry(Len(data), Contents(i, data)))
  <1> DEFINE o == Contents(i, data)
             e == FileEntry(Len(data), o)
  <1>1. DOMAIN data = 1 .. Len(data) /\ Len(data) \in Nat
    BY LenProperties
  <1>2. e.kind = "file" /\ e.size = Len(data) /\ e.object = o
    BY DEF FileEntry
  <1>3. CASE i \in Large
    <2> DEFINE q == [b \in DOMAIN data |-> Blob(<<data[b]>>)]
    <2>1. DOMAIN q = 1 .. Len(data)
      BY <1>1
    <2>2. ASSUME NEW b \in 1 .. Len(data) PROVE Len(q[b].data) = 1
      <3>1. q[b] = Blob(<<data[b]>>)
        BY <1>1
      <3> HIDE DEF q
      <3>2. q[b].data = <<data[b]>>
        BY <3>1 DEF Blob
      <3> QED  BY <3>2
    <2>3. o = ChunkList(q)
      BY <1>3 DEF Contents
    <2> HIDE DEF q
    <2>4. o.kind = "chunk_list" /\ o.chunks = q
      BY <2>3 DEF ChunkList
    <2> HIDE DEF o, e
    <2>5. /\ e.object.kind = "chunk_list" /\ DOMAIN e.object.chunks = 1 .. e.size
          /\ \A b \in 1 .. e.size : Len(e.object.chunks[b].data) = 1
      BY <1>2, <2>1, <2>2, <2>4
    <2> QED  BY <1>2, <2>5 DEF Whole, e, o
  <1>4. CASE i \notin Large
    <2>1. o.kind = "blob" /\ o.data = data
      BY <1>4 DEF Contents, Blob
    <2> HIDE DEF o, e
    <2> QED  BY <1>2, <2>1 DEF Whole, e, o
  <1> QED  BY <1>3, <1>4

\* The entries of a link and of a directory that are there.
LEMMA LinkIsWhole ==
  ASSUME NEW cas, NEW data, Target(data) \in cas
  PROVE  Whole(cas, LinkEntry(data))
  BY DEF Whole, LinkEntry, Target

LEMMA DirIsWhole ==
  ASSUME NEW cas, NEW kids, Tree(kids) \in cas
  PROVE  Whole(cas, DirEntry(Tree(kids)))
  BY DEF Whole, DirEntry, Tree

---------------------------------------------------------------------------
(* Every step of a capture keeps what was stored whole.                    *)

\* What was captured in the innermost frame is there.
LEMMA TopIsWhole ==
  ASSUME Inv, Closure
  PROVE  \A n \in DOMAIN Top.kids : Whole(stored, Top.kids[n])
  <1>1. Len(stack) \in DOMAIN stack
    BY TopHas
  <1> QED  BY <1>1 DEF Closure, WholeFrames, Top

\* A capture that fails leaves what it stored.
LEMMA EndsCloses ==
  ASSUME Closure, NEW how \in {"changed", "failed"}, Ends(how)
  PROVE  Closure'
  <1> DEFINE t == <<Frame(Root)>>
  <1>1. step' \in {"changed", "failed"} /\ stack' = t /\ stored' = stored
    BY DEF Ends
  <1>2. DOMAIN t = {1} /\ t[1].kids = Empty
    BY DEF Frame
  <1>3. DOMAIN Empty = {}
    BY DEF Empty
  <1> HIDE DEF t
  <1>4. WholeFrames(stored, t)
    BY <1>2, <1>3 DEF WholeFrames
  <1> QED  BY <1>1, <1>4 DEF Closure, StoredIsClosed

\* The innermost frame becomes one whose entries are there.
LEMMA FrameBecomes ==
  ASSUME Inv, Closure, NEW f, Becomes(f), f.dir = Top.dir,
         stored \subseteq stored', \A n \in DOMAIN f.kids : Whole(stored', f.kids[n])
  PROVE  WholeFrames(stored', stack') /\ Top' = f
  <1>1. IsEdited(stack, f, stack') /\ f.dir = stack[Len(stack)].dir
    BY DEF Becomes, IsEdited, Top
  <1>2. Nested(past, nodes, stack') /\ Len(stack') = Len(stack) /\ stack'[Len(stack')] = f
    BY <1>1, Replaced DEF Inv
  <1>3. DOMAIN stack' = DOMAIN stack
    BY <1>2, StackHas, TopHas
  <1>4. \A k \in DOMAIN stack : k # Len(stack) => stack'[k] = stack[k]
    BY <1>1 DEF IsEdited
  <1>5. WholeFrames(stored', stack)
    BY FramesStay DEF Closure
  <1> QED  BY <1>2, <1>3, <1>4, <1>5 DEF WholeFrames, Top

\* The innermost frame is given another listing or another next entry.
LEMMA BecomesCloses ==
  ASSUME Inv, Closure, NEW f, Becomes(f), f.dir = Top.dir, f.kids = Top.kids,
         UNCHANGED stored, step' \notin {"read", "restat", "relook", "reroot", "done"}
  PROVE  Closure'
  <1>1. WholeFrames(stored', stack')
    BY FrameBecomes, TopIsWhole
  <1>2. \A o \in stored' : Refers(stored', o)
    BY DEF Closure, StoredIsClosed
  <1> QED  BY <1>1, <1>2 DEF Closure, StoredIsClosed

\* The names of a directory are read.
LEMMA ReadDirCloses ==
  ASSUME Inv, Closure, ReadDir
  PROVE  Closure'
  <1> DEFINE f == [Top EXCEPT !.todo = DOMAIN Kids]
  <1>1. SetsTodo(Top, DOMAIN Kids, f)
    BY DEF SetsTodo
  <1>2. Becomes(f) /\ UNCHANGED stored /\ step' \in {"lstat", "relstat"}
    BY DEF ReadDir
  <1> HIDE DEF f
  <1>3. f.dir = Top.dir /\ f.kids = Top.kids
    BY <1>1, TopHas, SetTodo
  <1> QED  BY <1>2, <1>3, BecomesCloses

\* The next name is listed.
LEMMA LstatCloses ==
  ASSUME Inv, Closure, Lstat
  PROVE  Closure'
  <1> DEFINE T == Top.todo \ {Entry}
             B == With(Top.before, Entry, Info(Current))
             A == With(Top.after, Entry, Info(Current))
             f == [Top EXCEPT !.todo = T, !.before = B]
             g == [Top EXCEPT !.todo = T, !.after = A]
  <1>1. CASE Ends("changed")
    BY <1>1, EndsCloses
  <1>2. CASE Becomes(f) /\ UNCHANGED <<step, stored>> /\ step = "lstat"
    <2>1. SetsBefore(Top, T, B, f)
      BY DEF SetsBefore
    <2>2. Becomes(f) /\ UNCHANGED stored /\ step' = "lstat"
      BY <1>2
    <2> HIDE DEF f, T, B
    <2>3. f.dir = Top.dir /\ f.kids = Top.kids
      BY <2>1, TopHas, SetBefore
    <2> QED  BY <2>2, <2>3, BecomesCloses
  <1>3. CASE Becomes(g) /\ UNCHANGED <<step, stored>> /\ step = "relstat"
    <2>1. SetsAfter(Top, T, A, g)
      BY DEF SetsAfter
    <2>2. Becomes(g) /\ UNCHANGED stored /\ step' = "relstat"
      BY <1>3
    <2> HIDE DEF g, T, A
    <2>3. g.dir = Top.dir /\ g.kids = Top.kids
      BY <2>1, TopHas, SetAfter
    <2> QED  BY <2>2, <2>3, BecomesCloses
  <1> QED  BY <1>1, <1>2, <1>3 DEF Lstat

\* All names are listed, and their entries come next.
LEMMA ListedCloses ==
  ASSUME Inv, Closure, Listed
  PROVE  Closure'
  <1> DEFINE f == [Top EXCEPT !.todo = DOMAIN Top.before]
  <1>1. SetsTodo(Top, DOMAIN Top.before, f)
    BY DEF SetsTodo
  <1>2. Becomes(f) /\ UNCHANGED stored /\ step' = "entry"
    BY DEF Listed
  <1> HIDE DEF f
  <1>3. f.dir = Top.dir /\ f.kids = Top.kids
    BY <1>1, TopHas, SetTodo
  <1> QED  BY <1>2, <1>3, BecomesCloses

\* The tree of a directory is stored when all its entries are.
LEMMA RelistedCloses ==
  ASSUME Inv, Closure, Relisted
  PROVE  Closure'
  <1> DEFINE tree == Tree(Top.kids)
             more == stored \cup {tree}
  <1>1. CASE Ends("changed")
    BY <1>1, EndsCloses
  <1>2. \A o \in more : Refers(more, o)
    <2>1. Refers(stored, tree)
      BY TopIsWhole, TreeRefers
    <2> QED  BY <2>1, ClosedGrows DEF Closure, StoredIsClosed
  <1>3. WholeFrames(more, stack) /\ tree \in more
    <2>1. stored \subseteq more /\ WholeFrames(stored, stack)
      BY DEF Closure
    <2> QED  BY <2>1, FramesStay
  <1>4. CASE Stores(tree) /\ step' = "reroot" /\ UNCHANGED <<stack, file>>
    <2>1. stored' = more /\ Top' = Top /\ stack' = stack
      BY <1>4 DEF Stores, Top
    <2> QED  BY <1>2, <1>3, <1>4, <2>1 DEF Closure, StoredIsClosed
  <1>5. CASE /\ Len(stack) > 1 /\ Stores(tree)
             /\ stack' = [SubSeq(stack, 1, Len(stack) - 1) EXCEPT ![Len(stack) - 1].kids =
                            With(@, Min(stack[Len(stack) - 1].todo), DirEntry(tree))]
             /\ step' = "redir" /\ UNCHANGED file
    <2> DEFINE len == Len(stack) - 1
               u == SubSeq(stack, 1, len)
               n == Min(stack[len].todo)
               K == With(u[len].kids, n, DirEntry(tree))
               f == [u[len] EXCEPT !.kids = K]
    <2>1. len \in Nat \ {0} /\ len \in 1 .. len /\ Len(stack) \in Nat \ {0}
          /\ DOMAIN stack = 1 .. Len(stack)
      BY <1>5, TopHas
    <2>2. Len(u) = len /\ DOMAIN u = 1 .. len /\ \A k \in 1 .. len : u[k] = stack[k]
      <3>1. \A i \in 1 .. len : stack[i] \in Range(stack)
        BY <2>1, StackHas DEF Inv
      <3>2. u \in Seq(Range(stack)) /\ Len(u) = len /\ \A i \in 1 .. len : u[i] = stack[i]
        BY <2>1, <3>1, SubSeqProperties
      <3> QED  BY <3>2, LenProperties
    <2>3. stack' = [u EXCEPT ![len] = f]
      BY <1>5
    <2>4. IsFrame(stack[len])
      <3>1. len \in 1 .. Len(stack) - 1
        BY <2>1
      <3> QED  BY <3>1 DEF Inv, Nested, Waits, Proper
    <2>5. f.kids = K
      <3>1. u[len] = stack[len]
        BY <2>1, <2>2
      <3> HIDE DEF u, len, K
      <3> QED  BY <2>4, <3>1 DEF IsFrame
    <2> HIDE DEF f
    <2>6. /\ DOMAIN stack' = 1 .. len /\ stack'[len] = f
          /\ \A k \in 1 .. len : k # len => stack'[k] = stack[k]
      <3> HIDE DEF u, len
      <3> QED  BY <2>1, <2>2, <2>3
    <2>7. /\ DOMAIN K = DOMAIN u[len].kids \cup {n} /\ K[n] = DirEntry(tree)
          /\ \A m \in DOMAIN u[len].kids : m # n => K[m] = u[len].kids[m]
      <3> HIDE DEF u, len, n, tree
      <3> QED  BY DEF With
    <2>8. Whole(more, DirEntry(tree))
      BY <1>3, DirIsWhole
    <2>9. \A m \in DOMAIN K : Whole(more, K[m])
      <3>1. u[len] = stack[len] /\ len \in DOMAIN stack
        BY <2>1, <2>2
      <3> HIDE DEF u, len, n, K, more, tree
      <3>2. \A m \in DOMAIN u[len].kids : Whole(more, u[len].kids[m])
        BY <1>3, <3>1 DEF WholeFrames
      <3> QED  BY <2>7, <2>8, <3>2
    <2>10. \A k \in DOMAIN stack' : k # len => k \in DOMAIN stack
      <3>1. len < Len(stack) /\ len \in Nat /\ Len(stack) \in Nat
        BY <2>1
      <3> HIDE DEF len
      <3> QED  BY <2>1, <2>6, <3>1
    <2>11. WholeFrames(more, stack')
      <3> HIDE DEF u, len, n, K, more, tree
      <3> QED  BY <1>3, <2>5, <2>6, <2>9, <2>10 DEF WholeFrames
    <2>12. stored' = more /\ step' = "redir"
      BY <1>5 DEF Stores
    <2> QED  BY <1>2, <2>11, <2>12 DEF Closure, StoredIsClosed
  <1> QED  BY <1>1, <1>4, <1>5 DEF Relisted

\* The directory above looks at the captured one again.
LEMMA RedirCloses ==
  ASSUME Inv, Closure, Redir
  PROVE  Closure'
  <1> DEFINE f == [Top EXCEPT !.todo = Top.todo \ {Entry}]
  <1>1. CASE Ends("changed")
    BY <1>1, EndsCloses
  <1>2. CASE Becomes(f) /\ step' = "entry" /\ UNCHANGED <<file, stored>>
    <2>1. SetsTodo(Top, Top.todo \ {Entry}, f)
      BY DEF SetsTodo
    <2>2. Becomes(f) /\ UNCHANGED stored /\ step' = "entry"
      BY <1>2
    <2> HIDE DEF f
    <2>3. f.dir = Top.dir /\ f.kids = Top.kids
      BY <2>1, TopHas, SetTodo
    <2> QED  BY <2>2, <2>3, BecomesCloses
  <1> QED  BY <1>1, <1>2 DEF Redir

\* The root is looked at again, with its tree in the store.
LEMMA RerootCloses ==
  ASSUME Closure, Reroot
  PROVE  Closure'
  <1>1. CASE Ends("changed")
    BY <1>1, EndsCloses
  <1>2. CASE step = "reroot" /\ Continues("done")
    <2>1. Top' = Top /\ stored' = stored /\ stack' = stack /\ step' = "done"
      BY <1>2 DEF Continues, Top
    <2> QED  BY <1>2, <2>1 DEF Closure, StoredIsClosed
  <1> QED  BY <1>1, <1>2 DEF Reroot

\* All entries are captured, and the second listing begins.
LEMMA EntriesDoneCloses ==
  ASSUME Closure, EntriesDone
  PROVE  Closure'
  <1>1. Top' = Top /\ stored' = stored /\ stack' = stack /\ step' = "relist"
    BY DEF EntriesDone, Continues, Top
  <1> QED  BY <1>1 DEF Closure, StoredIsClosed

\* A directory is entered, of which nothing is captured.
LEMMA OpenDirCloses ==
  ASSUME Inv, Closure, OpenDir
  PROVE  Closure'
  <1>1. CASE Ends("changed") \/ Ends("failed")
    BY <1>1, EndsCloses
  <1>2. ASSUME NEW i, stack' = Append(stack, Frame(i)), step' = "list", UNCHANGED stored
        PROVE  Closure'
    <2>1. /\ DOMAIN stack' = 1 .. Len(stack) + 1 /\ stack'[Len(stack) + 1] = Frame(i)
          /\ \A k \in 1 .. Len(stack) : stack'[k] = stack[k]
          /\ Len(stack) \in Nat /\ DOMAIN stack = 1 .. Len(stack)
      <3> DEFINE S == Range(stack) \cup {Frame(i)}
      <3>1. stack \in Seq(Range(stack)) /\ Range(stack) \subseteq S
        BY DEF Inv, Nested
      <3>2. stack \in Seq(S) /\ Frame(i) \in S
        BY <3>1, SeqMonotonic
      <3> HIDE DEF S
      <3>3. Len(stack) \in Nat /\ DOMAIN stack = 1 .. Len(stack)
        BY TopHas
      <3> QED  BY <1>2, <3>2, <3>3, AppendProperties, LenProperties
    <2>2. DOMAIN Frame(i).kids = {}
      BY DEF Frame, Empty
    <2>3. \A k \in DOMAIN stack' : k = Len(stack) + 1 \/ k \in DOMAIN stack
      BY <2>1
    <2>4. WholeFrames(stored, stack')
      BY <2>1, <2>2, <2>3 DEF Closure, WholeFrames
    <2> QED  BY <1>2, <2>4 DEF Closure, StoredIsClosed
  <1> QED  BY <1>1, <1>2 DEF OpenDir, Gone

\* A file is opened, of which nothing is read.
LEMMA OpenFileCloses ==
  ASSUME Inv, Closure, OpenFile
  PROVE  Closure'
  <1>1. CASE Ends("changed")
    BY <1>1, EndsCloses
  <1>2. ASSUME NEW i, file' = [inode |-> i, read |-> <<>>], step' = "read",
               UNCHANGED <<stack, stored>>
        PROVE  Closure'
    <2>1. file'.read = <<>> /\ Len(<<>>) = 0
      BY <1>2
    <2>2. \A b \in 1 .. Len(file'.read) : Blob(<<file'.read[b]>>) \in stored
      BY <2>1
    <2> QED  BY <1>2, <2>2 DEF Closure, StoredIsClosed
  <1> QED  BY <1>1, <1>2 DEF OpenFile, Gone

\* A block is read; of a large file it is a chunk, and is stored.
LEMMA ReadCloses ==
  ASSUME Inv, Closure, UNCHANGED workspace, Read
  PROVE  Closure'
  <1> DEFINE len == Len(file.read)
             block == nodes[file.inode].data[len + 1]
             read == Append(file.read, block)
             chunk == Blob(<<block>>)
  <1>1. /\ step = "read" /\ step' = "read" /\ UNCHANGED stack
        /\ file' = [file EXCEPT !.read = read]
    BY DEF Read
  <1>2. file.read \in Seq(Nat) /\ file = [inode |-> file.inode, read |-> file.read]
    BY DEF Inv, FileOK
  <1>3. IF file.inode \in Large THEN stored' = stored \cup {chunk} ELSE stored' = stored
    BY DEF Read, Stores
  <1>4. \A o \in stored' : Refers(stored', o)
    <2>1. Refers(stored, chunk)
      BY PlainRefers
    <2> HIDE DEF chunk
    <2> QED  BY <1>3, <2>1, ClosedGrows DEF Closure, StoredIsClosed
  <1>5. WholeFrames(stored', stack')
    <2>1. stored \subseteq stored'
      BY <1>3
    <2> QED  BY <1>1, <2>1, FramesStay DEF Closure
  <1>6. file'.inode = file.inode /\ file'.read = read
    <2> HIDE DEF read
    <2> QED  BY <1>1, <1>2
  <1>7. ASSUME file.inode \in Large, NEW b \in 1 .. Len(read)
        PROVE  Blob(<<read[b]>>) \in stored'
    <2>1. /\ len \in Nat /\ Len(read) = len + 1 /\ read[len + 1] = block
          /\ \A k \in 1 .. len : read[k] = file.read[k]
      <3> DEFINE S == Nat \cup {block}
      <3>1. file.read \in Seq(S) /\ block \in S
        BY <1>2, SeqMonotonic
      <3> HIDE DEF S, block
      <3> QED  BY <3>1, AppendProperties, LenProperties
    <2> HIDE DEF read, block, len
    <2>2. CASE b = len + 1
      BY <1>3, <1>7, <2>1, <2>2
    <2>3. CASE b \in 1 .. len
      <3>1. Blob(<<file.read[b]>>) \in stored
        BY <1>1, <1>7, <2>3 DEF Closure, len
      <3> QED  BY <1>3, <1>7, <2>1, <2>3, <3>1
    <2> QED  BY <1>7, <2>1, <2>2, <2>3
  <1> QED  BY <1>1, <1>4, <1>5, <1>6, <1>7 DEF Closure, StoredIsClosed

\* All blocks are read, and the contents stored.
LEMMA StoreFileCloses ==
  ASSUME Inv, Closure, StoreFile
  PROVE  Closure'
  <1> DEFINE o == Contents(file.inode, file.read)
             more == stored \cup {o}
  <1>1. /\ step = "read" /\ step' = "restat" /\ stored' = more
        /\ UNCHANGED <<stack, file>> /\ file.read \in Seq(Nat)
    BY DEF StoreFile, Stores, Inv, FileOK
  <1>2. Refers(stored, o)
    BY <1>1, ContentsRefer DEF Closure
  <1>3. \A p \in more : Refers(more, p)
    <2> HIDE DEF o
    <2> QED  BY <1>2, ClosedGrows DEF Closure, StoredIsClosed
  <1>4. WholeFrames(more, stack)
    <2>1. stored \subseteq more
      OBVIOUS
    <2> QED  BY <2>1, FramesStay DEF Closure
  <1> QED  BY <1>1, <1>3, <1>4 DEF Closure, StoredIsClosed

\* The file that was read is looked at again.
LEMMA RestatCloses ==
  ASSUME Closure, Restat
  PROVE  Closure'
  <1>1. CASE Ends("changed")
    BY <1>1, EndsCloses
  <1>2. CASE step = "restat" /\ Continues("relook")
    <2>1. stored' = stored /\ stack' = stack /\ step' = "relook" /\ file' = file
      BY <1>2 DEF Continues
    <2> QED  BY <1>2, <2>1 DEF Closure, StoredIsClosed
  <1> QED  BY <1>1, <1>2 DEF Restat

\* An entry is captured whose object is there.
LEMMA CapturedCloses ==
  ASSUME Inv, Closure, NEW value, Captured(value), stored \subseteq stored',
         \A o \in stored' : Refers(stored', o), Whole(stored', value)
  PROVE  Closure'
  <1> DEFINE T == Top.todo \ {Entry}
             K == With(Top.kids, Entry, value)
             f == [Top EXCEPT !.todo = T, !.kids = K]
  <1>1. Becomes(f) /\ step' = "entry"
    BY DEF Captured
  <1>2. f.dir = Top.dir /\ f.kids = K
    <2>1. SetsKids(Top, T, K, f)
      BY DEF SetsKids
    <2> HIDE DEF f, T, K
    <2> QED  BY <2>1, TopHas, SetKids
  <1>3. \A n \in DOMAIN K : Whole(stored', K[n])
    <2>1. /\ DOMAIN K = DOMAIN Top.kids \cup {Entry} /\ K[Entry] = value
          /\ \A m \in DOMAIN Top.kids : m # Entry => K[m] = Top.kids[m]
      BY DEF With
    <2>2. \A n \in DOMAIN Top.kids : Whole(stored', Top.kids[n])
      BY TopIsWhole, StaysWhole
    <2> HIDE DEF K
    <2> QED  BY <2>1, <2>2
  <1> HIDE DEF f, K
  <1>4. WholeFrames(stored', stack')
    BY <1>1, <1>2, <1>3, FrameBecomes
  <1> QED  BY <1>1, <1>4 DEF Closure, StoredIsClosed

\* The name of the file is looked at again, and its entry captured.
LEMMA RelookCloses ==
  ASSUME Inv, Closure, Relook
  PROVE  Closure'
  <1> DEFINE value == FileEntry(Len(file.read), Contents(file.inode, file.read))
  <1>1. CASE Ends("changed")
    BY <1>1, EndsCloses
  <1>2. CASE step = "relook" /\ UNCHANGED stored /\ Captured(value)
    <2>1. Contents(file.inode, file.read) \in stored /\ file.read \in Seq(Nat)
      BY <1>2 DEF Closure, Inv, FileOK
    <2>2. Whole(stored, value)
      BY <2>1, FileIsWhole
    <2>3. stored' = stored /\ \A o \in stored : Refers(stored, o)
      BY <1>2 DEF Closure, StoredIsClosed
    <2> HIDE DEF value
    <2> QED  BY <1>2, <2>2, <2>3, CapturedCloses
  <1> QED  BY <1>1, <1>2 DEF Relook

\* A link is read.
LEMMA ReadLinkCloses ==
  ASSUME Inv, Closure, ReadLink
  PROVE  Closure'
  <1>1. CASE Ends("changed") \/ Ends("failed")
    BY <1>1, EndsCloses
  <1>2. CASE step' = "relink" /\ UNCHANGED <<stack, stored>>
    BY <1>2 DEF Closure, StoredIsClosed
  <1> QED  BY <1>1, <1>2 DEF ReadLink, Gone

\* The name of the link is looked at again, and its entry captured.
LEMMA RelinkCloses ==
  ASSUME Inv, Closure, Relink
  PROVE  Closure'
  <1> DEFINE o == Target(file.read)
             more == stored \cup {o}
             value == LinkEntry(file.read)
  <1>1. CASE Ends("changed")
    BY <1>1, EndsCloses
  <1>2. CASE Stores(o) /\ Captured(value)
    <2>1. stored' = more /\ stored \subseteq stored'
      BY <1>2 DEF Stores
    <2>2. \A p \in more : Refers(more, p)
      <3>1. Refers(stored, o)
        BY PlainRefers
      <3> HIDE DEF o
      <3> QED  BY <3>1, ClosedGrows DEF Closure, StoredIsClosed
    <2>3. Whole(more, value)
      BY LinkIsWhole
    <2> HIDE DEF value, more
    <2> QED  BY <1>2, <2>1, <2>2, <2>3, CapturedCloses
  <1> QED  BY <1>1, <1>2 DEF Relink

\* At no moment of a capture, of one that fails or is killed as well, does anything in the
\* content store refer to an object that is not there, or that has another kind or size
\* than its entry says, down to the chunks; and a state is stored when its capture says
\* that it is done.  Inspection and restore load objects along these references.
THEOREM NothingDangles == Spec => []StoredIsClosed
  <1>1. Init => Closure
    <2> SUFFICES ASSUME Init PROVE Closure
      OBVIOUS
    <2>1. stored = {} /\ step = "list" /\ stack = <<Frame(Root)>>
      BY DEF Init
    <2>2. DOMAIN stack = {1} /\ DOMAIN stack[1].kids = {}
      BY <2>1 DEF Frame, Empty
    <2> QED  BY <2>1, <2>2 DEF Closure, StoredIsClosed, WholeFrames
  <1>2. Inv /\ Closure /\ [Next]_vars => Closure'
    <2> SUFFICES ASSUME Inv, Closure, [Next]_vars PROVE Closure'
      OBVIOUS
    <2>1. CASE Capture
      <3>1. UNCHANGED workspace
        BY <2>1 DEF Capture
      <3>2. CASE Refuse \/ Fails
        BY <3>2, EndsCloses DEF Refuse, Fails
      <3> QED  BY <2>1, <3>1, <3>2, ReadDirCloses, LstatCloses, ListedCloses, EntriesDoneCloses,
                  RelistedCloses, RedirCloses, RerootCloses, OpenDirCloses, OpenFileCloses,
                  ReadCloses, StoreFileCloses, RestatCloses, RelookCloses, ReadLinkCloses,
                  RelinkCloses DEF Capture
    <2>2. CASE Others \/ UNCHANGED vars
      <3>1. UNCHANGED <<stack, step, file, stored>>
        <4>1. nodes \in [Inodes -> Nodes] /\ changes \in Nat
          BY DEF Inv, Worlds
        <4>2. CASE Others
          BY <4>1, <4>2, OthersChange
        <4>3. CASE UNCHANGED vars
          BY <4>3 DEF vars
        <4> QED  BY <2>2, <4>2, <4>3
      <3>2. Top' = Top
        BY <3>1 DEF Top
      <3> QED  BY <3>1, <3>2 DEF Closure, StoredIsClosed
    <2> QED  BY <2>1, <2>2 DEF Next
  <1>3. Closure => StoredIsClosed
    BY DEF Closure
  <1> QED  BY <1>1, <1>2, <1>3, Invariant, PTL DEF Spec
============================================================================
