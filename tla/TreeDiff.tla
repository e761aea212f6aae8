----------------------------- MODULE TreeDiff -----------------------------
(***************************************************************************)
(* internal/diff/state.go: the changes from one state's tree to another's, *)
(* by a merge of the sorted entries of each directory.  A directory's      *)
(* object id stands for all that is below it; modes are left out.          *)
(***************************************************************************)
EXTENDS WorkspaceTree, Integers, Sequences, SequencesExt, FiniteSets

CONSTANTS
    NameOrder,         \* the nodes, ordered by name
    MaxStateChanges    \* how many changes a result lists; 0: all

ASSUME DiffAssumption ==
    /\ NameOrder \in Seq(Nodes) /\ MaxStateChanges \in Nat
    /\ \A n \in Nodes : \E i \in DOMAIN NameOrder : NameOrder[i] = n
    /\ \A i, j \in DOMAIN NameOrder : NameOrder[i] = NameOrder[j] => i = j

Kind(t, n) == IF t[n] = "dir" THEN "dir" ELSE "file"

Before(m, n) == \E i, j \in DOMAIN NameOrder : i < j /\ NameOrder[i] = m /\ NameOrder[j] = n

\* The entries of directory d in the canonical order.
Entries(t, d) ==
    LET names == {n \in Children(d) : t[n] # "absent"}
        size  == Cardinality(names)
    IN  CHOOSE s \in [1 .. size -> names] : \A i, j \in 1 .. size : i < j => Before(s[i], s[j])

SameObject(left, right, d) == \A n \in Below(d) : left[n] = right[n]

Change(n, what) == <<[node |-> n, change |-> what]>>

\* Mutant of ChangeOfEntry: the kinds are not compared.
ChangeOfContent(left, right, n, below) ==
    CASE left[n] = "dir" /\ right[n] = "dir" -> below
      [] OTHER -> IF left[n] # right[n] THEN Change(n, "modified") ELSE <<>>

\* Entries of the same name: files, or a directory compared already.
ChangeOfEntry(left, right, n, below) ==
    CASE Kind(left, n) # Kind(right, n) -> Change(n, "type_changed")
      [] left[n] = "dir" /\ right[n] = "dir" -> below
      [] OTHER -> IF left[n] # right[n] THEN Change(n, "modified") ELSE <<>>

\* The next entry of one side is no entry of the other.
OnlyIn(l, i, r, j) == i <= Len(l) /\ (j > Len(r) \/ Before(l[i], r[j]))

\* compareTree's loop over the entries of a directory: one turn of it.
Turn(left, right, l, r, below, at) ==
    CASE at.i > Len(l) /\ at.j > Len(r) -> at
      [] OnlyIn(l, at.i, r, at.j) ->
             [i |-> at.i + 1, j |-> at.j, changes |-> at.changes \o Change(l[at.i], "removed")]
      [] OnlyIn(r, at.j, l, at.i) ->
             [i |-> at.i, j |-> at.j + 1, changes |-> at.changes \o Change(r[at.j], "added")]
      [] OTHER ->
             [i |-> at.i + 1, j |-> at.j + 1,
              changes |-> at.changes \o ChangeOfEntry(left, right, l[at.i], below[l[at.i]])]

Merge(left, right, l, r, below) ==
    LET loop[k \in 0 .. Len(l) + Len(r)] ==
            IF k = 0 THEN [i |-> 1, j |-> 1, changes |-> <<>>]
                     ELSE Turn(left, right, l, r, below, loop[k - 1])
    IN  loop[Len(l) + Len(r)].changes

\* compareTree
Compared(left, right) ==
    LET compare[d \in Nodes \cup {Root}] ==
            IF SameObject(left, right, d) THEN <<>>
            ELSE Merge(left, right, Entries(left, d), Entries(right, d),
                       [c \in Children(d) |-> compare[c]])
    IN  compare[Root]

\* diffTrees and stateAccumulator.add: everything is counted, so much is listed.
DiffTrees(left, right) ==
    LET all == Compared(left, right)
        listed == IF MaxStateChanges = 0 \/ Len(all) < MaxStateChanges THEN Len(all)
                                                                       ELSE MaxStateChanges
    IN  [equal     |-> left = right,
         changes   |-> SubSeq(all, 1, listed),
         total     |-> Len(all),
         truncated |-> Len(all) > listed]

---------------------------------------------------------------------------
\* Reference definitions

\* What a change is about: the node, and what is below it unless it is a file
\* that was modified.
Covered(change) ==
    {change.node} \cup (IF change.change = "modified" THEN {} ELSE Below(change.node))

\* What node n must be listed as, or "" when it is the same on both sides.
Expected(left, right, n) ==
    IF left[n] = right[n] THEN ""
    ELSE IF left[n] = "absent" THEN "added"
    ELSE IF right[n] = "absent" THEN "removed"
    ELSE IF left[n] = "dir" \/ right[n] = "dir" THEN "type_changed"
    ELSE "modified"

\* The nodes that changed while no directory above them did.
Topmost(left, right) ==
    {n \in Nodes : /\ left[n] # right[n]
                   /\ \A m \in Ancestors[n] : left[m] = right[m]}

\* A diff names every topmost change once and as what it is, covers every
\* difference, lists in the order of the names down the tree, and says so when
\* it leaves some out.
TellsTheChange(left, right) ==
    LET diff == DiffTrees(left, right)
        all  == Compared(left, right)
    IN  /\ diff.equal <=> diff.total = 0
        /\ diff.total = Cardinality(Topmost(left, right))
        /\ {[node |-> n, change |-> Expected(left, right, n)] : n \in Topmost(left, right)} = ToSet(all)
        /\ \A n \in Nodes : left[n] # right[n] => \E i \in DOMAIN all : n \in Covered(all[i])
        /\ IsPrefix(diff.changes, all)
        /\ diff.truncated <=> Len(diff.changes) < diff.total
        /\ \A i, j \in DOMAIN all : i < j =>
              \A m \in Ancestors[all[i].node] \cup {all[i].node},
                 n \in Ancestors[all[j].node] \cup {all[j].node} :
                 Parent[m] = Parent[n] => m = n \/ Before(m, n)
============================================================================
