--------------------------- MODULE WorkspaceTree ---------------------------
(***************************************************************************)
(* The workspace as the recorder sees it: a tree below Root whose nodes    *)
(* are absent, a directory, or a file with some content.  A node is a path,*)
(* so nodes of two trees have the same name when they are the same node.   *)
(***************************************************************************)
EXTENDS FiniteSets

CONSTANTS
    Nodes,      \* the paths below the root
    Root,       \* the workspace itself
    Parent,     \* the directory of each path
    Contents    \* of files

ASSUME TreeAssumption ==
    /\ IsFiniteSet(Nodes) /\ Root \notin Nodes
    /\ Parent \in [Nodes -> Nodes \cup {Root}]
    /\ {"absent", "dir"} \cap Contents = {}

\* Going up from any path leads to the root.
ASSUME RootAssumption ==
    \A S \in SUBSET Nodes : S # {} => \E n \in S : Parent[n] \notin S

\* The directories between a path and the root: the least set with the parent of
\* the path, if that is not the root, and with the parent of each of its members.
UpTo(n, S) == \A m \in S \cup {n} : Parent[m] \in S \cup {Root}

Ancestors == [n \in Nodes |-> {m \in Nodes : \A S \in SUBSET Nodes : UpTo(n, S) => m \in S}]

Below(d)    == IF d = Root THEN Nodes ELSE {n \in Nodes : d \in Ancestors[n]}
Children(d) == {n \in Nodes : Parent[n] = d}

IsDir(t, n) == IF n = Root THEN TRUE ELSE t[n] = "dir"

Trees == {t \in [Nodes -> {"absent", "dir"} \cup Contents] :
             \A n \in Nodes : t[n] # "absent" => IsDir(t, Parent[n])}
============================================================================
