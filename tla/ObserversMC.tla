---------------------------- MODULE ObserversMC ----------------------------
EXTENDS Observers, TLC

\* Two calls with one id may be open at once, and a result may come alone.
MCLines == {[kind |-> "message", id |-> "",  text |-> "plain"],
            [kind |-> "call",    id |-> "c", text |-> "json"],
            [kind |-> "result",  id |-> "c", text |-> "head"],
            [kind |-> "silent",  id |-> "",  text |-> "plain"],
            [kind |-> "long",    id |-> "",  text |-> "plain"]}

\* A directory with a place for a file or directory below it, and a name that
\* is ignored when it is a directory.
MCParent == ("a" :> "root") @@ ("b" :> "a") @@ ("x" :> "root")

MCNameOrder == <<"a", "b", "x">>

MCStartTrees == {[n \in Nodes |-> "absent"],
                 ("a" :> "dir") @@ ("b" :> "f0") @@ ("x" :> "f0")}
============================================================================
