----------------------------- MODULE StartupMC -----------------------------
(* Two processes, four migrations of which two were shipped without        *)
(* checksums, and every kind of build that can meet such a database.       *)
EXTENDS Startup, Sequences

File(v, text) == [name |-> <<"foundations", "reachability", "integrity", "artifacts">>[v],
                  text |-> text]
ShippedFiles == [v \in 1 .. 4 |-> File(v, "shipped")]

MCBuilds == { ShippedFiles,
              SubSeq(ShippedFiles, 1, 3),                           \* an earlier release
              [ShippedFiles EXCEPT ![2] = File(2, "edited")],       \* a legacy file edited
              [ShippedFiles EXCEPT ![4] = File(4, "edited")],
              [ShippedFiles EXCEPT ![3].name = "renamed"],
              [v \in {1, 2, 4} |-> File(v, "shipped")] }            \* a file left out
MCDatabases == { <<>>, SubSeq(ShippedFiles, 1, 2) }
MCPinned    == [v \in 1 .. 2 |-> "shipped"]
===========================================================================
