---------------------------- MODULE SnapshotMC ----------------------------
(***************************************************************************)
(* A root with two directories, one of a large and a small file, one of a  *)
(* large file and a link, and an inode of a special file that another      *)
(* process may put anywhere.  Without the small file and the link the two  *)
(* directories are the same tree.                                          *)
(***************************************************************************)
EXTENDS Inspection

CONSTANTS root, left, right, one, two, small, link, fifo

MCInodes == {root, left, right, one, two, small, link, fifo}
MCLarge  == {one, two}
MCNames  == 1 .. 2
Zeros    == [b \in 1 .. Blocks |-> 0]

MCInitial ==
    [i \in MCInodes |->
        CASE i = root  -> Dir(0, <<left, right>>)
          [] i = left  -> Dir(0, <<one, small>>)
          [] i = right -> Dir(0, <<two, link>>)
          [] i = link  -> Link(0, Zeros)
          [] i = fifo  -> Special
          [] OTHER     -> File(0, Zeros)]
============================================================================
