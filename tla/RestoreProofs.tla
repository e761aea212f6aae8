--------------------------- MODULE RestoreProofs ---------------------------
(* Theorems about Restore, for any number of processes, states and parts.  *)
EXTENDS Restore, TLAPS

(* A step of process p, of the user, of the disk, or none: what it does to *)
(* `touched' apart.                                                        *)
LEMMA StepOf ==
    ASSUME [Next]_vars
    PROVE  \/ \E p \in Procs : Step(p) /\ Kept
           \/ UserChanges \/ Rot \/ UNCHANGED vars
  BY DEF Next

(* A process touches a destination when it publishes a tree there.        *)
LEMMA Touching ==
    ASSUME [Next]_vars
    PROVE  touched' = touched \cup {p \in Procs : Is(p, "ready") /\ dest' # dest}
  BY DEF Next, vars, files

(* Type correctness.                                                       *)
THEOREM Typing == Spec => []TypeOK
  <1> USE WantedStates, SomeParts, ChangesBounded
  <1> USE DEF Contents, Trees
  <1>1. Init => TypeOK
    BY DEF Init, TypeOK, Locations
  <1>2. ASSUME TypeOK, [Next]_vars PROVE TypeOK'
    <2> USE <1>2 DEF TypeOK
    <2>1. touched' \subseteq Procs
      BY Touching
    <2>2. ASSUME NEW p \in Procs, Step(p), Kept PROVE TypeOK'
      <3> USE <2>2, <2>1 DEF Kept, files, evidence, history, Goto, Locations, Over
      <3>1. CASE Verify(p)
        BY <3>1 DEF Verify, MarkCorrupt
      <3>2. CASE ValidateDestination(p)
        BY <3>2 DEF ValidateDestination, MayReplace
      <3>3. CASE Stage(p)
        BY <3>3 DEF Stage
      <3>4. CASE Materialize(p)
        <4>1. staging[p].parts + 1 \in Nat
          BY DEF Tree, Nothing
        <4> QED  BY <3>4, <4>1 DEF Materialize, MarkCorrupt
      <3>5. CASE Fails(p)
        BY <3>5 DEF Fails
      <3>6. CASE Clean(p)
        BY <3>6 DEF Clean, Cleaned
      <3>7. CASE CommitNew(p)
        BY <3>7 DEF CommitNew, MoveIn
      <3>8. CASE MoveAside(p)
        BY <3>8 DEF MoveAside
      <3>9. CASE CommitForced(p)
        BY <3>9 DEF CommitForced, MoveIn
      <3>10. CASE Rollback(p)
        BY <3>10 DEF Rollback
      <3>11. CASE RemoveBackup(p)
        BY <3>11 DEF RemoveBackup
      <3>12. CASE Capture(p)
        BY <3>12 DEF Capture
      <3>13. CASE Start(p)
        BY <3>13 DEF Start
      <3>14. CASE Killed(p)
        BY <3>14 DEF Killed
      <3> QED  BY <3>1, <3>2, <3>3, <3>4, <3>5, <3>6, <3>7, <3>8, <3>9, <3>10, <3>11,
                  <3>12, <3>13, <3>14 DEF Step
    <2>3. CASE UserChanges
      BY <2>1, <2>3 DEF UserChanges, files, evidence, history
    <2>4. CASE Rot
      BY <2>1, <2>4 DEF Rot, files, history
    <2>5. CASE UNCHANGED vars
      BY <2>5 DEF vars, files, evidence, history
    <2> QED  BY <2>2, <2>3, <2>4, <2>5, StepOf
  <1> QED  BY <1>1, <1>2, PTL DEF Spec
---------------------------------------------------------------------------
(* What the location of a process tells of the file system: its staging    *)
(* directory is complete when it reaches the commit, it has a backup only  *)
(* after it moved the destination aside, which takes --force, and removes  *)
(* it only after its commit.                                               *)

Whole(x) == x.what \in States => x.parts = Parts

Staged(p) ==
    /\ pc[p] = "write" => \E n \in 0 .. Parts : staging[p] = Tree(Wanted[p], n)
    /\ pc[p] \in {"commit", "moved"} => staging[p] = Tree(Wanted[p], Parts)
    /\ pc[p] \in {"moved", "rollback", "tidy"} => p \in existed
    /\ pc[p] = "tidy" => p \in committed
    /\ pc[p] \in {"verify", "validate", "stage", "write", "commit", "done", "ready",
                  "refused", "ran"} => backup[p] = Nothing
    /\ pc[p] \in {"verify", "validate", "stage", "tidy", "failed", "done", "ready",
                  "refused", "ran"} => staging[p] = Nothing
    /\ Whole(backup[p])

(* The capture of a rerun found the recorded state, and it is still there  *)
(* unless somebody touched it.                                             *)
Branched(p) ==
    /\ pc[p] = "ready" /\ p \notin touched => dest = Tree(Wanted[p], Parts)
    /\ ran[p] # Nothing => pc[p] = "ran"
    /\ ran[p] # Nothing /\ p \notin touched => ran[p] = Tree(Wanted[p], Parts)

Inv ==
    /\ TypeOK /\ NeverPartial /\ UserDataIsKept
    /\ \A p \in Procs : Staged(p) /\ Branched(p)

(* A rename destroys no directory of the user's.                           *)
LEMMA RenameKeeps ==
    ASSUME NEW x, NEW y, MovesTo(x, y), y.what = "work"
    PROVE  ~(y.parts > 0)
  BY DEF MovesTo, Nothing

(* The invariant holds in the beginning.                                   *)
LEMMA InvInit ==
    ASSUME Init
    PROVE  Inv
  <1>1. TypeOK
    BY SomeParts, ChangesBounded DEF Init, TypeOK, Contents, Locations
  <1>2. NeverPartial
    BY NamesOfStates DEF Init, NeverPartial, Nothing, File, Work
  <1>3. UserDataIsKept
    BY DEF Init, UserDataIsKept
  <1>4. \A p \in Procs : Staged(p) /\ Branched(p)
    BY NamesOfStates DEF Init, Staged, Branched, Whole, Nothing
  <1> QED  BY <1>1, <1>2, <1>3, <1>4 DEF Inv

(* One process moves: what the others know of their own directories stays. *)
LEMMA StagedStep ==
    ASSUME Inv, TypeOK', NEW p \in Procs, Step(p), Kept
    PROVE  \A q \in Procs : Staged(q)'
  <1> USE WantedStates, SomeParts DEF Inv, TypeOK, Staged, Kept, files, evidence, history,
      Goto, Is
  <1> SUFFICES ASSUME NEW q \in Procs PROVE Staged(q)'
    OBVIOUS
  <1>1. CASE q # p
    <2>1. /\ pc'[q] = pc[q] /\ staging'[q] = staging[q] /\ backup'[q] = backup[q]
          /\ q \in existed => q \in existed'
          /\ q \in committed => q \in committed'
      BY <1>1 DEF Step, Verify, ValidateDestination, Stage, Materialize, Fails, Clean,
         Cleaned, CommitNew, MoveIn, MoveAside, CommitForced, Rollback, RemoveBackup,
         Capture, Start, Killed, MarkCorrupt
    <2> QED  BY <2>1 DEF Whole
  <1>2. CASE q = p
    <2> USE <1>2
    <2>1. Whole(Nothing)
      BY NamesOfStates DEF Whole, Nothing
    <2>2. Whole(dest)
      BY DEF NeverPartial, Whole
    <2>3. CASE Verify(p)
      BY <2>3 DEF Verify, MarkCorrupt, Whole
    <2>4. CASE ValidateDestination(p)
      BY <2>4 DEF ValidateDestination, Whole
    <2>5. CASE Stage(p)
      BY <2>5 DEF Stage, Whole
    <2>6. CASE Fails(p)
      BY <2>6 DEF Fails, Whole
    <2>7. CASE Clean(p)
      BY <2>7 DEF Clean, Cleaned, Whole
    <2>8. CASE CommitNew(p)
      BY <2>8 DEF CommitNew, MoveIn, Whole
    <2>9. CASE MoveAside(p)
      BY <2>9, <2>2 DEF MoveAside, IsNew, Whole
    <2>10. CASE CommitForced(p)
      BY <2>10 DEF CommitForced, MoveIn, Whole
    <2>11. CASE Rollback(p)
      BY <2>11, <2>1 DEF Rollback, Whole
    <2>12. CASE RemoveBackup(p)
      BY <2>12, <2>1 DEF RemoveBackup, Whole
    <2>13. CASE Capture(p) \/ Start(p) \/ Killed(p)
      BY <2>13 DEF Capture, Start, Killed, Over, Whole
    <2>14. CASE Materialize(p)
      <3>1. PICK n \in 0 .. Parts : staging[p] = Tree(Wanted[p], n)
        BY <2>14 DEF Materialize
      <3>2. staging[p].parts = n
        BY <3>1 DEF Tree
      <3> QED  BY <2>14, <3>1, <3>2 DEF Materialize, AllWritten, MarkCorrupt, Whole
    <2> QED  BY <2>3, <2>4, <2>5, <2>6, <2>7, <2>8, <2>9, <2>10, <2>11, <2>12, <2>13,
                <2>14 DEF Step
  <1> QED  BY <1>1, <1>2

(* A step of one process leaves no part of a tree at a destination.        *)
LEMMA PartialStep ==
    ASSUME Inv, NEW p \in Procs, Step(p), Kept
    PROVE  NeverPartial'
  <1> USE DEF Inv, NeverPartial, files
  <1>1. CASE dest' = dest
    BY <1>1
  <1>2. CASE dest' = Nothing
    BY <1>2, NamesOfStates DEF Nothing
  <1>3. CASE dest' = staging[p] /\ pc[p] \in {"commit", "moved"}
    <2>1. staging[p] = Tree(Wanted[p], Parts)
      BY <1>3 DEF Staged
    <2> QED  BY <1>3, <2>1 DEF Tree
  <1>4. CASE dest' = backup[p]
    BY <1>4 DEF Staged, Whole
  <1> QED
    BY <1>1, <1>2, <1>3, <1>4 DEF Step, Verify, ValidateDestination, Stage, Materialize,
       Fails, Clean, CommitNew, MoveIn, MoveAside, CommitForced, Rollback, RemoveBackup,
       Capture, Start, Killed, Is

(* Every rename of a directory of the user's takes it to a place where it  *)
(* is still kept, and RemoveBackup comes after the commit.                 *)
LEMMA DataStep ==
    ASSUME Inv, NEW p \in Procs, Step(p), Kept
    PROVE  UserDataIsKept'
  <1> DEFINE Places == {dest} \cup {backup[q] : q \in Procs} \cup replaced
  <1> SUFFICES ASSUME NEW c \in owed, c.what = "work", c.parts > 0
               PROVE  c \in Places'
    BY DEF UserDataIsKept, Kept
  <1>0. c \in Places /\ c # Nothing /\ backup \in [Procs -> Contents]
    BY DEF Inv, UserDataIsKept, TypeOK, Nothing
  <1> USE DEF files, history
  <1>1. CASE MoveIn(p)
    <2>1. c # dest
      BY <1>1, RenameKeeps DEF MoveIn
    <2> QED  BY <1>0, <1>1, <2>1 DEF MoveIn
  <1>2. CASE MoveAside(p)
    <2>1. CASE UNCHANGED files
      BY <1>0, <1>2, <2>1 DEF MoveAside
    <2>2. CASE backup' = [backup EXCEPT ![p] = dest]
      <3>1. backup[p] = Nothing /\ UNCHANGED replaced
        BY <1>2 DEF Inv, Staged, MoveAside, Is
      <3>2. backup'[p] = dest /\ \A q \in Procs : q # p => backup'[q] = backup[q]
        BY <1>0, <2>2
      <3> QED  BY <1>0, <3>1, <3>2
    <2> QED  BY <1>2, <2>1, <2>2 DEF MoveAside
  <1>3. CASE Rollback(p)
    <2>1. CASE UNCHANGED <<dest, backup>>
      BY <1>0, <1>3, <2>1 DEF Rollback
    <2>2. CASE /\ MovesTo(backup[p], dest) /\ dest' = backup[p]
               /\ backup' = [backup EXCEPT ![p] = Nothing]
      <3>1. c # dest
        BY <2>2, RenameKeeps
      <3>2. \A q \in Procs : q # p => backup'[q] = backup[q]
        BY <1>0, <2>2
      <3>3. UNCHANGED replaced
        BY <1>3 DEF Rollback
      <3> QED  BY <1>0, <2>2, <3>1, <3>2, <3>3
    <2> QED  BY <1>3, <2>1, <2>2 DEF Rollback
  <1>4. CASE RemoveBackup(p)
    <2>1. p \in committed /\ dest' = dest
      BY <1>4 DEF Inv, Staged, RemoveBackup, Is
    <2>2. CASE UNCHANGED <<files, history>>
      BY <1>0, <2>2
    <2>3. CASE /\ backup' = [backup EXCEPT ![p] = Nothing]
               /\ replaced' = replaced \cup (IF p \in committed THEN {backup[p]} ELSE {})
      <3>1. \A q \in Procs : q # p => backup'[q] = backup[q]
        BY <1>0, <2>3
      <3> QED  BY <1>0, <2>1, <2>3, <3>1
    <2> QED  BY <1>4, <2>2, <2>3 DEF RemoveBackup
  <1>5. CASE UNCHANGED <<dest, backup, replaced>>
    BY <1>0, <1>5
  <1> QED
    BY <1>1, <1>2, <1>3, <1>4, <1>5 DEF Step, Verify, ValidateDestination, Stage,
       Materialize, Fails, Clean, Cleaned, CommitNew, CommitForced, Capture, Start, Killed

(* A step of one process leaves the branches of all as they are recorded.  *)
LEMMA BranchedStep ==
    ASSUME Inv, [Next]_vars, NEW p \in Procs, Step(p), Kept
    PROVE  \A q \in Procs : Branched(q)'
  <1> USE DEF Inv, TypeOK, Branched, files, evidence, history, Goto, Is
  <1> SUFFICES ASSUME NEW q \in Procs PROVE Branched(q)'
    OBVIOUS
  <1>0. touched' = touched \cup {r \in Procs : pc[r] = "ready" /\ dest' # dest}
    BY Touching
  <1>1. CASE q # p
    <2>1. pc'[q] = pc[q] /\ ran'[q] = ran[q]
      BY <1>1 DEF Step, Verify, ValidateDestination, Stage, Materialize, Fails, Clean,
         CommitNew, MoveAside, CommitForced, Rollback, RemoveBackup, Capture, Start, Killed
    <2> QED  BY <1>0, <2>1
  <1>2. CASE q = p /\ Capture(p)
    BY <1>0, <1>2 DEF Capture, ExactRoot
  <1>3. CASE q = p /\ Start(p)
    BY <1>0, <1>3 DEF Start
  <1>4. CASE q = p /\ Killed(p)
    BY <1>0, <1>4 DEF Killed, Over
  <1>5. CASE q = p /\ ~(Capture(p) \/ Start(p) \/ Killed(p))
    <2>1. ran' = ran /\ pc[p] # "ran" /\ pc'[p] # "ready"
      BY <1>5 DEF Step, Verify, ValidateDestination, Stage, Materialize, Fails, Clean,
         CommitNew, MoveAside, CommitForced, Rollback, RemoveBackup
    <2> QED  BY <1>5, <2>1
  <1> QED  BY <1>1, <1>2, <1>3, <1>4, <1>5

(* The user, the disk, and a step of nobody.                               *)
LEMMA OutsideStep ==
    ASSUME Inv, [Next]_vars, UserChanges \/ Rot \/ UNCHANGED vars
    PROVE  /\ NeverPartial' /\ UserDataIsKept'
           /\ \A p \in Procs : Staged(p)' /\ Branched(p)'
  <1> USE DEF Inv
  <1>0. touched' = touched \cup {r \in Procs : pc[r] = "ready" /\ dest' # dest}
    BY Touching DEF Is
  <1>1. UNCHANGED <<staging, backup, pc, existed, ran, committed, replaced>>
    BY DEF UserChanges, Rot, vars, files, history
  <1>2. \A p \in Procs : Staged(p)'
    BY <1>1 DEF Staged, Whole
  <1>3. \A p \in Procs : Branched(p)'
    BY <1>0, <1>1 DEF Branched
  <1>4. CASE UserChanges
    <2>1. /\ dest' \in {Nothing, File(changes + 1)}
                \cup {Work(changes + 1, n) : n \in {0, Parts}}
          /\ owed' = (owed \ {dest}) \cup {dest'}
      BY <1>4 DEF UserChanges
    <2>2. dest'.what \in {"nothing", "work", "file"}
      BY <2>1 DEF Nothing, File, Work
    <2>3. NeverPartial'
      BY <2>2, NamesOfStates DEF NeverPartial
    <2>4. UserDataIsKept'
      BY <1>1, <2>1 DEF UserDataIsKept
    <2> QED  BY <1>2, <1>3, <2>3, <2>4
  <1>5. CASE Rot \/ UNCHANGED vars
    <2>1. dest' = dest /\ owed' = owed
      BY <1>5 DEF Rot, vars, files
    <2> QED  BY <1>1, <1>2, <1>3, <2>1 DEF NeverPartial, UserDataIsKept
  <1> QED  BY <1>4, <1>5

(* The invariant holds in every reachable state.                           *)
LEMMA Inductive == Spec => []Inv
  <1>1. Init => Inv
    BY InvInit
  <1>2. Inv /\ TypeOK' /\ [Next]_vars => Inv'
    <2> SUFFICES ASSUME Inv, TypeOK', [Next]_vars PROVE Inv'
      OBVIOUS
    <2>1. ASSUME NEW p \in Procs, Step(p), Kept PROVE Inv'
      BY <2>1, StagedStep, PartialStep, DataStep, BranchedStep DEF Inv
    <2>2. CASE UserChanges \/ Rot \/ UNCHANGED vars
      BY <2>2, OutsideStep DEF Inv
    <2> QED  BY <2>1, <2>2, StepOf
  <1> QED  BY <1>1, <1>2, Typing, PTL DEF Spec

(* The destination never has a partly materialized state.                  *)
THEOREM Complete == Spec => []NeverPartial
  BY Inductive, PTL DEF Inv

(* No restore loses a directory of the user's before its own is in place.  *)
THEOREM UserData == Spec => []UserDataIsKept
  BY Inductive, PTL DEF Inv

(* A restore that returned left no staging directory, and if it succeeded  *)
(* no backup.                                                              *)
THEOREM Litter == Spec => []NoLitter
  <1>1. Inv => NoLitter
    BY DEF Inv, Staged, NoLitter
  <1> QED  BY <1>1, Inductive, PTL

(* A command starts in the recorded state unless the branch was touched    *)
(* after its capture.                                                      *)
THEOREM Branch == Spec => []ExactBranch
  <1>1. Inv => ExactBranch
    BY DEF Inv, Branched, ExactBranch
  <1> QED  BY <1>1, Inductive, PTL

(* Without --force nobody's directory or file is taken.                    *)
THEOREM ForceOnly == Spec => OnlyForceReplaces
  <1>1. Inv /\ [Next]_vars =>
          [\A p \in Procs \ forced : pc'[p] # pc[p] => dest' = dest \/ dest.parts = 0]_vars
    <2> SUFFICES ASSUME Inv, [Next]_vars, NEW p \in Procs \ forced, pc'[p] # pc[p]
                 PROVE  dest' = dest \/ dest.parts = 0
      OBVIOUS
    <2> USE DEF Inv, TypeOK, files, Goto, Is
    <2>1. Step(p)
      <3>1. PICK q \in Procs : Step(q) /\ Kept
        BY StepOf DEF UserChanges, Rot, vars
      <3>2. \A r \in Procs : r # q => pc'[r] = pc[r]
        BY <3>1 DEF Step, Verify, ValidateDestination, Stage, Materialize, Fails, Clean,
           CommitNew, MoveAside, CommitForced, Rollback, RemoveBackup, Capture, Start, Killed
      <3> QED  BY <3>1, <3>2
    <2>2. p \notin existed
      OBVIOUS
    <2>3. CASE CommitNew(p)
      <3>1. CASE UNCHANGED files
        BY <3>1
      <3>2. CASE MoveIn(p)
        <4>1. staging[p] = Tree(Wanted[p], Parts) /\ Wanted[p] \in States
          BY <2>3, WantedStates DEF CommitNew, Staged
        <4>2. staging[p].what # "file"
          BY <4>1, NamesOfStates DEF Tree
        <4> QED  BY <3>2, <4>2 DEF MoveIn, MovesTo, Nothing
      <3> QED  BY <2>3, <3>1, <3>2 DEF CommitNew
    <2>4. ~MoveAside(p) /\ ~CommitForced(p) /\ ~Rollback(p) /\ ~RemoveBackup(p)
      BY <2>2 DEF MoveAside, IsNew, CommitForced, Rollback, RemoveBackup, Staged
    <2> QED
      BY <2>1, <2>3, <2>4 DEF Step, Verify, ValidateDestination, Stage, Materialize,
         Fails, Clean, Capture, Start, Killed
  <1> QED  BY <1>1, Inductive, PTL DEF Spec, OnlyForceReplaces
============================================================================
