-------------------------- MODULE LocalStoreProofs --------------------------
(***************************************************************************)
(* For any number of processes: a Put that returned from its own commit    *)
(* left an entry that survives a power loss, and all processes together    *)
(* implement the abstract content store.                                   *)
(*                                                                         *)
(* Both rest on what a process may assume between two of its system calls, *)
(* while others run: from its link to its return, that the file is there   *)
(* or was condemned; on the way to the marker, that the marker exists by   *)
(* now or the bytes are still bad; past the marker, that it exists.        *)
(***************************************************************************)
EXTENDS LocalStore, TLAPS

\* A linked object is there, unless a quarantine took it.
LinkedStays ==
    \A p \in Procs : pc[p] \in {"sync", "committed"} => file # "absent" \/ condemned

\* Bytes found bad do not become good before the marker is written.
BadStays ==
    \A p \in Procs : pc[p] \in {"markChain", "markLink"} => marker \/ file = "bad"

\* Bytes are moved away only behind the marker.
MarkedFirst ==
    \A p \in Procs : pc[p] \in {"markSync", "rename", "renameSync"} => marker

StoreInv == TypeOK /\ CommitIsDurable /\ LinkedStays /\ BadStays /\ MarkedFirst

\* An empty store satisfies the invariant.
LEMMA StoreInit == Init => StoreInv
  BY DEF Init, StoreInv, TypeOK, CommitIsDurable, LinkedStays, BadStays, MarkedFirst,
     Bytes, Steps, Callers

\* The operations of Put.
LEMMA PutKeeps ==
  ASSUME StoreInv, NEW p \in Procs,
         PutStart(p) \/ PutStat(p) \/ PutChain(p) \/ PutLink(p) \/ PutSync(p)
  PROVE  StoreInv'
  <1> USE DEF StoreInv, TypeOK, Bytes, Steps, Callers, Goto, Enter, UnchangedStore
  <1>1. TypeOK'
    BY DEF PutStart, PutStat, PutChain, PutLink, Linked, PutSync, Synced
  <1>2. CommitIsDurable'
    BY DEF CommitIsDurable, LinkedStays, PutStart, PutStat, PutChain, PutLink, Linked,
       PutSync, Synced
  <1>3. LinkedStays' /\ BadStays' /\ MarkedFirst'
    BY DEF LinkedStays, BadStays, MarkedFirst, PutStart, PutStat, PutChain, PutLink, Linked,
       PutSync, Synced
  <1> QED  BY <1>1, <1>2, <1>3

\* Get, the inspection and the publication change no file.
LEMMA GetKeeps ==
  ASSUME StoreInv, NEW p \in Procs,
         GetStart(p) \/ GetCheck(p) \/ GetRead(p) \/ Inspect(p) \/ Publish(p) \/ Kill(p)
  PROVE  StoreInv'
  <1> USE DEF StoreInv, TypeOK, Bytes, Steps, Callers, Goto, Enter, UnchangedStore
  <1>1. TypeOK'
    BY DEF GetStart, GetCheck, GetRead, Return, Inspect, Publish, Kill
  <1>2. CommitIsDurable' /\ LinkedStays'
    BY DEF CommitIsDurable, LinkedStays, GetStart, GetCheck, GetRead, Return, Inspect,
       Publish, Kill
  <1>3. BadStays' /\ MarkedFirst'
    BY DEF BadStays, MarkedFirst, GetStart, GetCheck, GetRead, Return, Inspect, Publish, Kill
  <1> QED  BY <1>1, <1>2, <1>3

\* The quarantine.
LEMMA QuarantineKeeps ==
  ASSUME StoreInv, NEW p \in Procs,
         MarkChain(p) \/ MarkLink(p) \/ MarkSync(p) \/ Rename(p) \/ RenameSync(p)
  PROVE  StoreInv'
  <1> USE DEF StoreInv, TypeOK, Bytes, Steps, Callers, Goto, Enter, UnchangedStore
  <1>1. TypeOK'
    BY DEF MarkChain, MarkLink, AfterMarkLink, MarkSync, Rename, RenameSync
  <1>2. CommitIsDurable' /\ LinkedStays'
    BY DEF CommitIsDurable, LinkedStays, MarkChain, MarkLink, AfterMarkLink, MarkSync,
       Rename, RenameSync
  <1>3. BadStays' /\ MarkedFirst'
    BY DEF BadStays, MarkedFirst, MarkChain, MarkLink, AfterMarkLink, MarkSync, Rename,
       RenameSync
  <1> QED  BY <1>1, <1>2, <1>3

\* The invariant is inductive.
LEMMA StoreKeeps == StoreInv /\ [Next]_vars => StoreInv'
  <1> SUFFICES ASSUME StoreInv, [Next]_vars PROVE StoreInv'
    OBVIOUS
  <1>1. CASE \E p \in Procs : Step(p)
    BY <1>1, PutKeeps, GetKeeps, QuarantineKeeps DEF Step
  <1>2. CASE Rot
    BY <1>2 DEF Rot, StoreInv, TypeOK, Bytes, CommitIsDurable, LinkedStays, BadStays, MarkedFirst
  <1>3. CASE PowerLoss
    BY <1>3 DEF PowerLoss, StoreInv, TypeOK, Bytes, Steps, CommitIsDurable, LinkedStays,
       BadStays, MarkedFirst
  <1>4. CASE UNCHANGED vars
    BY <1>4 DEF vars, StoreInv, TypeOK, CommitIsDurable, LinkedStays, BadStays, MarkedFirst
  <1> QED  BY <1>1, <1>2, <1>3, <1>4 DEF Next

\* The invariant holds in every reachable state.
LEMMA StoreHolds == Spec => []StoreInv
  BY StoreInit, StoreKeeps, PTL DEF Spec

---------------------------------------------------------------------------

\* Every process is at a step of its call and every copy holds bytes of the object.
THEOREM Typing == Spec => []TypeOK
  <1>1. StoreInv => TypeOK
    BY DEF StoreInv
  <1> QED  BY <1>1, StoreHolds, PTL

(* A Put that returns from its own commit has made the object durable,     *)
(* whatever the other processes did between its system calls.              *)
THEOREM CommitsAreDurable == Spec => []CommitIsDurable
  <1>1. StoreInv => CommitIsDurable
    BY DEF StoreInv
  <1> QED  BY <1>1, StoreHolds, PTL

\* Only the link, the marker and damage change the object, each as the abstract
\* store does.
LEMMA StepImplements ==
  ASSUME StoreInv, [Next]_vars
  PROVE  [Object!Next \/ PowerLoss]_(IF marker THEN "condemned" ELSE file)
  <1> USE DEF StoreInv, TypeOK, Bytes, Object!Next, Object!Store, Object!Damage, Object!Condemn
  <1>1. ASSUME NEW p \in Procs, PutLink(p)
        PROVE  [Object!Next]_(IF marker THEN "condemned" ELSE file)
    BY <1>1 DEF PutLink, Linked
  <1>2. ASSUME NEW p \in Procs, MarkLink(p)
        PROVE  [Object!Next]_(IF marker THEN "condemned" ELSE file)
    BY <1>2 DEF MarkLink, BadStays
  <1>3. ASSUME NEW p \in Procs, Rename(p)
        PROVE  UNCHANGED (IF marker THEN "condemned" ELSE file)
    BY <1>3 DEF Rename, MarkedFirst
  <1>4. ASSUME NEW p \in Procs, Step(p), ~PutLink(p), ~MarkLink(p), ~Rename(p)
        PROVE  UNCHANGED <<file, marker>>
    BY <1>4 DEF Step, PutStart, PutStat, PutChain, PutSync, GetStart, GetCheck, GetRead,
       MarkChain, MarkSync, RenameSync, Inspect, Publish, Kill, UnchangedStore
  <1>5. CASE Rot
    BY <1>5 DEF Rot
  <1>6. CASE UNCHANGED vars
    BY <1>6 DEF vars
  <1> QED  BY <1>1, <1>2, <1>3, <1>4, <1>5, <1>6 DEF Next

(* While the machine stays up the processes together implement the content *)
(* store: an object is stored once, is condemned only when its bytes are   *)
(* bad, and no interleaving of Put with a quarantine brings it back.       *)
THEOREM ContentStoreImplemented == Spec => ImplementsContentStore
  <1>1. Init => Object!Init
    BY DEF Init, Object!Init
  <1>2. StoreInv /\ [Next]_vars
        => [Object!Next \/ PowerLoss]_(IF marker THEN "condemned" ELSE file)
    BY StepImplements
  <1> QED  BY <1>1, <1>2, StoreHolds, PTL DEF Spec, ImplementsContentStore
=============================================================================
